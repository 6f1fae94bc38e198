CONSTANTS
  w1 = w1
  w2 = w2
  w3 = w3
  main = main
  Workers <- ThreeWorkers
  Senders <- MainThread
  MaxSends = 4
  MaxRecvs = 2
  ResourceErrors = TRUE
SPECIFICATION Spec
SYMMETRY WorkerSymmetry
INVARIANTS
  TypeOK
  SendExclusive
  OwnedWhilePending
  NoEmptyBatch
  CleanDisconnect
CHECK_DEADLOCK FALSE
