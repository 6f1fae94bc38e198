CONSTANTS
  w1 = w1
  w2 = w2
  w3 = w3
  main = main
  Workers <- TwoWorkers
  Senders <- MainThread
  MaxSends = 3
  MaxRecvs = 1
  ResourceErrors = FALSE
SPECIFICATION FairSpec
INVARIANTS
  NoStranded
PROPERTIES
  StreamSpec
  EveryBufferSent
  PeerCloseReleases
CHECK_DEADLOCK FALSE
