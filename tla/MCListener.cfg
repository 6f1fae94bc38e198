CONSTANTS
  e1 = e1
  e2 = e2
  main = main
  w1 = w1
  w2 = w2
  c1 = c1
  c2 = c2
  s1 = s1
  s2 = s2
  s3 = s3
  s4 = s4
  nobody = nobody
  Events = {e1, e2}
  Main = main
  Workers = {w1, w2}
  Clients = {c1, c2}
  Sockets = {s1, s2, s3, s4}
  Nobody = nobody
SPECIFICATION FairSpec
INVARIANTS
  AcceptSlotsKept
PROPERTY
  KeepsAccepting
CHECK_DEADLOCK FALSE
