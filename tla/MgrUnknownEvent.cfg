SPECIFICATION Spec
CONSTANTS
  c1 = c1
  c2 = c2
  c3 = c3
  Conns <- TwoConns
  MaxFd = 2
  MaxConnections = 1
  ClientMode = FALSE
  PeersStall = FALSE
CHECK_DEADLOCK FALSE
INVARIANTS
  EveryEventKnown
