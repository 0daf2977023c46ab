\* Safety: three connections share two descriptors.
SPECIFICATION Spec
CONSTANTS
  c1 = c1
  c2 = c2
  c3 = c3
  Conns <- ThreeConns
  MaxFd = 2
  MaxConnections = 1
  ClientMode = TRUE
  PeersStall = TRUE
SYMMETRY ThreeSymmetric
CHECK_DEADLOCK FALSE
INVARIANTS
  TypeOK
  RemovalNotLost
  FdsOwned
  OnlyDisconnectedRemoved
PROPERTIES
  UsesIRemoteDevice
