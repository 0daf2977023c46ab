\* The device may stop for good: a null pointer is used.
SPECIFICATION Spec
CONSTANTS
  r1 = r1
  r2 = r2
  r3 = r3
  a1 = a1
  a2 = a2
  f1 = f1
  f2 = f2
  Remotes <- MCRemotes
  Opts = {FALSE, TRUE}
  Made <- MCLists
  Apps = {a1}
  Fbts = {f1}
SYMMETRY MCSymmetry
CHECK_DEADLOCK FALSE
INVARIANTS
  AttachedWhereItKnows
  ExternalKnown
PROPERTIES
  ImplementsIRemoteDevice
  ShowsKnown
  FrameComplete
