SPECIFICATION Spec
CONSTANTS
  r1 = r1
  r2 = r2
  r3 = r3
  Remotes <- MCRemotes
  Builds <- MCBuilds
  SizeOf <- MCSizeOf
  PrimaryHotplug <- MCPrimaryHotplug
  DefaultSize = "default"
  RepeatedAck = FALSE
  MaxId = 3
SYMMETRY MCSymmetry
INVARIANTS
  HotplugsDelivered
  HotplugsAlternate
  SizeKnown
  SomeDisplay
  AttachedWhereItKnows
PROPERTIES
  ImplementsIRemoteDevice
  AddedDisplayIsNew
