SPECIFICATION Spec
CONSTANTS
  Rotations = {0, 1}
  MaxPosts = 3
  MaxStarts = 2
INVARIANTS
  DoubleBuffered
  AdvertisedWhole
  SettledRotation
  TornOnlyAfterNewer
PROPERTIES
  LastFrameReachesClient
  RestartAcknowledged
