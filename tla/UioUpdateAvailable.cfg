SPECIFICATION Spec
CONSTANTS
  Rotations = {0, 1}
  MaxPosts = 3
  MaxStarts = 1
INVARIANT UpdateAvailable
