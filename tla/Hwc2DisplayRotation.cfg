\* Two layers side by side: rotation and composition types.
SPECIFICATION Spec
CONSTANTS
  t1 = t1
  b1 = b1
  b2 = b2
  f1 = f1
  f2 = f2
  f3 = f3
  MaxRemote = 2
  Modes = {0}
  MaxId = 1
  MaxAlive = 2
  Targets = {t1}
  Buffers = {b1}
  Fences <- MCFences
  Transforms = {0, 4}
  Frames = {}
  Colors = {}
  Orders = {0}
  Types = {"SolidColor"}
  Uio = {FALSE}
SYMMETRY MCFenceSymmetry
INVARIANTS
  FencesOwned
  AcceptedIsComposed
  RotationKnown
PROPERTIES
  RotationFollows
