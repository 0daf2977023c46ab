\* One layer after the other in every detail, shown by two remotes in turn.
SPECIFICATION Spec
CONSTANTS
  t1 = t1
  b1 = b1
  b2 = b2
  f1 = f1
  f2 = f2
  f3 = f3
  MaxRemote = 2
  Modes = {0, 1}
  MaxId = 1
  MaxAlive = 1
  Targets = {t1}
  Buffers <- MCBuffers
  Fences = {}
  Transforms = {0, 4}
  Frames = {"full"}
  Colors <- MCColors
  Orders = {0, 1}
  Types = {}
  Uio = {TRUE}
SYMMETRY MCSymmetry
INVARIANTS
  TypeOK
  CopyCurrent
  LayersKnown
  Announced
  RespectsMode

