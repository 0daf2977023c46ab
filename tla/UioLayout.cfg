SPECIFICATION Spec
CONSTANTS
  ShmSizes = {4096, 4224, 4352, 8192}
  Widths = {1, 12, 30, 64, 90}
  Heights = {1, 2, 5, 12}
  Paddings = {0, 3, 16}
INVARIANTS
  SlotsInMapping
  RowsPlaced
