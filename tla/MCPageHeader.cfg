SPECIFICATION Spec
CONSTANTS
  PAGE_SIZE = 276
  RowLens = {0, 62, 95}
  Rows <- MCRows
  SlotIndexes = {0, 1, 2, 3}
  PageIds = {1}
INVARIANTS PageIdInHeader
