CONSTANTS
  IntLimit = 4
  FloatArith <- MCFloatArith
  Columns <- MCColumns
  Statements <- MCDocStatements
  Capacity = 48
  MaxPages = 2
  UINT16 = 65536
SPECIFICATION Spec
INVARIANTS
  NotNullHolds
