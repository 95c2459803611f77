CONSTANTS
  IntLimit = 4
  FloatArith <- MCFloatArith
  Columns <- MCColumns
  Statements <- MCFewStatements
  Capacity = 48
  MaxPages = 2
  UINT16 = 65536
SPECIFICATION FairSpec
PROPERTIES
  StatementEnds
  ImplementsTable
