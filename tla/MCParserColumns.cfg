SPECIFICATION Spec
CONSTANTS
  Inputs <- ColumnLists
  NotNumbers <- MCNotNumbers
  MaxValues = 8
INVARIANT ColumnsHaveValues
