SPECIFICATION Spec
CONSTANTS
  Inputs <- Columns
  NotNumbers <- MCNotNumbers
  MaxValues = 8
INVARIANT LengthIsRead
