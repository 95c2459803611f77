SPECIFICATION Spec
CONSTANTS
  Inputs <- Selects
  NotNumbers <- MCNotNumbers
  MaxValues = 8
INVARIANT SelectIsWhole
