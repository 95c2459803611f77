SPECIFICATION Spec
CONSTANTS
  Inputs <- LowerCase
  NotNumbers <- MCNotNumbers
  MaxValues = 8
INVARIANT CreateInAnyCase
