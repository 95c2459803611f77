SPECIFICATION Spec
CONSTANTS
  Inputs <- ValueLists
  NotNumbers <- MCNotNumbers
  MaxValues = 8
INVARIANT ValuesAreExpressions
