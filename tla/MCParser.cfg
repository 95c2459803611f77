SPECIFICATION Spec
CONSTANTS
  Inputs <- All
  NotNumbers <- MCNotNumbers
  MaxValues = 8
INVARIANT TypeOK
INVARIANT AstIsForest
INVARIANT AcceptedIsWhole
INVARIANT WhereIsDerived
INVARIANT GrammaticalIsAccepted
PROPERTY LoopsAdvance
