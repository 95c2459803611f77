CONSTANTS
  PAGE_SIZE = 2
  MaxParts = 4
  Contents = {"empty", "a"}
  Empty = "empty"
SPECIFICATION Spec
INVARIANTS
  TypeOK
  PagesStand
  ReadsAreWrites
PROPERTY FailuresEndAtNumPages
