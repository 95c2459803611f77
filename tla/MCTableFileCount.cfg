CONSTANTS
  PAGE_SIZE = 2
  MaxParts = 5
  Contents = {"empty", "a", "b"}
  Empty = "empty"
SPECIFICATION Spec
INVARIANT CountsAllocated
