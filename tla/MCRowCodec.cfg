SPECIFICATION Spec
CONSTANTS
  Rows <- MCRows
  sizeOf <- MCsizeOf
  Behind <- MCBehind
  UINT16 = 16
  MaxColumns = 3
  Lengths = {0, 1, 4, 16, 17}
INVARIANTS
  TypeOK
  StaysInside
  RoundTrip
