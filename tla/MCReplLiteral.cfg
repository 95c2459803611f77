SPECIFICATION Spec
CONSTANTS
  Sessions <- WithSemicolon
  Letters <- MCLetters
  toUpper <- MCtoUpper
  keywords <- MCkeywords
  INT_MAX = 50
  INT64_MAX = 500
  FLT_MAX = 990
  FLT_ZEROS = 1
  NotNumbers <- MCNotNumbers
  MaxValues = 4
INVARIANT LiteralsAreRead
