SPECIFICATION FairSpec
CONSTANTS
  Texts <- MCTexts
  Letters <- MCLetters
  toUpper <- MCtoUpper
  keywords <- MCkeywords
  INT_MAX = 50
  INT64_MAX = 500
  FLT_MAX = 990
  FLT_ZEROS = 1
  MaxLength = 4
INVARIANT TypeOK
INVARIANT NothingIsLost
INVARIANT TokensAreLexemes
PROPERTY StepsAdvance
PROPERTY TokenizeEnds
