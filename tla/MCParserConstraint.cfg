SPECIFICATION FairSpec
CONSTANTS
  Inputs <- Constraints
  NotNumbers <- MCNotNumbers
  MaxValues = 8
PROPERTY ParseAnswers
