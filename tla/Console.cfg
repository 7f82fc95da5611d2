SPECIFICATION FairSpec
CONSTANTS
  MaxWrites = 2
  MaxCalls = 2
  MaxLosses = 1
  Hasty = FALSE
INVARIANTS TypeOK ReadYourWrites DialogWaitsForItsCall
PROPERTIES LiveCatchesUp
