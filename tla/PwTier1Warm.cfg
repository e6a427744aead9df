SPECIFICATION FairSpec
CONSTANTS
  N = 2
  Chain <- FlatChain
  AccumMax = 1
  Warmable = {1}
  UsePrefetch = TRUE
  UseStore = FALSE
  Fallible = {2}
INVARIANTS KeyNeverAhead OneScanAtATime
PROPERTIES ScansAreFinal WalkReturns
