SPECIFICATION Spec
CONSTANTS
  N = 2
  Chain <- FlatChain
  AccumMax = 0
  Warmable = {2}
  UsePrefetch = FALSE
  UseStore = TRUE
  Fallible = {}
INVARIANTS KeysMatch
