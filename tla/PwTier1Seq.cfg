SPECIFICATION Spec
CONSTANTS
  N = 3
  Chain <- FlatChain
  AccumMax = 0
  Warmable = {}
  UsePrefetch = FALSE
  UseStore = TRUE
  Fallible = {2}
INVARIANTS KeysMatch SeesOwnPrefix
PROPERTIES CachesAreTransparent
