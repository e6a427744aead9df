SPECIFICATION Spec
CONSTANTS
  N = 3
  Chain <- SiblingChain
  AccumMax = 0
  Warmable = {}
  UsePrefetch = FALSE
  UseStore = FALSE
  Fallible = {}
INVARIANTS SeesOwnPrefix
