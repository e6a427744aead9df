SPECIFICATION FairSpec
CONSTANTS
  fa = fa fb = fb fc = fc fd = fd fe = fe root = root left = left right = right p = p q = q None = None
  Files <- MCFiles Listings <- MCListings Mods <- MCMods Child <- MCChild
  Designs <- MCDesigns Top = p First = fa
  Jobs = 2 ParallelMin = 2 QueueBatch = 3 FileCap = 3 GlobalMax = 1 ShellMax = 2
  UseGlobal = FALSE Fallible = {fb} MaxAsks = 3
INVARIANTS NothingLost MissExplained GateMissesOnly ConfidentStaysScoped FoundIsThere
PROPERTIES Answers
