SPECIFICATION Spec
CONSTANTS
  None = None
  Threads = {walk, warm}
  Digests = {old, new}
  K = 3
  Inodes = {f1, f2, f3}
SYMMETRY Symmetry
INVARIANTS NeverStale SidecarWhole NothingRaises QuietWhole
