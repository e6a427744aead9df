SPECIFICATION Spec
CONSTANTS
  None = None
  Paths <- TwinPaths
  Of <- TwinOf
  Designs <- GatedDesigns
  Requests <- TwinRequest
  Parallel = TRUE
  PassCap = 32
INVARIANTS RecoveredIsUnblocked
