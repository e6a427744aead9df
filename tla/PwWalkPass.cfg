SPECIFICATION FairSpec
CONSTANTS
  None = None
  Paths <- TwinPaths
  Of <- TwinOf
  Designs <- GatedDesigns
  Requests <- AllRequests
  Parallel = TRUE
  PassCap = 32
INVARIANTS RowsStand NoDeferDropped NoStaleMiss PassesBounded EndpointsWalked RecoveryRestores
PROPERTY Finishes
