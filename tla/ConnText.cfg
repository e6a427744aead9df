SPECIFICATION Spec
CONSTANTS
  None = None
  Workers = {w1, w2}
  Ends <- BusEnds
  Coarse <- BusCoarse
  Designs <- BusDesigns
  Requests <- BusRequests
INVARIANTS UngatedOfKin NoFalseConnect PortsRecovered UniqueCounts
PROPERTY VerdictsStay
SYMMETRY AnyWorker
