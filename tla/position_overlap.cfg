SPECIFICATION Spec
CONSTANTS
  MaxTrades = 2
  Units = 1
  Faults <- OverlapFaults
  MaxFaults = 1
  JobsOverlap = TRUE
  PlannedExits <- NoPlannedExits
INVARIANTS
  TypeOK
  NeverAdds
  ClosedMeansFlat
  ProtectedMeansStop
  StopOutIsNamed
PROPERTIES
  ClosedForever
  RefinesBook
\* The entries of a behaviour are bounded: once they are used up and every
\* trade is closed, nothing is left to do.
CHECK_DEADLOCK FALSE
