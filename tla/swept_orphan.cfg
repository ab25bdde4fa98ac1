SPECIFICATION Spec
CONSTANTS
  MaxTrades = 1
  Units = 1
  Faults <- OneCrash
  MaxFaults = 1
  JobsOverlap = FALSE
  PlannedExits <- NoPlannedExits
INVARIANTS
  ManagedPosition
\* The entries of a behaviour are bounded: once they are used up and every
\* trade is closed, nothing is left to do.
CHECK_DEADLOCK FALSE
