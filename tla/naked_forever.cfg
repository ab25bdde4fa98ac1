SPECIFICATION FairSpec
CONSTANTS
  MaxTrades = 1
  Units = 1
  Faults <- UnfilledExit
  MaxFaults = 2
  JobsOverlap = FALSE
  PlannedExits <- NoPlannedExits
PROPERTIES
  NakedIsHandled
\* The entries of a behaviour are bounded: once they are used up and every
\* trade is closed, nothing is left to do.
CHECK_DEADLOCK FALSE
