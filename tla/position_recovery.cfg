SPECIFICATION FairSpec
CONSTANTS
  MaxTrades = 2
  Units = 2
  Faults <- BrokerFaults
  MaxFaults = 1
  JobsOverlap = FALSE
  PlannedExits <- SomePlannedExits
INVARIANTS
  ManagedPosition
PROPERTIES
  NakedIsHandled
  GoneIsRecorded
\* The entries of a behaviour are bounded: once they are used up and every
\* trade is closed, nothing is left to do.
CHECK_DEADLOCK FALSE
