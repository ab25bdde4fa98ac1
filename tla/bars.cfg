SPECIFICATION Spec
CONSTANTS
  Horizon = 10
  limit = 3
  MaxLag = 2
  MaxStops = 2
  MaxDownloads = 1
  M1Age = 5
INVARIANTS
  TypeOK
  OnlyClosedBars
  OnceOnly
  NoChasing
  HistoryIsRepaired
\* Time ends at the horizon.
CHECK_DEADLOCK FALSE
