SPECIFICATION Spec
CONSTANTS
  Jobs = {tick, monitor}
  Audit = audit
  Cli = cli
  MaxBoots = 2
  MaxWrites = 5
SYMMETRY JobSymmetry
INVARIANTS
  TypeOK
  ForksNeedRaces
  NoFalseAlarm
PROPERTIES
  PastIsSettled
\* The bound on writes ends a behaviour.
CHECK_DEADLOCK FALSE
