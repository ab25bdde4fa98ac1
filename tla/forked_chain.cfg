SPECIFICATION Spec
CONSTANTS
  Jobs = {tick, monitor}
  Audit = audit
  Cli = cli
  MaxBoots = 2
  MaxWrites = 4
INVARIANTS
  Chained
CHECK_DEADLOCK FALSE
