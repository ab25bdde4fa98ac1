SPECIFICATION Spec
CONSTANTS
  Changes = {c1, c2, c3}
  MaxAttempts = 1
  MaxEvolves = 3
  MaxFaults = 1
SYMMETRY ChangesAlike
INVARIANTS
  TypeOK
  OneChampion
  CrownedByVerdict
  AttemptsAreBounded
  Settled
PROPERTIES
  NothingReturns
  ChampionWasBeaten
