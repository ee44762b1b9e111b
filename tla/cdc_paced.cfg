SPECIFICATION FairSpec
CONSTANTS
  k1 = k1
  k2 = k2
  Key = {k1, k2}
  Parallelism = 2
  RestartAttempts = 3
  Paced = TRUE
  MaxChanges = 4
  Nothing = Nothing
  Untouched = Untouched
  Barrier = Barrier
INVARIANTS
  TypeOK
  AlignedCut
  CurrentMatchesSource
  StrikesOnce
PROPERTIES
  ImplementsSourceCuts
  FaultFires
CHECK_DEADLOCK FALSE
