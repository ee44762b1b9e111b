SPECIFICATION Spec
CONSTANTS
  k1 = k1
  k2 = k2
  Key = {k1, k2}
  Parallelism = 2
  RestartAttempts = 3
  Paced = FALSE
  MaxChanges = 3
  Nothing = Nothing
  Untouched = Untouched
  Barrier = Barrier
INVARIANT CurrentMatchesSource
CHECK_DEADLOCK FALSE
