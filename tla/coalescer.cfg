SPECIFICATION FairSpec
CONSTANTS
  k1 = k1
  k2 = k2
  Key = {k1, k2}
  QuietPeriod = 2
  MaxRecords = 3
  MaxCrashes = 2
INVARIANTS
  TypeOK
  NothingForgotten
  RestorePointIsWhole
PROPERTIES
  NeverBack
  Drains
CHECK_DEADLOCK FALSE
