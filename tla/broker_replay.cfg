SPECIFICATION FairSpec
CONSTANTS
  k1 = k1
  k2 = k2
  p1 = p1
  e1 = e1
  e2 = e2
  Key = {k1, k2}
  Partition = {p1}
  PartitionOf <- OnePartition
  Event = {e1}
  Produced <- FourKinds
  NoRow = NoRow
  Malformed = Malformed
  Torn = Torn
  Tombstone = Tombstone
  Untouched = Untouched
  Nothing = Nothing
  MaxRecords = 2
  RestartAttempts = 1
  LossyCheckpoints = 1
  MaxRuns = 2
INVARIANTS
  RestorePointIsComplete
PROPERTIES
  NeverBack
  ImplementsCommittedCuts
  Converges
CHECK_DEADLOCK FALSE
