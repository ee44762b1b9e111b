SPECIFICATION FairSpec
CONSTANTS
  Drills = {"poison_dlq"}
  Events = 1
  Threshold = 1
  MayRaise = {}
INVARIANT CheckpointAfterPoison
CHECK_DEADLOCK FALSE
