SPECIFICATION FairSpec
CONSTANTS
  Drills <- AllDrills
  MayRaise = {"task_crash", "smoke"}
INVARIANTS
  TypeOK
  PassIsTrue
  WrittenOnce
  OnlyKnownAlarms
PROPERTIES
  RewriteAlone
  Finishes
CHECK_DEADLOCK FALSE
