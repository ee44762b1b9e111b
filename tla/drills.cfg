SPECIFICATION FairSpec
CONSTANTS
  Drills <- AllDrills
  Events = 2
  Threshold = 1
  MayRaise = {"broker_parity", "schema_contract", "broker_restart", "poison_dlq", "broker_slo"}
INVARIANTS
  TypeOK
  PassIsTrue
  OnlyKnownAlarms
  FaultIsReal
  LinkageCoversOffsets
  CleansUp
PROPERTY Finishes
CHECK_DEADLOCK FALSE
