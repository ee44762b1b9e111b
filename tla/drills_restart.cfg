SPECIFICATION FairSpec
CONSTANTS
  Drills = {"broker_restart"}
  Events = 2
  Threshold = 1
  MayRaise = {}
PROPERTY ProducerActiveAtFault
CHECK_DEADLOCK FALSE
