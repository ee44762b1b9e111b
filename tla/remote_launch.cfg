SPECIFICATION FairSpec
CONSTANTS
  l1 = l1
  l2 = l2
  a = a
  b = b
  Launcher = {l1, l2}
  Request <- Requests
  MaxCommands = 3
  MaxKills = 1
  DropAnytime = FALSE
INVARIANTS
  TypeOK
  OneRun
  TrueExit
  StatusIsOutcome
PROPERTY Ends
CHECK_DEADLOCK FALSE
