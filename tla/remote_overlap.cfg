SPECIFICATION Spec
CONSTANTS
  l1 = l1
  l2 = l2
  a = a
  b = b
  Launcher = {l1, l2}
  Request <- Requests
  MaxCommands = 3
  MaxKills = 1
  DropAnytime = TRUE
INVARIANTS
  OneRun
CHECK_DEADLOCK FALSE
