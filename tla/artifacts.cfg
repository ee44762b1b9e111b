SPECIFICATION FairSpec
CONSTANTS
  restart = restart
  eo = eo
  Fenced = {restart}
  Rewritten = {eo}
  Judged = {restart}
  Sorted <- ByName
  NoFile = NoFile
  Runs <- TwoThenOne
  MaxFaults = 2
INVARIANTS
  PublishedIsTrue
PROPERTIES
  Delivers
CHECK_DEADLOCK FALSE
