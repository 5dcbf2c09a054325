\* One node of a settled group leaves.
SPECIFICATION FairSpec
CONSTANTS
  Node = {1, 2, 3}
  Fresh = {}
  InitialView <- FullView
  CanMisjudge = FALSE
  CanSkew = FALSE
  SleepTicks = 3
  MaxCrashes = 0
  MaxLeaves = 1
  MaxTimeouts = 0
PROPERTIES LedInTheEnd
CHECK_DEADLOCK FALSE
