\* A node with the lowest id starts next to a settled group in which one node may crash or leave and one reply may be late.  An election ends, so the system may stop.
SPECIFICATION Spec
CONSTANTS
  Node = {1, 2, 3}
  Fresh = {1}
  InitialView <- FullView
  CanMisjudge = FALSE
  CanSkew = TRUE
  SleepTicks = 3
  MaxCrashes = 1
  MaxLeaves = 1
  MaxTimeouts = 1
INVARIANTS AtMostOneLeader
CHECK_DEADLOCK FALSE
