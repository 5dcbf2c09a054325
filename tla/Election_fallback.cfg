\* A node joins a settled group in which one node crashes.
SPECIFICATION Spec
CONSTANTS
  Node = {1, 2, 3}
  Fresh = {3}
  InitialView <- FullView
  CanMisjudge = FALSE
  CanSkew = FALSE
  SleepTicks = 3
  MaxCrashes = 1
  MaxLeaves = 0
  MaxTimeouts = 0
INVARIANTS ClaimantLeads
CHECK_DEADLOCK FALSE
