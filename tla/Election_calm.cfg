\* A node with the lowest and one with the highest id start next to a settled one, which learns of the last later; one node may crash once all is quiet.  An election ends, so the system may stop.
SPECIFICATION CalmSpec
CONSTANTS
  Node = {1, 2, 3}
  Fresh = {1, 3}
  InitialView <- LateView
  CanMisjudge = FALSE
  CanSkew = FALSE
  SleepTicks = 3
  MaxCrashes = 1
  MaxLeaves = 0
  MaxTimeouts = 0
INVARIANTS TypeOK StartedMeansRunning AnnouncedIsLeader
PROPERTIES Agreement 
CHECK_DEADLOCK FALSE
