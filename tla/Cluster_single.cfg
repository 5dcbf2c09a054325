\* Clients use every command on one topology of three instances, and two of
\* three supervisors crash.  Requests are bounded, so the system may stop.
SPECIFICATION AloneSpec
CONSTANTS
  Supervisor = {1, 2, 3}
  Topology = {"word"}
  Plan <- MCPlanTwo
  WorkerId <- MCWorkerId
  Child <- MCChild
  Request = {"start", "stop", "kill"}
  MaxRequests = 5
  MaxFailures = 2
  EraseFirst = TRUE
INVARIANTS TypeOK RunningIsWhole NothingLeftBehind NobodyStuck
PROPERTIES KilledStaysGone 
CHECK_DEADLOCK FALSE
