\* One topology of two tasks with one instance each runs on three supervisors,
\* two of which crash.  Requests are bounded, so the system may stop.
SPECIFICATION Spec
CONSTANTS
  Supervisor = {1, 2, 3}
  Topology = {"word"}
  Plan <- MCPlanOne
  WorkerId <- MCWorkerId
  Child <- MCChild
  Request = {}
  MaxRequests = 2
  MaxFailures = 2
  EraseFirst = TRUE
INVARIANT NoMoreThanAsked
CHECK_DEADLOCK FALSE
