SPECIFICATION MCSpec
CONSTANTS
  Node = {1, 2, 3, 4}
  Introducer = 1
  Settled = {1, 2, 3}
  SuspectAfter = 2
  CleanAfter = 4
  MaxFail = 1
  Lag = 1
  PingTicks = 1
  MaxTicks = 12
  MaxStarts = 1
  MaxCrashes = 1
  MaxLeaves = 1
  MaxEvents = 2
  LastEvent = 5
INVARIANTS TypeOK OnlyTheDead ForgottenInTime Acquainted 
PROPERTY ToldOnce
\* The exploration ends with the last period.
CHECK_DEADLOCK FALSE
