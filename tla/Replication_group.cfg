SPECIFICATION MCSpec
CONSTANTS
  Node = {1, 2, 3, 4}
  File = {11}
  MaxReplicate = 2
  User = {1, 3}
  MaxRequests = 2
  MaxFaults = 1
INVARIANTS TypeOK  MapTrue Kept Deleted RoundsExplained Ends DiesOfTheDead
PROPERTY Settles
CHECK_DEADLOCK FALSE
