SPECIFICATION MCSpec
CONSTANTS
  Id = {"input", "split", "count", "print"}
  Level = {1, 3}
  EdgeCall <- MCEdges
  MaxEdges = 3
  DefaultLevel = 2
  Runname <- MCRunname
  Files <- MCFiles
  Hash <- MCHash
  MaxReads = 2
  MaxKills = 1
INVARIANTS TypeOK SpecAsBuilt  Together InOrder
PROPERTY Finishes
CHECK_DEADLOCK FALSE
