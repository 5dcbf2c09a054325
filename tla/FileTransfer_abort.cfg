\* Two sessions of one name, no faults.
SPECIFICATION Spec
CONSTANTS
  File = {3}
  Byte = {1, 2, 3, 4}
  Junk = 99
  Content <- MCContent
  ChunkSize = 2
  Session = {"a", "b"}
  FileOf <- SharedFileOf
  Keep = {"a", "b"}
  LateSources = {}
  CanTimeOut = FALSE
  CanCrash = FALSE
INVARIANTS SenderSurvives
CHECK_DEADLOCK FALSE
