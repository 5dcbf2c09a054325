\* Two sessions of one name of two chunks, one for a replica and one for a user's path, from a sender that may still be copying.  Sessions end, so the system may stop.
SPECIFICATION Spec
CONSTANTS
  File = {3}
  Byte = {1, 2, 3, 4}
  Junk = 99
  Content <- MCContent
  ChunkSize = 2
  Session = {"a", "b"}
  FileOf <- SharedFileOf
  Keep = {"a"}
  LateSources = {"b"}
  CanTimeOut = TRUE
  CanCrash = TRUE
PROPERTIES OrderlyIsEnough
CHECK_DEADLOCK FALSE
