\* Three files with one session each: every boundary of the chunk size of 2;
\* senders may time out and crash.  Sessions end, so the system may stop.
SPECIFICATION FairSpec
CONSTANTS
  File = {0, 2, 3}
  Byte = {1, 2, 3, 4}
  Junk = 99
  Content <- MCContent
  ChunkSize = 2
  Session = {0, 2, 3}
  FileOf <- SoloFileOf
  Keep = {0, 3}
  LateSources = {}
  CanTimeOut = TRUE
  CanCrash = TRUE
INVARIANTS TypeOK StoredIntact HandedIntact SenderSurvives
PROPERTIES CopySpec FetchEnds
CHECK_DEADLOCK FALSE
