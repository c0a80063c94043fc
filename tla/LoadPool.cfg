SPECIFICATION FairLoadSpec
CONSTANTS
  sA = sA
  sB = sB
  Sessions <- TwoSessions
  Size = 2
  MaxJobs = 3
  MaxFailures = 2
CHECK_DEADLOCK FALSE
INVARIANTS WaitingLoadIsWatched QueueIsServed
PROPERTIES LoadsEnd
