SPECIFICATION CoordSpec
CONSTANTS
  None = None
  QueueCap = 3
  FrameSize = 2
  WindowFrames = 2
  Keep = 0
  HasFile = TRUE
  Bridged = TRUE
  Kinds <- TailKinds
  Incidents = {}
  InitialHistory = 2
  MaxToken = 3
  MaxHistory = 6
  MaxRevision = 0
CHECK_DEADLOCK FALSE
INVARIANTS AnswersAreDense EveryRequestTold LiveDeliveredOnce LiveContinues BacklogWithinCap
