SPECIFICATION CoordSpec
CONSTANTS
  None = None
  QueueCap = 3
  FrameSize = 1
  WindowFrames = 2
  Keep = 0
  HasFile = TRUE
  Bridged = FALSE
  Kinds <- ColdKinds
  Incidents = {"register", "unsubscribe", "loadError", "supersede"}
  InitialHistory = 1
  MaxToken = 3
  MaxHistory = 2
  MaxRevision = 1
CHECK_DEADLOCK FALSE
INVARIANTS ShownSourceIsCurrent
PROPERTIES RequestsLeaveTold
VIEW Told
