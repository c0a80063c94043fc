SPECIFICATION FairCoordSpec
CONSTANTS
  None = None
  QueueCap = 2
  FrameSize = 1
  WindowFrames = 2
  Keep = 1
  HasFile = TRUE
  Bridged = TRUE
  Kinds <- AllKinds
  Incidents = {"register", "supersede", "loadError", "unsubscribe", "disconnect", "restart", "overrun"}
  InitialHistory = 1
  MaxToken = 2
  MaxHistory = 2
  MaxRevision = 1
CHECK_DEADLOCK FALSE
INVARIANTS CoordTypeOK SuppressedWhileServing RequestHasServer
PROPERTIES EveryRequestEnds
VIEW WithoutOutput
