SPECIFICATION ProtocolSpec
CONSTANTS
  None = None
  Unknown = Unknown
  Kinds <- NoKinds
  QueueCap = 4
  FrameSize = 1
  WindowFrames = 2
  Keep = 0
  HasFile = TRUE
  Bridged = TRUE
  Incidents = {"disconnect"}
  InitialHistory = 4
  MaxHistory = 5
  MaxToken = 9
  MaxRevision = 0
  MaxGaps = 2
  BaseCap = 2
  Unlimited = 99
  Partial = {TRUE, FALSE}
  Acts = {"page", "read", "expand"}
  MaxActs = 3
CHECK_DEADLOCK FALSE
INVARIANTS RequestAnswered
