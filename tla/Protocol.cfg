SPECIFICATION ProtocolSpec
CONSTANTS
  None = None
  Unknown = Unknown
  Kinds <- NoKinds
  QueueCap = 4
  FrameSize = 2
  WindowFrames = 2
  Keep = 0
  HasFile = TRUE
  Bridged = TRUE
  Incidents = {"disconnect", "register"}
  InitialHistory = 3
  MaxHistory = 4
  MaxToken = 9
  MaxRevision = 1
  MaxGaps = 2
  BaseCap = 2
  Unlimited = 99
  Partial = {FALSE}
  Acts = {"read", "expand", "refresh", "deadline"}
  MaxActs = 3
CHECK_DEADLOCK FALSE
INVARIANTS TranscriptDense SettledShowsNewest
CONSTRAINT RegistersAlone
