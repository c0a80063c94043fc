SPECIFICATION Spec
CONSTANTS
  None = None
  Unknown = Unknown
  MaxGaps = 1
  Sources = {g1, g2}
  Top = 4
  FrameEnd = 2
  Caps <- TwoCaps
  Failing = {"cold"}
CHECK_DEADLOCK FALSE
INVARIANTS LedgerTypeOK GapsAwaitRepair
PROPERTIES CursorFollowsStream PageJoins
