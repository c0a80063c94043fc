SPECIFICATION SpawnSpec
CONSTANTS
  rA = rA
  rB = rB
  tA = tA
  b1 = b1
  b2 = b2
  Fading = {"record", "socket"}
  Browsers <- TwoBrowsers
  BrowserOf <- FromTwoBrowsers
  None = None
  Spawns <- TwoSpawns
  Terminals <- OneTerminal
  Early = TRUE
  DirOf <- OneDir
  MaxLosses = 2
  MaxRestarts = 2
CHECK_DEADLOCK FALSE
INVARIANTS SpawnTypeOK StrongLinkIsOwn RegisteredIsNotReported
PROPERTIES LinksOwnFirst
