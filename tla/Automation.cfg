SPECIFICATION FairAutoSpec
CONSTANTS
  None = None
  nightly = nightly
  review = review
  Automations <- TwoAutomations
  Policy <- QueueAndParallel
  Retention = 1
  MaxRuns = 3
  MaxStops = 1
  MaxRestarts = 1
CHECK_DEADLOCK FALSE
INVARIANTS SlotHasRun
PROPERTIES QueuedFiresStart RecordsEnd
