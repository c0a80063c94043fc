SPECIFICATION AutoSpec
CONSTANTS
  None = None
  nightly = nightly
  review = review
  Automations <- OneAutomation
  Policy <- OneSkip
  Retention = 3
  MaxRuns = 3
  MaxStops = 1
  MaxRestarts = 0
CHECK_DEADLOCK FALSE
INVARIANTS OneRunAtATime
