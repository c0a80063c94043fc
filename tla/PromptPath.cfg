SPECIFICATION FairPathSpec
CONSTANTS
  None = None
  ask = ask
  t1 = t1
  Prompts <- AskOnly
  ToolPrompts <- AskOnly
  Tabs <- OneTab
  HasUI = TRUE
  BufferCap = 2
  MaxCopies = 2
  MaxFaults = 3
  Faults = {"link", "restart", "tab", "reload", "drop", "cut"}
CHECK_DEADLOCK FALSE
INVARIANTS DialogOnlyWhileWaiting WaitingPromptShown NoStaleToolCard
PROPERTIES FirstAnswerStands AnswerTakesEffect
