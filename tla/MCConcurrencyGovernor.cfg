SPECIFICATION FairSpec
CONSTANTS
  llm = llm
  write = write
  Calls = {c1, c2}
  Lanes = {llm, write}
  Processes = {p1, p2}
  Cap <- OneEach
  ReleaseFails = TRUE
CHECK_DEADLOCK FALSE
PROPERTIES ImplementsSlots EveryWaitEnds CancelledWaitEnds
