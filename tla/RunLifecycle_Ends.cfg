SPECIFICATION FairSpec
CONSTANTS
  Runs = {r1}
  Processes = {p1, p2}
  None = None
  MaxSettles = 1
  Misjudges = TRUE
  Threads = {"worker"}
  Abandons = FALSE
  BridgeFails = FALSE
CHECK_DEADLOCK FALSE
INVARIANTS EndedIsTerminal
PROPERTIES CancelEndsTheRun
