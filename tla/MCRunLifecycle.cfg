SPECIFICATION Spec
CONSTANTS
  Runs = {r1}
  Processes = {p1, p2}
  None = None
  MaxSettles = 2
  Misjudges = TRUE
  Threads = {"worker", "main"}
  Abandons = TRUE
  BridgeFails = TRUE
CHECK_DEADLOCK FALSE
SYMMETRY Symmetry
INVARIANTS SuccessIsPersisted CancelledIsTrue FirstRequestDecides NothingOutlivesTheRun
PROPERTIES ImplementsPromise OutcomeStays ResumableTurnStays
