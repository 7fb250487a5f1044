SPECIFICATION Spec
CONSTANTS
  Turns = {t1, t2}
  MaxClears = 1
  MaxResumes = 1
  MaxRetry = 2
SYMMETRY Symmetry
VIEW View
CHECK_DEADLOCK FALSE
INVARIANTS ClearedStaysCleared PersistedStays MixedIsLocked ClosedIsSwept
PROPERTIES ClosedStays
