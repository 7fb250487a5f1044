SPECIFICATION FairCircuitSpec
CONSTANTS
  c1 = c1
  c2 = c2
  c3 = c3
  c4 = c4
  Requests = {c1, c2, c3, c4}
  Threshold <- Limits
CHECK_DEADLOCK FALSE
INVARIANTS OneProber ClosedIsBelowThreshold
PROPERTIES LateAnswersChangeNothing NobodyIsShutOut
