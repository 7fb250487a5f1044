SPECIFICATION Spec
CONSTANTS
  Scenes = {s1, s2}
  Models = {a, b}
  Foreign = {x}
  Changes = {c1, c2}
  Rollbacks = {r1}
  Recoveries = {m1}
  MaxEdits = 1
  None = None
SYMMETRY Symmetry
VIEW View
CHECK_DEADLOCK FALSE
INVARIANTS LastReceiptIsTrue
PROPERTIES EditsSurvive AppliedOnce GateIsEarned
