SPECIFICATION Spec
CONSTANTS
  Processes = {p1, p2}
  Batches = {b1, b2, b3}
  MayRaise = TRUE
  None = None
SYMMETRY Symmetry
CHECK_DEADLOCK FALSE
PROPERTIES ImplementsAtomicBatches LiveIsUntouched
