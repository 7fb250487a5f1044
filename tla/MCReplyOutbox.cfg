SPECIFICATION Spec
CONSTANTS
  Ids = {d1, d2}
  Keys = {k1}
  Payloads = {p1, p2}
  Leases = {l1, l2}
  Callers = {c1, c2}
  NoLease = NoLease
  None = None
SYMMETRY Symmetry
INVARIANTS LeaseContract
PROPERTIES LostLeaseStaysLost ImplementsLedger
