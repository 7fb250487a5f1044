SPECIFICATION Spec
CONSTANTS
  d1 = d1
  d2 = d2
  la = la
  lb = lb
  Replies = {r1}
  Daemons = {d1, d2}
  Labels = {la, lb}
  LabelOf <- OwnLabel
  Tasks = {t1}
  MaxAttempts = 2
  MaxCrashes = 0
  MaxSweeps = 0
  Leases <- Nat
  NoLease = NoLease
CHECK_DEADLOCK FALSE
INVARIANTS SentByItsLabel
