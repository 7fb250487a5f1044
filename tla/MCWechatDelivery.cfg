SPECIFICATION FairSpec
CONSTANTS
  d1 = d1
  d2 = d2
  la = la
  lb = lb
  Replies = {r1, r2}
  Daemons = {d1}
  Labels = {la}
  LabelOf <- OneDaemon
  Tasks = {t1, t2}
  MaxAttempts = 2
  MaxCrashes = 1
  MaxSweeps = 1
  Leases <- Nat
  NoLease = NoLease
CHECK_DEADLOCK FALSE
INVARIANTS DeliveredWasSent SendsAreBounded OneSendWhenUndisturbed NoFalseTerminal
PROPERTIES WaitingReplySettles
