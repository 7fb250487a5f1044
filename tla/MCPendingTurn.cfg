SPECIFICATION FairSpec
CONSTANTS
  Askers = {a1}
  Resumers = {r1, r2}
  Texts = {t1}
  Timed = {r1}
  MaxAttempts = 2
  None = None
CHECK_DEADLOCK FALSE
INVARIANTS ResumesAreBounded AnsweredOnce
PROPERTIES LeaseIsFenced StuckLeaseIsFreed OverIsForgotten
