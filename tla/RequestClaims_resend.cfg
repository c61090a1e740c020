SPECIFICATION Spec
CONSTANTS
  t1 = t1
  t2 = t2
  Titles = {t1, t2}
  Ways = {"assistant"}
  Waiting <- BothWait
  MaxId = 2
  MaxClaims = 2
  MaxBatch = 2
  MaxTroubles = 1
INVARIANTS NeverSentAgain
CHECK_DEADLOCK FALSE
