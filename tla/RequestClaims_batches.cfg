SPECIFICATION Spec
CONSTANTS
  t1 = t1
  t2 = t2
  Titles = {t1, t2}
  Ways = {"manual", "assistant"}
  Waiting <- BothWait
  MaxId = 2
  MaxClaims = 2
  MaxBatch = 2
  MaxTroubles = 2
INVARIANTS UnsettledHasAnOwner
PROPERTIES NoSilentRepeat CallsAreSettled
CHECK_DEADLOCK FALSE
