SPECIFICATION Spec
CONSTANTS
  t1 = t1
  t2 = t2
  Titles = {t1, t2}
  Ways = {"manual", "assistant", "automatic", "assistant_run"}
  Waiting <- NothingWaits
  MaxId = 1
  MaxClaims = 2
  MaxBatch = 2
  MaxTroubles = 1
INVARIANTS TypeOK OneStandingClaim LandedStaysOnFile SentWasAccepted
PROPERTIES RejectedIsNotSent
CHECK_DEADLOCK FALSE
