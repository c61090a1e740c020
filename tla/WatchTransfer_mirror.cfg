SPECIFICATION Spec
CONSTANTS
  s1 = s1
  Tolerance = 1
  Keys = {1, 2, 3}
  Shows = {s1}
  NoShow = NoShow
  ShowOf <- ShowsOfLeaves
  Viewed <- ViewedOrder
  Sources <- SourceStates
  Targets <- TargetStates
  Legacy <- OldSnapshots
  MaxAttempts = 2
  MaxJobs = 2
  Troubles = {"fault", "crash", "change"}
  MaxTroubles = 2
INVARIANTS TypeOK SnapshotFirst CountsStayInside FilmStampsAreExplained
PROPERTIES LandedUndoRestores VerifyIsHonest ClearingSparesTheWanted
CHECK_DEADLOCK FALSE
