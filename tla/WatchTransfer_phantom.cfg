SPECIFICATION Spec
CONSTANTS
  s1 = s1
  Tolerance = 1
  Keys = {1, 2, 3}
  Shows = {s1}
  NoShow = NoShow
  ShowOf <- ShowsOfLeaves
  Viewed <- ViewedOrder
  Sources <- SourceStates
  Targets <- TargetStates
  Legacy <- NoSnapshots
  MaxAttempts = 2
  MaxJobs = 3
  Troubles = {"crash"}
  MaxTroubles = 1
PROPERTIES NoPhantomShows
CHECK_DEADLOCK FALSE
