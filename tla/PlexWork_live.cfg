SPECIFICATION FairSpec
CONSTANTS
  MaxAttempts = 1
  MaxJobs = 1
  AskedKinds = {"writer", "history"}
  Runs = {r1, r2}
  Endpoints = {e1}
  MaxParallel = 1
  MaxCrashes = 1
  MaxFaults = 0
  NoOne = NoOne
PROPERTIES EveryJobSettles RunsInFlightEnd
CHECK_DEADLOCK FALSE
