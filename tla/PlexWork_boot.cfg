SPECIFICATION Spec
CONSTANTS
  MaxAttempts = 2
  MaxJobs = 1
  AskedKinds = {"credit"}
  Runs = {r1, r2, r3}
  Endpoints = {}
  MaxParallel = 1
  MaxCrashes = 2
  MaxFaults = 0
  NoOne = NoOne
SYMMETRY RunSymmetry
INVARIANTS InFlightIsExact CancelledInQueueNeverBuilds ResumesAreBounded
  RetryBudget
CHECK_DEADLOCK FALSE
