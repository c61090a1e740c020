SPECIFICATION Spec
CONSTANTS
  MaxAttempts = 2
  MaxJobs = 2
  AskedKinds = {"writer"}
  Runs = {r1}
  Endpoints = {e1}
  MaxParallel = 1
  MaxCrashes = 0
  MaxFaults = 1
  NoOne = NoOne
INVARIANTS TypeOK OneWriter
PROPERTIES ClaimsAreExclusive SettledIsFinal KeepsPromise
CHECK_DEADLOCK FALSE
