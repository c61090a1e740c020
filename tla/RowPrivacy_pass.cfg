SPECIFICATION Spec
CONSTANTS
  Accounts = {o, a, b}
  Owner = o
  People = {a, b}
  Restricted = {b}
  Profiled = {}
  Newcomers = {a, b}
  Nobody = Nobody
  MaxFaults = 2
  MaxChanges = 1
INVARIANTS TypeOK SnapshotsPredateWrites
PROPERTIES NeverExposes LiveRowKeepsItsExcludes
CHECK_DEADLOCK FALSE
