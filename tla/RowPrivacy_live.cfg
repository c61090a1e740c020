SPECIFICATION FairSpec
CONSTANTS
  Accounts = {o, a, b, c}
  Owner = o
  People = {a}
  Restricted = {c}
  Profiled = {c}
  Newcomers = {b}
  Nobody = Nobody
  MaxFaults = 2
  MaxChanges = 1
PROPERTIES HiddenInTheEnd LeftAloneIsHonoured BareRowsEnd
CHECK_DEADLOCK FALSE
