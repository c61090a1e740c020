SPECIFICATION Spec
CONSTANTS
  own = own
  p = p
  s = s
  kids = kids
  tag = tag
  g = g
  Own = own
  People = {p}
  Shared = {s}
  Tag = tag
  Foreign = {kids}
  Ratings = {g}
  Clauses <- AnyClauses
  MaxClauses = 3
  Idle = Idle
  Unknown = Unknown
INVARIANTS TypeOK HandsBackTheOwnersFilter
PROPERTIES SyncHides SyncKeepsTheOwnersMeaning SyncShowsTheOwnRow SyncSettles LeftAloneKeepsShared
