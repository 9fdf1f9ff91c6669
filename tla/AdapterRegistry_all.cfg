SPECIFICATION FairSpec
CONSTANTS
  None = None
  Ids = {1, 2}
  Requests = {q1, q2}
  Admins = {a1}
  MaxWrites = 1
INVARIANTS TypeOK CachesCurrent
PROPERTIES NoSpurious404 OldUsageEnds
