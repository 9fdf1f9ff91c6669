SPECIFICATION FairSpec
CONSTANTS
  None = None
  r1 = r1
  Users = {u1}
  Roles = {r1}
  Readers = {i1}
  Admins = {a1, a2}
  Paths <- MCPaths
  Listings <- MCListings
  RulePool <- MCRules
  Ttl = 2
  MaxOps = 2
  MaxAge = 6
INVARIANTS StaleOnlyByRace AgesBounded
PROPERTY StaleEnds
