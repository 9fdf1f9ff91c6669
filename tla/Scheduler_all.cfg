CONSTANTS
  None = None
  Ids = {1, 2}
  Crons <- Twice
  Admins = {a1, a2}
  MaxTime = 2
  MaxWrites = 2
  MaxFailures = 1
SPECIFICATION FairSpec
INVARIANT DueTimesOnce
PROPERTIES NeverStale KeepsUp
CHECK_DEADLOCK FALSE
