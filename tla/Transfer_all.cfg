SPECIFICATION FairSpec
CONSTANTS
  None = None
  Tasks = {t1, t2}
  Names = {1, 2}
  PageSize = 1
  MaxWrites = 1
  MaxFaults = 1
INVARIANT RunsExact
PROPERTIES MoveLosesOnlyLateWrites OverwriteAsked TransferEnds
CHECK_DEADLOCK FALSE
