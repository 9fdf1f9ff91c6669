CONSTANTS
  MaxTasks = 1
  Settings = {1, 3}
  MaxSettings = 3
  MaxBoots = 1
  MaxWorkers = 9
SPECIFICATION Spec
INVARIANT DesiredWorkers
CHECK_DEADLOCK FALSE
