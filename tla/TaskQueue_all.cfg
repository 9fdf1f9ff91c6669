CONSTANTS
  MaxTasks = 3
  Settings = {1, 2, 3}
  MaxSettings = 2
  MaxBoots = 2
  MaxWorkers = 7
SPECIFICATION FairSpec
INVARIANTS TypeOK OnceInOrder PromisedServed OrderlyStop
PROPERTIES ImplementsExecutor Progress
CHECK_DEADLOCK FALSE
