SPECIFICATION FairSpec
CHECK_DEADLOCK FALSE
CONSTANTS
  Kinds = {"batch", "stops", "absorbs"}
  MaxItems = 4
  WorkerCount = 1
  MaxWorkers = 3
  MinWorkers = 1
  InitialWorkers = 2
  Gains = {1, 2}
  AdaptiveQueue = 1
INVARIANTS TypeOK Tally PermitsKept
PROPERTIES PromiseSpec NothingStartsLate Returns
