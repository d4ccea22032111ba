SPECIFICATION FairSpec
CONSTANTS
  Job = {j1, j2, j3}
  NoJob = NoJob
  MaxWorkers = 2
  MaxQueue = 1
  UUIDMayFail = TRUE
INVARIANTS JobInOnePlace PoolNeverBlocks
PROPERTIES AcceptedJobRuns ShutdownEnds ImplementsLifecycle
CHECK_DEADLOCK FALSE
