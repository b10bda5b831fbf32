SPECIFICATION TableSpec
CONSTANTS
  MaxJobs = 3
  Periods = {4}
  W = 32
  Month = 5
  MaxNow = 4
  MaxStall = 0
  Deferred = FALSE
  HalMayTimeOut = FALSE
  Reinit = FALSE
  MaxRemaining = 4
CHECK_DEADLOCK FALSE
INVARIANT LoopFindsNextJob
PROPERTY LoopAgesTable
