SPECIFICATION Spec
CONSTANTS
  MaxJobs = 1
  Periods <- StallPeriods
  W = 32
  Month = 5
  MaxNow = 7
  MaxStall = 0
  Deferred = TRUE
  HalMayTimeOut = FALSE
  Reinit = FALSE
INVARIANT NoLostJob
