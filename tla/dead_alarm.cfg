SPECIFICATION Spec
CONSTANTS
  MaxJobs = 1
  Periods <- StallPeriods
  W = 32
  Month = 5
  MaxNow = 5
  MaxStall = 1
  Deferred = FALSE
  HalMayTimeOut = FALSE
  Reinit = FALSE
INVARIANT ArmedWhileRunning
