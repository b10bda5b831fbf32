SPECIFICATION Spec
CONSTANTS
  MaxJobs = 2
  Periods <- StallPeriods
  W = 8
  Month = 4
  MaxNow = 5
  MaxStall = 2
  Deferred = FALSE
  HalMayTimeOut = TRUE
  Reinit = TRUE
INVARIANT TypeOK
INVARIANT JobsInRange
INVARIANT NeverEarly
INVARIANT NoLostJob
INVARIANT NoSpuriousRun
INVARIANT StoppedIsSilent
INVARIANT TableExclusive
PROPERTY OwedJobRuns
