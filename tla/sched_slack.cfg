SPECIFICATION Spec
CONSTANTS
  MaxJobs = 2
  Periods <- PromptPeriods
  W = 32
  Month = 4
  MaxNow = 8
  MaxStall = 1
  Deferred = FALSE
  HalMayTimeOut = FALSE
  Reinit = FALSE
INVARIANT ArmedWithSlack
