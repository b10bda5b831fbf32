SPECIFICATION Spec
CONSTANTS
  MaxJobs = 2
  Periods <- PromptPeriods
  W = 32
  Month = 5
  MaxNow = 8
  MaxStall = 0
  Deferred = FALSE
  HalMayTimeOut = FALSE
  Reinit = TRUE
PROPERTY ImplementsCountdown
