SPECIFICATION Spec
CONSTANTS
  Toggles = 2
  BlinkDelay = 2
  SteadyDelay = 3
  Slow = 2
  MaxSlip = 2
  WakesOtherwise = TRUE
  MaxTick = 7
  IdleTicks = 2
INVARIANTS TypeOK FlagMatchesServices TasksFindServices
PROPERTY NotifiedTaskRuns
