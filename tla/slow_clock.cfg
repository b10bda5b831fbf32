SPECIFICATION AppSpec
CONSTANTS
  Toggles = 4
  BlinkDelay = 1
  SteadyDelay = 4
  Slow = 20
  MaxSlip = 1
  WakesOtherwise = FALSE
  MaxTick = 15
  IdleTicks = 4
  ShortPeriod = 1
  LongPeriod = 2
  BeatsPerSecond = {4, 5}
  SynchroWaits = TRUE
  MaxAge = 3
INVARIANT TasksAtFullSpeed
