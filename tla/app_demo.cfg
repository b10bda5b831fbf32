SPECIFICATION AppSpec
CONSTANTS
  Toggles = 4
  BlinkDelay = 1
  SteadyDelay = 4
  Slow = 20
  MaxSlip = 1
  WakesOtherwise = FALSE
  MaxTick = 15
  IdleTicks = 4
  ShortPeriod = 5
  LongPeriod = 10
  BeatsPerSecond = {3, 4, 5}
  SynchroWaits = TRUE
  MaxAge = 11
INVARIANTS AppTypeOK StopsOnlyWhenIdle TasksAtFullSpeed LedsShowWork
PROPERTIES KeepsCountdowns StopsAgain WorkGoesOn
