SPECIFICATION Spec
CONSTANTS
  HoursPerDay = 2
  MinutesPerHour = 2
  SecondsPerMinute = 2
  LastYear = 99
  MaxStall = 1
INVARIANTS TypeOK ConvertInverts AlarmsAreApart ReadsAreMoments
PROPERTY EpochAdvances
