SPECIFICATION Spec
CONSTANTS
  blink = blink
  steady = steady
  Tasks = {blink, steady}
  MaxTick = 7
  Delays = {1, 3}
  IdleTicks = 2
INVARIANTS TypeOK StopSparesSleepers SwitchAssertion
PROPERTY SleepsExactly
