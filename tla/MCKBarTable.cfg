SPECIFICATION Spec
CONSTANTS
  Period = 4
  SubPeriod = 2
  Cap = 2
  Minute = 4
  DayLength = 8
  Shift = 4
  NaN = NaN
  Infinity = 9
  Ticks <- MCTicks
  SubBars <- MCSubBars
  StartTime <- MCStart
  Steps <- MCSteps
  MaxInputs = 5
INVARIANTS
  TypeOK
  VolumeConserved
  BarsAreAggregates
PROPERTIES
  ShortBarsEndADay
  AbortsAreInputs
CHECK_DEADLOCK FALSE
