SPECIFICATION Spec
CONSTANTS
  Callers = {c1}
  Instruments = {rb, zc}
  MaxConnects = 2
INVARIANT
  ReloginSurvives
CHECK_DEADLOCK FALSE
