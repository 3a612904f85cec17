SPECIFICATION Spec
CONSTANTS
  Callers = {c1}
  Instruments = {rb, zc}
  MaxConnects = 2
INVARIANT
  StopReturnsOk
CHECK_DEADLOCK FALSE
