SPECIFICATION Spec
CONSTANTS
  Callers = {c1}
  Instruments = {rb, zc}
  MaxConnects = 2
INVARIANTS
  TypeOK
  PoolMatchesFront
  AbortHasCause
PROPERTIES
  OkMeansSubscribed
  CallReturns
CHECK_DEADLOCK FALSE
