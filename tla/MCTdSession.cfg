SPECIFICATION Spec
CONSTANTS
  Callers = {c1}
  MaxItems = 2
  MaxRequests = 6
  MaxConnects = 2
INVARIANTS
  TypeOK
  OkIsComplete
  BusyHasCause
  CrashNeedsRelogin
PROPERTIES
  DeadUntilStop
  CallReturns
CHECK_DEADLOCK FALSE
