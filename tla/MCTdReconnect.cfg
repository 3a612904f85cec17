SPECIFICATION Spec
CONSTANTS
  Callers = {c1}
  MaxItems = 2
  MaxRequests = 6
  MaxConnects = 2
INVARIANT
  ReconnectNeedsNothing
CHECK_DEADLOCK FALSE
