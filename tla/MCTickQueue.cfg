SPECIFICATION Spec
CONSTANTS
  Consumers = {c1, c2}
  Nobody = Nobody
  MaxTicks = 3
  MaxSessions = 2
INVARIANTS
  TypeOK
  FifoExactlyOnce
  WakeupOwed
PROPERTIES
  FeedIsFifo
  SessionClean
  EarlyWaitersQuit
CHECK_DEADLOCK FALSE
