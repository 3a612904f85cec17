SPECIFICATION Spec
CONSTANTS
  Workers = {w1, w2}
  Producers = {p1, p2, p3, p4}
  MaxSize = 2
  MaxTasks = 1
INVARIANTS
  TypeOK
  NoLostWakeup
PROPERTIES
  KeepsPromise
  QueuedTasksRun
  PutsReturn
  StopReturns
CHECK_DEADLOCK FALSE
