SPECIFICATION Spec
CONSTANTS
  Contracts = {rb5, rb10}
  Index = rb0
  NoContract = none
  MaxOi = 1
  Totals = {1, 2}
  StoreCap = 2
  SaveAt = 1
  Images <- SomeImages
  MaxTicks = 3
  MaxRestarts = 1
INVARIANTS
  TypeOK
  TicksAccounted
  VolumesFollowTicks
  CacheIsUnsaved
PROPERTIES
  TicksLeave
CHECK_DEADLOCK FALSE
