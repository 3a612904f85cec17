SPECIFICATION Spec
CONSTANTS
  Messages = {m1, m2, m3}
  Folders = {f1, f2}
  Texts = {t1, t2}
INVARIANTS
  Mirror
PROPERTIES
  OneRelation
CHECK_DEADLOCK FALSE
