SPECIFICATION Spec
CONSTANTS
  Conns = {c1, c2, c3}
  Nobody = Nobody
  MAX_CONN_NUM = 2
  Lengths = {3, 4, 6, 7}
  HEAD_LEN = 4
  body_max_length = 2
  Word = 256
  MaxFrames = 2
INVARIANTS
  TypeOK
  IdsAccounted
  FramesInOrder
PROPERTIES
  LeaversAreReleased
CHECK_DEADLOCK FALSE
