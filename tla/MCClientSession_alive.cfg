SPECIFICATION Spec
CONSTANTS
  BODY_LEN = 12
  MaxFiles = 2
  MaxAlives = 2
  MaxAlloc = 64
  Fill = 205
  File <- Files
INVARIANTS
  AnsweredKept
CHECK_DEADLOCK FALSE
