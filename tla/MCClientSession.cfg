SPECIFICATION Spec
CONSTANTS
  BODY_LEN = 12
  MaxFiles = 3
  MaxAlives = 2
  MaxAlloc = 64
  Fill = 205
  File <- Files
INVARIANTS
  TypeOK
  FileExact
  WritesInside
PROPERTIES
  TransferSpec
  FilesArrive
CHECK_DEADLOCK FALSE
