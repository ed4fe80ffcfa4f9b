SPECIFICATION Spec
CONSTANTS
  MaxClients = 1
  MaxImages = 2
  MaxDisconnects = 1
  QueueLimit = 2
  IPC_BUFF_SIZE = 1024
  Image <- OddImages
INVARIANTS
  TypeOK
  ArrivalExact
  Accounting
PROPERTIES
  PathLive
  Served
CHECK_DEADLOCK FALSE
