SPECIFICATION Spec
CONSTANTS
  MaxClients = 1
  MaxImages = 2
  MaxDisconnects = 0
  QueueLimit = 2
  IPC_BUFF_SIZE = 1024
  Image <- OddImages
INVARIANTS
  SizeKept
CHECK_DEADLOCK FALSE
