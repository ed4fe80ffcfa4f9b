SPECIFICATION Spec
CONSTANTS
  MaxClients = 3
  async_run_num = 2
  QueueLimit = 1
  Pieces = 2
  MaxResults = 2
  Load <- Loads
INVARIANTS
  TypeOK
  OneAccept
  ConnectedMapped
  WireOrdered
  DeletedOnce
PROPERTIES
  ReportsNewest
  StreamSpec
  FilesPosted
  DialsAccepted
CHECK_DEADLOCK FALSE
