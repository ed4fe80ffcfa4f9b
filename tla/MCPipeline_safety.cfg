SPECIFICATION Spec
CONSTANTS
  MaxClients = 2
  MaxImages = 3
  MaxDisconnects = 2
  QueueLimit = 2
  IPC_BUFF_SIZE = 1024
  Image <- OneFace
INVARIANTS
  OneOwner
  MappingUndisturbed
  ArrivalExact
  Accounting
  ResultsInOrder
PROPERTIES
  LossIsFinal
  PathSpec
CHECK_DEADLOCK FALSE
