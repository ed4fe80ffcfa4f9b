SPECIFICATION Spec
CONSTANTS
  Build <- AllBuilds
  QueueLimit = 2
  MaxFaults = 2
  MaxMessages = 3
INVARIANTS
  TypeOK
  RegistrationKept
  ServesReady
  ConsoleAfterInit
PROPERTIES
  MapFailureEndsServer
  Starts
CHECK_DEADLOCK FALSE
