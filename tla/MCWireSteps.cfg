SPECIFICATION Spec
CONSTANTS
  Sizes <- EdgeSizes
INVARIANTS
  ClosedForm
  MemcpyCount
CHECK_DEADLOCK FALSE
