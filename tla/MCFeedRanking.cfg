CONSTANTS
  Requests <- MCRequests
  FinalSize = 4
  TopWindow = 3
  RoleTarget = 2
  MaxRun = 2
  PoolSize = 5
SPECIFICATION Spec
INVARIANTS Guaranteed SpacedOut
PROPERTIES Answered
CHECK_DEADLOCK FALSE
