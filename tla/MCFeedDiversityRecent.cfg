CONSTANTS
  Requests <- MCRequests
  FinalSize = 4
  TopWindow = 3
  RoleTarget = 2
  MaxRun = 2
  MmrSize = 12
  SlotPosition = 2
SPECIFICATION BatchSpec
INVARIANT RecentForced
CHECK_DEADLOCK FALSE
