CONSTANTS
  Configs = {"c1", "c2"}
  MaxRuns = 3
SPECIFICATION PublishSpec
INVARIANTS OutputsAgree
CHECK_DEADLOCK FALSE
