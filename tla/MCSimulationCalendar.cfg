SPECIFICATION Spec
CONSTANTS
  N = 3
  Owner = 1
  Plans <- MCPlans
  DayLength = 1000
  MaxRefused = 1
INVARIANTS
  CalendarAccepted
  Complete
  SilentSinceEve
