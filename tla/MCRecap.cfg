CONSTANTS
  MonthStart <- MCMonthStart
  HalfMonth = 15
  AgeBand = 2
  MaxDay = 115
  Thresholds <- MCThresholds
  Lookback = 10
  Milestones = {50, 80, 100}
  MaxStories = 1
  Accounts <- MCAccounts
  Days <- MCDays
  FirstWishes <- MCFirst
  History <- MCHistory
  Later <- MCLater
  Deposits = {1}
  ActiveSaves = 1
  MaxRows = 7
  MaxVisits = 1
  MaxEnded = 1
SPECIFICATION Spec
INVARIANTS BackCalculated ClosedNotPromised SavingsExplained WindowsSuffice Parity Accepted
CHECK_DEADLOCK FALSE
