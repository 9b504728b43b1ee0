SPECIFICATION Spec
CONSTANTS
  N = 2
  Owner = 2
  JoinDay <- MCJoinDay
  GoalCapacity <- MCGoalCapacity
  Cooldown = 1
  AbandonAge = 1
  DeleteAge = 0
  MonthLength = 1
  LastDay = 1
  MaxGoals = 3
  VersionSpan = 2
  TargetLimit = 2
  Targets = {2}
  GrantAmounts = {2}
  SpendLimits = {1}
  SavingSteps = {1, 2}
  WithdrawUnit = 1
  TransferUnit = 1
  NoWish = NoWish
INVARIANTS TypeOK OracleAccepts MirrorsFaithful CapacityKept
PROPERTIES OnlySpendingOverdraws ImplementsLifecycle
