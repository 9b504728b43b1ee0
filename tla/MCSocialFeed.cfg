SPECIFICATION Spec
CONSTANTS
  N = 3
  Owner = 3
  JoinDay <- MCJoinDay
  Cards = {1, 2, 3}
  Author <- MCAuthor
  UnblockAge = 2
  MonthLength = 2
  LastDay = 3
  PageSize = 2
INVARIANTS
  SocialAccepted
  MirrorCovers
  OnceAMonth
  InfluenceHasExposure
PROPERTIES
  BlocksLast
