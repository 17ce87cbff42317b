SPECIFICATION WebSpec
CONSTANTS
  Reports = {r1, r2}
  NoReport = NoReport
  Unread = Unread
  Buffer = 1
  MaxSse = 1
  MaxEvents = 2
  MaxTurns = 2
  Nothing = Nothing
  MaxRevision = 3
  MaxRestarts = 1
  MaxRetries = 1
  Clients = {1, 2, 3}
  Unnamed = Unnamed
  NoGraph = NoGraph
  MaxLog = 4
INVARIANTS
  PermitsBounded
  GraphOfMountedRevision
  AnswersTellOneRevision
  LockFollowsBuild
  RebuiltOnlyWhenOvertaken
PROPERTIES
  ScreenNeverGoesBack
  ScreenConverges
  GraphOrProblem
  EveryRequestEnds
CHECK_DEADLOCK FALSE
