CONSTANTS
  s1 = s1
  s2 = s2
  r1 = r1
  r2 = r2
  r3 = r3
  SessionIds <- TwoIds
  Requests <- ThreeRequests
  Tasks <- ThreeRequestTasks
  Methods <- AllMethods
  MaxSessions = 2
  MaxGen = 9
  NoSession = NoSession
SPECIFICATION GwFairSpec
INVARIANTS
  InFlightIsSafe
  StreamsExact
PROPERTIES
  EverySessionReaped
  DeleteCloses
CHECK_DEADLOCK FALSE
