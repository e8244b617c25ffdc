CONSTANTS
  s1 = s1
  s2 = s2
  r1 = r1
  r2 = r2
  r3 = r3
  SessionIds <- OneId
  Requests <- ThreeRequests
  Tasks <- ThreeRequestTasks
  Methods <- PostAndGet
  MaxSessions = 1
  MaxGen = 9
  NoSession = NoSession
SPECIFICATION GwSpec
INVARIANT
  IdleSessionHasTimer
CHECK_DEADLOCK FALSE
