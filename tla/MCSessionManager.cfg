CONSTANTS
  s1 = s1
  s2 = s2
  t1 = t1
  t2 = t2
  t3 = t3
  SessionIds <- TwoIds
  Tasks <- ThreeTasks
  MaxSessions = 2
  MaxGen = 1
  NoSession = NoSession
SPECIFICATION Spec
INVARIANTS
  CountIsHolders
  GaugeExact
  CleanupOwedOnce
  RetiredIsQuiet
PROPERTIES
  ImplementsLifecycle
CHECK_DEADLOCK FALSE
