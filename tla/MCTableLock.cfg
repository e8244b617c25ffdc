SPECIFICATION LockSpec
CONSTANTS
  h1 = h1
  h2 = h2
  h3 = h3
  s1 = s1
  s2 = s2
  Handlers <- ThreeHandlers
  Sessions <- TwoSessions
  Orders <- TwoOrders
  Moods <- OneDeaf
  Messages = 2
  StdinCap = 1
  StdoutCap = 1
  MaxPrints = 1
PROPERTY NobodyStarves
CHECK_DEADLOCK FALSE
