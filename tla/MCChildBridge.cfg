CONSTANTS
  w1 = w1
  w2 = w2
  Writers <- TwoWriters
  PipeCap = 1
  ChanCap = 1
  Natures <- GoodAndBad
SPECIFICATION FairSpec
INVARIANTS
  DeadIsTrue
PROPERTIES
  KillKills
  ExitCodeIsFound
  DropReturns
CHECK_DEADLOCK FALSE
