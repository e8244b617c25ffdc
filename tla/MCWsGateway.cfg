CONSTANTS
  c1 = c1
  c2 = c2
  a = a
  b = b
  Clients <- TwoClients
  OrigIds <- TwoIds
  MaxClients = 2
  ChanCap = 1
  EarlyCap = 1
  MaxId = 2
  MaxOut = 3
  None = None
SPECIFICATION WsSpec
INVARIANTS
  AnswerIsAskers
  PendingIsOwned
  WsGaugesExact
SYMMETRY Symmetric
CHECK_DEADLOCK FALSE
