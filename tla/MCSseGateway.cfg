CONSTANTS
  c1 = c1
  c2 = c2
  Clients <- TwoClients
  MaxClients = 2
  ChanCap = 2
  EarlyCap = 2
  MaxMsgs = 5
SPECIFICATION SseSpec
INVARIANTS
  NoGaps
  GaugesExact
  PressedIsBehind
SYMMETRY Symmetric
CHECK_DEADLOCK FALSE
