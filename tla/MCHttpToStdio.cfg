SPECIFICATION HttpFairSpec
CONSTANTS
  Scripts <- ThreeParents
  ChanCap = 2
INVARIANTS LinesInOrder HandshakeFirst AnswersAreForLines
PROPERTIES EveryLineIsPosted SessionIsNamed
CHECK_DEADLOCK FALSE
