CONSTANTS
  p1 = p1
  p2 = p2
  p3 = p3
  p4 = p4
  ask = ask
  Posts <- FourPosts
  Asks <- OneAsk
  BodyOf <- AllBodies
  MaxActive = 1
  ChannelCap = 1
  MaxNotes = 1
  MayBatch = TRUE
SPECIFICATION HttpFairSpec
INVARIANTS
  PermitsExact
  ReplyIsComplete
PROPERTIES
  EveryPostEnds
CHECK_DEADLOCK FALSE
