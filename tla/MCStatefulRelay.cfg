CONSTANTS
  p1 = p1
  p2 = p2
  p3 = p3
  i1 = i1
  i2 = i2
  i3 = i3
  Posts <- ThreePosts
  Ids <- ThreeIds
  note = note
  Note <- note
  Bodies <- TwoBodies
  Opener <- p1
  RespCap = 2
  EarlyCap = 1
  NoticeCap = 1
  MaxNotices = 2
  Nobody = Nobody
SPECIFICATION RelaySpec
INVARIANTS
  AnswerIsOwn
  DisconnectedOnlyIfClosed
  NotificationsInOrder
PROPERTY
  DiscardedOnlyUnregistered
CHECK_DEADLOCK FALSE
