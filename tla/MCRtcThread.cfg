CONSTANTS
  a = a
  b = b
  c = c
  NoThread = NoThread
  Threads <- MCThreads
  Initials <- MCInitials
  PostsTo <- MCPostsTo
  SendsTo <- MCSendsTo
  ClearsOf <- MCClearsOf
  FailingWaits = {b}
  QuitThreads = {b}
  MaxMessages = 5
  MaxClears = 1
SPECIFICATION LSpec
CHECK_DEADLOCK FALSE
INVARIANTS
  TypeOK
  ReadyAlive
  OnlyTargetReenters
PROPERTIES
  HandledOnce
  PostsHandled
  SendsReturn
