CONSTANTS
  a = a
  b = b
  c = c
  NoThread = NoThread
  Threads <- MCThreads
  Initials <- MCInitials
  PostsTo <- MCPostsTo
  SendsTo <- MCSendsTo
  ClearsOf <- MCClearsOf
  FailingWaits = {}
  QuitThreads = {}
  MaxMessages = 3
  MaxClears = 1
SPECIFICATION Spec
CHECK_DEADLOCK FALSE
PROPERTIES
  CallsCancelled
