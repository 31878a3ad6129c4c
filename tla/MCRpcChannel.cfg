SPECIFICATION Spec
CONSTANTS
  SyncCalls = {s1}
  AsyncCalls = {a1}
  RetryTimes = 2
  MaxSeq = 3
  Lossy = TRUE
  StraySeqs = {1}
  Alien = Alien
  Empty = Empty
  Null = Null
CHECK_DEADLOCK FALSE
INVARIANTS
  TypeOK
  OwnReply
  SequenceIdsUnique
  CrashOnlyInWindow
PROPERTIES
  ImplementsCalls
