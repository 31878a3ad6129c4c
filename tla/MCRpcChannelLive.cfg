SPECIFICATION FairSpec
CONSTANTS
  SyncCalls = {s1}
  AsyncCalls = {a1}
  RetryTimes = 2
  MaxSeq = 3
  Lossy = TRUE
  StraySeqs = {}
  Alien = Alien
  Empty = Empty
  Null = Null
CHECK_DEADLOCK FALSE
INVARIANTS
  CallbackOnce
PROPERTIES
  SyncReturns
  AnsweredIsReported
