SPECIFICATION FairSpec
CONSTANTS
  SyncCalls = {}
  AsyncCalls = {a1}
  RetryTimes = 1
  MaxSeq = 1
  Lossy = FALSE
  StraySeqs = {}
  Alien = Alien
  Empty = Empty
  Null = Null
CHECK_DEADLOCK FALSE
PROPERTIES
  AsyncReported
