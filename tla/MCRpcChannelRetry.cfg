SPECIFICATION Spec
CONSTANTS
  SyncCalls = {s1}
  AsyncCalls = {}
  RetryTimes = 2
  MaxSeq = 2
  Lossy = TRUE
  StraySeqs = {}
  Alien = Alien
  Empty = Empty
  Null = Null
CHECK_DEADLOCK FALSE
INVARIANTS
  RetryCanSucceed
