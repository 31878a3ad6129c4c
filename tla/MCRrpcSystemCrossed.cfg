SPECIFICATION FairSpec
CONSTANTS
  SyncCalls = {"r"}
  AsyncCalls = {"p", "q"}
  Via <- CrossedVia
  Channels = {"a1", "a2", "b1"}
  Servers = {"s1"}
  Announces <- CrossedIds
  Target <- CrossedTargets
  RetryTimes = 2
  MaxSeq = 2
  Breaking = {}
  Missing = {"s1", "b1"}
  Ignoring = {"s1"}
  MakingUp = {"b1"}
  Empty = Empty
  Null = Null
CHECK_DEADLOCK FALSE
INVARIANTS
  AnswerHasCause
PROPERTIES
  ImplementsCalls
  RepliesReturn
