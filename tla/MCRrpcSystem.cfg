SPECIFICATION FairSpec
CONSTANTS
  SyncCalls = {"r"}
  AsyncCalls = {"p"}
  Via <- RestartedVia
  Channels = {"a1", "b1"}
  Servers = {"s1", "t1"}
  Announces <- RestartedIds
  Target <- RestartedTargets
  RetryTimes = 2
  MaxSeq = 3
  Breaking = {"s1"}
  Missing = {}
  Ignoring = {}
  MakingUp = {}
  Empty = Empty
  Null = Null
CHECK_DEADLOCK FALSE
INVARIANTS
  TypeOK
  ExecutedPerAttempt
PROPERTIES
  ImplementsCalls
