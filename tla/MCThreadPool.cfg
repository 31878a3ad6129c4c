SPECIFICATION FairSpec
CONSTANTS
  Threads = {t1, t2}
  Tasks = {k1}
  DelayTasks = {d1}
  Delays = {0, 1}
  Tick = 2
  MaxTime = 2
  None = None
CHECK_DEADLOCK FALSE
INVARIANTS
  TypeOK
  StopCompletesQueued
  NoLostWakeup
  DelayedIsWatched
PROPERTIES
  ImplementsExecutor
  EveryTaskRuns
  StopReturns
  CancelReturnsAtLast
