SPECIFICATION Spec
CONSTANTS
  Threads = {t1, t2}
  Tasks = {}
  DelayTasks = {d1, d2}
  Delays = {1}
  Tick = 1
  MaxTime = 2
  None = None
CHECK_DEADLOCK FALSE
INVARIANTS
  CancelWaits
