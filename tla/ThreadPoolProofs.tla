--------------------------- MODULE ThreadPoolProofs ---------------------------
(***************************************************************************)
(* The inductive invariant of ThreadPool and the theorems that follow from *)
(* it, for every number of threads and tasks, all delays and every clock.  *)
(***************************************************************************)
EXTENDS ThreadPool, FiniteSetTheorems, TLAPS

\* queue_ holds the tasks that were accepted and not yet begun, once each.
QueueInv ==
  /\ pending_num = Len(queue)
  /\ \A i \in 1 .. Len(queue) : status[queue[i]] = "accepted"
  /\ \A i, j \in 1 .. Len(queue) : queue[i] = queue[j] => i = j
  /\ \A k \in Tasks :
       status[k] = "accepted" => \E i \in 1 .. Len(queue) : queue[i] = k

\* Each item of latest_ belongs to an accepted task, by the id it was given.
ItemInv ==
  /\ \A i \in latest :
       /\ i.id \in 1 .. last_task_id
       /\ idOf[i.task] = i.id
       /\ status[i.task] = "accepted"
       /\ \A j \in latest : i.id = j.id => i = j
  /\ \A k \in DelayTasks :
       /\ idOf[k] <= last_task_id
       /\ status[k] = "new" => idOf[k] = 0
       /\ \A j \in DelayTasks : idOf[k] = idOf[j] /\ idOf[k] # 0 => k = j

\* The tasks that run are those of the threads that run one, one each.
RunningInv ==
  /\ \A t \in Threads :
       thread[t] = "running" =>
         /\ task[t] \in AllTasks
         /\ status[task[t]] = "running"
         /\ \A u \in Threads :
              thread[u] = "running" /\ task[u] = task[t] => t = u
  /\ \A k \in AllTasks :
       status[k] = "running" =>
         \E t \in Threads : thread[t] = "running" /\ task[t] = k

\* What has become of the promised tasks at each stage of Stop.
StopInv ==
  /\ stopper = "stopped" => \A t \in Threads : thread[t] = "exited"
  /\ \A k \in promised \intersect Tasks :
       /\ stopper = "polling" => status[k] \in {"accepted", "running", "done"}
       /\ stopper \in {"stopping", "joining"} =>
            status[k] \in {"running", "done"}
  /\ StopCompletesQueued

\* The inductive invariant.
PoolInv ==
  /\ TypeOK /\ QueueInv /\ ItemInv /\ RunningInv /\ StopInv
  /\ NoLostWakeup /\ DelayedIsWatched

-----------------------------------------------------------------------------
\* A set of natural numbers that is not empty has a least element.
LEMMA LeastNat ==
  ASSUME NEW S \in SUBSET Nat, S # {}
  PROVE  \E m \in S : \A n \in S : m <= n
<1>1. \E m \in S : \A n \in S : <<n, m>> \notin OpToRel(<, Nat)
  BY NatLessThanWellFounded, WFMin
<1>2. PICK m \in S : \A n \in S : <<n, m>> \notin OpToRel(<, Nat)
  BY <1>1
<1>3. \A n \in S : ~(n < m)
  BY <1>2 DEF OpToRel
<1> QED
  BY <1>3

\* The head of time_queue_ is an item that no other comes before.
LEMMA TopIsFirst ==
  ASSUME time_queue \subseteq Item, time_queue # {}
  PROVE  /\ Top \in time_queue
         /\ \A j \in time_queue : Top.exe_time <= j.exe_time
<1> DEFINE First(i) == \A j \in time_queue :
                         \/ i.exe_time < j.exe_time
                         \/ i.exe_time = j.exe_time /\ i.id <= j.id
<1>1. PICK e \in {i.exe_time : i \in time_queue} :
        \A n \in {i.exe_time : i \in time_queue} : e <= n
  <2>1. {i.exe_time : i \in time_queue} \in SUBSET Nat
    BY PoolAssumption DEF Item
  <2> QED
    BY <2>1, LeastNat
<1>2. PICK d \in {i.id : i \in {j \in time_queue : j.exe_time = e}} :
        \A n \in {i.id : i \in {j \in time_queue : j.exe_time = e}} : d <= n
  <2>1. {i.id : i \in {j \in time_queue : j.exe_time = e}} \in SUBSET Nat
    BY DEF Item
  <2>2. {i.id : i \in {j \in time_queue : j.exe_time = e}} # {}
    OBVIOUS
  <2> QED
    BY <2>1, <2>2, LeastNat
<1>3. \E i \in time_queue : First(i)
  <2>1. PICK i \in time_queue : i.exe_time = e /\ i.id = d
    OBVIOUS
  <2>2. ASSUME NEW j \in time_queue
        PROVE  \/ i.exe_time < j.exe_time
               \/ i.exe_time = j.exe_time /\ i.id <= j.id
    <3>1. i.exe_time \in Nat /\ j.exe_time \in Nat /\ i.id \in Nat /\ j.id \in Nat
      BY PoolAssumption DEF Item
    <3>2. i.exe_time <= j.exe_time
      BY <1>1, <2>1
    <3>3. j.exe_time = i.exe_time => i.id <= j.id
      BY <1>2, <2>1
    <3> QED
      BY <3>1, <3>2, <3>3
  <2> QED
    BY <2>2
<1>4. Top \in time_queue /\ First(Top)
  BY <1>3 DEF Top
<1>5. \A j \in time_queue : j.exe_time \in Nat
  BY PoolAssumption DEF Item
<1> QED
  BY <1>4, <1>5

\* Milliseconds rounded down are no more than the ticks they come from.
LEMMA DivBound ==
  ASSUME NEW x \in Int, NEW n \in Nat \ {0}
  PROVE  (x \div n) * n <= x
  OBVIOUS

\* A timed wait ends by the time of the item it waits for.
LEMMA WaitBound ==
  ASSUME TypeOK, time_queue # {}, ~Due
  PROVE  now + WaitTime * Tick \in 0 .. Top.exe_time
<1>1. Top \in Item
  BY TopIsFirst DEF TypeOK
<1>2. WaitTime \in Int /\ WaitTime > 0
  BY <1>1, PoolAssumption DEF TypeOK, Item, Due, WaitTime
<1>3. Top.exe_time - now \in Int
  BY <1>1, PoolAssumption DEF TypeOK, Item
<1>4. WaitTime * Tick <= Top.exe_time - now
  BY <1>3, DivBound, PoolAssumption DEF WaitTime
<1>5. WaitTime * Tick \in Nat
  BY <1>2, PoolAssumption
<1> QED
  BY <1>1, <1>4, <1>5, PoolAssumption DEF TypeOK, Item

\* Signal makes at most sleeping threads ready, and leaves one not asleep.
LEMMA Signalled ==
  ASSUME TypeOK, Signal
  PROVE  /\ thread' \in [Threads -> {"ready", "wait", "timewait", "running",
                                     "relock", "exited"}]
         /\ \A t \in Threads : \/ thread'[t] = thread[t]
                               \/ t \in Sleeping /\ thread'[t] = "ready"
         /\ \E t \in Threads : thread'[t] \notin {"wait", "timewait"}
<1>1. CASE Sleeping = {}
  BY <1>1, PoolAssumption DEF Signal, Sleeping, TypeOK
<1>2. CASE Sleeping # {}
  <2>1. PICK s \in Sleeping : thread' = [thread EXCEPT ![s] = "ready"]
    BY <1>2 DEF Signal
  <2>2. s \in Threads
    BY DEF Sleeping
  <2> QED
    BY <2>1, <2>2 DEF TypeOK, Sleeping
<1> QED
  BY <1>1, <1>2

-----------------------------------------------------------------------------
\* Every step keeps the variables in their types.
LEMMA TypeNext ==
  PoolInv /\ [Next]_vars => TypeOK'
<1> SUFFICES ASSUME PoolInv, [Next]_vars
             PROVE  TypeOK'
  OBVIOUS
<1> USE DEF vars, taskVars, userVars
<1>1. ASSUME NEW k \in Tasks, AddTask(k)
      PROVE  TypeOK'
  BY <1>1, Signalled DEF AddTask, Enqueue, PoolInv, TypeOK, AllTasks
<1>2. ASSUME NEW k \in Tasks, AddPriorityTask(k)
      PROVE  TypeOK'
  BY <1>2, Signalled DEF AddPriorityTask, Enqueue, PoolInv, TypeOK, AllTasks
<1>3. ASSUME NEW k \in DelayTasks, NEW delay \in Delays, DelayTask(k, delay)
      PROVE  TypeOK'
  <2>1. [id |-> last_task_id + 1, exe_time |-> now + delay * Tick, task |-> k]
          \in Item
    <3>1. now \in Nat /\ delay \in Nat /\ Tick \in Nat
      BY PoolAssumption DEF PoolInv, TypeOK
    <3>2. delay * Tick \in Nat
      BY <3>1
    <3>3. now + delay * Tick \in Nat
      BY <3>1, <3>2
    <3> QED
      BY <1>3, <3>3, PoolAssumption DEF DelayTask, PoolInv, TypeOK, Item
  <2> QED
    BY <1>3, <2>1, Signalled DEF DelayTask, PoolInv, TypeOK, AllTasks
<1>4. ASSUME NEW k \in AllTasks, Refuse(k)
      PROVE  TypeOK'
  BY <1>4 DEF Refuse, PoolInv, TypeOK
<1>5. ASSUME NEW k \in DelayTasks, CancelTask(k)
      PROVE  TypeOK'
  BY <1>5 DEF CancelTask, PoolInv, TypeOK
<1>6. ASSUME NEW k \in DelayTasks, CancelReturns(k)
      PROVE  TypeOK'
  BY <1>6 DEF CancelReturns, Erase, PoolInv, TypeOK, AllTasks
<1>7. ASSUME NEW k \in DelayTasks, CancelNonBlock(k)
      PROVE  TypeOK'
  BY <1>7 DEF CancelNonBlock, Erase, PoolInv, TypeOK, AllTasks
<1>8. ASSUME NEW k \in DelayTasks, CancelIsRunning(k)
      PROVE  TypeOK'
  BY <1>8 DEF CancelIsRunning, PoolInv, TypeOK
<1>9. ASSUME NEW t \in Threads, Wait(t)
      PROVE  TypeOK'
  BY <1>9 DEF Wait, PoolInv, TypeOK
<1>10. ASSUME NEW t \in Threads, TimeWait(t)
       PROVE  TypeOK'
  <2>1. now + WaitTime * Tick \in 0 .. MaxTime
    <3>1. Top \in Item /\ now + WaitTime * Tick \in 0 .. Top.exe_time
      BY <1>10, TopIsFirst, WaitBound DEF TimeWait, PoolInv, TypeOK
    <3> QED
      BY <3>1, PoolAssumption DEF Item
  <2> QED
    BY <1>10, <2>1 DEF TimeWait, PoolInv, TypeOK
<1>11. ASSUME NEW t \in Threads, RunDelayed(t)
       PROVE  TypeOK'
  <2>1. Top \in Item
    BY <1>11 DEF RunDelayed, PoolInv, TypeOK
  <2> QED
    BY <1>11, <2>1 DEF RunDelayed, PoolInv, TypeOK, Item, AllTasks
<1>12. ASSUME NEW t \in Threads, SkipCancelled(t)
       PROVE  TypeOK'
  BY <1>12 DEF SkipCancelled, PoolInv, TypeOK
<1>13. ASSUME NEW t \in Threads, RunTask(t)
       PROVE  TypeOK'
  <2>1. Head(queue) \in Tasks /\ Tail(queue) \in Seq(Tasks) /\ Len(queue) > 0
    BY <1>13 DEF RunTask, PoolInv, TypeOK
  <2> QED
    BY <1>13, <2>1 DEF RunTask, PoolInv, TypeOK, QueueInv, AllTasks
<1>14. ASSUME NEW t \in Threads, Relock(t)
       PROVE  TypeOK'
  BY <1>14 DEF Relock, PoolInv, TypeOK
<1>15. ASSUME NEW t \in Threads, Exit(t)
       PROVE  TypeOK'
  BY <1>15 DEF Exit, PoolInv, TypeOK
<1>16. ASSUME NEW t \in Threads, TaskReturns(t)
       PROVE  TypeOK'
  BY <1>16 DEF TaskReturns, PoolInv, TypeOK, RunningInv
<1>17. ASSUME NEW t \in Threads, WaitTimesOut(t)
       PROVE  TypeOK'
  BY <1>17 DEF WaitTimesOut, PoolInv, TypeOK
<1>18. ASSUME NEW t \in Threads, SpuriousWakeup(t)
       PROVE  TypeOK'
  BY <1>18 DEF SpuriousWakeup, PoolInv, TypeOK
<1>19. CASE ClockTick
  BY <1>19, PoolAssumption DEF ClockTick, PoolInv, TypeOK
<1>20. CASE StopWaiting
  BY <1>20 DEF StopWaiting, PoolInv, TypeOK
<1>21. CASE NoTaskPending
  BY <1>21 DEF NoTaskPending, PoolInv, TypeOK
<1>22. CASE StopAtOnce
  BY <1>22 DEF StopAtOnce, PoolInv, TypeOK
<1>23. CASE StopThreads
  BY <1>23 DEF StopThreads, Broadcast, PoolInv, TypeOK
<1>24. CASE Join
  BY <1>24 DEF Join, PoolInv, TypeOK
<1>25. CASE Start
  BY <1>25 DEF Start, PoolInv, TypeOK
<1>26. CASE UNCHANGED vars
  BY <1>26 DEF PoolInv, TypeOK
<1> QED
  BY <1>1, <1>2, <1>3, <1>4, <1>5, <1>6, <1>7, <1>8, <1>9, <1>10, <1>11, <1>12,
     <1>13, <1>14, <1>15, <1>16, <1>17, <1>18, <1>19, <1>20, <1>21, <1>22,
     <1>23, <1>24, <1>25, <1>26
  DEF Next, ThreadProc, Stop

\* queue_ keeps the accepted tasks, once each.
LEMMA QueueNext ==
  PoolInv /\ [Next]_vars => QueueInv'
<1> SUFFICES ASSUME PoolInv, [Next]_vars
             PROVE  QueueInv'
  OBVIOUS
<1> USE DEF vars, taskVars, userVars
<1>1. ASSUME NEW k \in Tasks, AddTask(k)
      PROVE  QueueInv'
  <2>1. queue' = Append(queue, k) /\ status' = [status EXCEPT ![k] = "accepted"]
        /\ pending_num' = pending_num + 1 /\ status[k] = "new"
    BY <1>1 DEF AddTask, Enqueue
  <2>2. \A i \in 1 .. Len(queue) : queue[i] # k
    BY <2>1 DEF PoolInv, QueueInv
  <2>3. /\ Len(queue') = Len(queue) + 1
        /\ \A i \in 1 .. Len(queue) : queue'[i] = queue[i]
        /\ queue'[Len(queue) + 1] = k
    BY <2>1 DEF PoolInv, TypeOK
  <2> QED
    BY <2>1, <2>2, <2>3 DEF PoolInv, TypeOK, QueueInv, AllTasks
<1>2. ASSUME NEW k \in Tasks, AddPriorityTask(k)
      PROVE  QueueInv'
  <2>1. queue' = <<k>> \o queue /\ status' = [status EXCEPT ![k] = "accepted"]
        /\ pending_num' = pending_num + 1 /\ status[k] = "new"
    BY <1>2 DEF AddPriorityTask, Enqueue
  <2>2. \A i \in 1 .. Len(queue) : queue[i] # k
    BY <2>1 DEF PoolInv, QueueInv
  <2>3. /\ Len(queue') = Len(queue) + 1
        /\ \A i \in 1 .. Len(queue) : queue'[i + 1] = queue[i]
        /\ queue'[1] = k
        /\ \A i \in 2 .. Len(queue) + 1 :
             i - 1 \in 1 .. Len(queue) /\ queue'[i] = queue[i - 1]
    BY <2>1 DEF PoolInv, TypeOK
  <2>4. pending_num' = Len(queue')
    BY <2>1, <2>3 DEF PoolInv, TypeOK, QueueInv
  <2>5. \A i \in 1 .. Len(queue') : status'[queue'[i]] = "accepted"
    BY <2>1, <2>3 DEF PoolInv, TypeOK, QueueInv, AllTasks
  <2>6. \A i, j \in 1 .. Len(queue') : queue'[i] = queue'[j] => i = j
    BY <2>2, <2>3 DEF PoolInv, TypeOK, QueueInv
  <2>7. \A j \in Tasks :
          status'[j] = "accepted" => \E i \in 1 .. Len(queue') : queue'[i] = j
    BY <2>1, <2>3 DEF PoolInv, TypeOK, QueueInv, AllTasks
  <2> QED
    BY <2>4, <2>5, <2>6, <2>7 DEF QueueInv
<1>3. ASSUME NEW k \in DelayTasks, NEW delay \in Delays, DelayTask(k, delay)
      PROVE  QueueInv'
  BY <1>3, PoolAssumption DEF DelayTask, PoolInv, TypeOK, QueueInv, AllTasks
<1>4. ASSUME NEW k \in AllTasks, Refuse(k)
      PROVE  QueueInv'
  BY <1>4, PoolAssumption DEF Refuse, PoolInv, TypeOK, QueueInv, AllTasks
<1>5. ASSUME NEW k \in DelayTasks, CancelTask(k)
      PROVE  QueueInv'
  BY <1>5 DEF CancelTask, PoolInv, TypeOK, QueueInv
<1>6. ASSUME NEW k \in DelayTasks, CancelReturns(k)
      PROVE  QueueInv'
  BY <1>6, PoolAssumption
  DEF CancelReturns, Erase, PoolInv, TypeOK, QueueInv, AllTasks
<1>7. ASSUME NEW k \in DelayTasks, CancelNonBlock(k)
      PROVE  QueueInv'
  BY <1>7, PoolAssumption
  DEF CancelNonBlock, Erase, PoolInv, TypeOK, QueueInv, AllTasks
<1>8. ASSUME NEW k \in DelayTasks, CancelIsRunning(k)
      PROVE  QueueInv'
  BY <1>8 DEF CancelIsRunning, PoolInv, TypeOK, QueueInv
<1>9. ASSUME NEW t \in Threads, Wait(t)
      PROVE  QueueInv'
  BY <1>9 DEF Wait, PoolInv, TypeOK, QueueInv
<1>10. ASSUME NEW t \in Threads, TimeWait(t)
       PROVE  QueueInv'
  BY <1>10 DEF TimeWait, PoolInv, TypeOK, QueueInv
<1>11. ASSUME NEW t \in Threads, RunDelayed(t)
       PROVE  QueueInv'
  <2>1. Top.task \in DelayTasks
    BY <1>11 DEF RunDelayed, PoolInv, TypeOK, Item
  <2> QED
    BY <1>11, <2>1, PoolAssumption
    DEF RunDelayed, PoolInv, TypeOK, QueueInv, AllTasks
<1>12. ASSUME NEW t \in Threads, SkipCancelled(t)
       PROVE  QueueInv'
  BY <1>12 DEF SkipCancelled, PoolInv, TypeOK, QueueInv
<1>13. ASSUME NEW t \in Threads, RunTask(t)
       PROVE  QueueInv'
  <2>1. queue' = Tail(queue) /\ status' = [status EXCEPT ![queue[1]] = "running"]
        /\ pending_num' = pending_num - 1 /\ Len(queue) > 0
    BY <1>13 DEF RunTask, PoolInv, TypeOK
  <2>2. queue[1] \in AllTasks
    BY <2>1 DEF PoolInv, TypeOK, AllTasks
  <2>3. /\ Len(queue') = Len(queue) - 1
        /\ \A i \in 1 .. Len(queue) - 1 :
             i + 1 \in 1 .. Len(queue) /\ queue'[i] = queue[i + 1]
        /\ \A i \in 2 .. Len(queue) : i - 1 \in 1 .. Len(queue) - 1
    BY <2>1 DEF PoolInv, TypeOK
  <2>4. pending_num' = Len(queue')
    BY <2>1, <2>3 DEF PoolInv, TypeOK, QueueInv
  <2>5. \A i \in 1 .. Len(queue') : status'[queue'[i]] = "accepted"
    BY <2>1, <2>2, <2>3 DEF PoolInv, TypeOK, QueueInv
  <2>6. \A i, j \in 1 .. Len(queue') : queue'[i] = queue'[j] => i = j
    BY <2>3 DEF PoolInv, TypeOK, QueueInv
  <2>7. ASSUME NEW k \in Tasks, status'[k] = "accepted"
        PROVE  \E i \in 1 .. Len(queue') : queue'[i] = k
    <3>1. status[k] = "accepted" /\ k # queue[1]
      BY <2>1, <2>2, <2>7 DEF PoolInv, TypeOK, AllTasks
    <3>2. PICK i \in 1 .. Len(queue) : queue[i] = k
      BY <3>1 DEF PoolInv, QueueInv
    <3>3. i \in 2 .. Len(queue)
      BY <3>1, <3>2
    <3>4. i - 1 \in 1 .. Len(queue') /\ queue'[i - 1] = k
      BY <2>1, <3>2, <3>3 DEF PoolInv, TypeOK
    <3> QED
      BY <3>4
  <2> QED
    BY <2>4, <2>5, <2>6, <2>7 DEF QueueInv
<1>14. ASSUME NEW t \in Threads, Relock(t)
       PROVE  QueueInv'
  BY <1>14 DEF Relock, PoolInv, TypeOK, QueueInv
<1>15. ASSUME NEW t \in Threads, Exit(t)
       PROVE  QueueInv'
  BY <1>15 DEF Exit, PoolInv, TypeOK, QueueInv
<1>16. ASSUME NEW t \in Threads, TaskReturns(t)
       PROVE  QueueInv'
  BY <1>16 DEF TaskReturns, PoolInv, TypeOK, QueueInv, RunningInv, AllTasks
<1>17. ASSUME NEW t \in Threads, WaitTimesOut(t)
       PROVE  QueueInv'
  BY <1>17 DEF WaitTimesOut, PoolInv, TypeOK, QueueInv
<1>18. ASSUME NEW t \in Threads, SpuriousWakeup(t)
       PROVE  QueueInv'
  BY <1>18 DEF SpuriousWakeup, PoolInv, TypeOK, QueueInv
<1>19. CASE ClockTick
  BY <1>19 DEF ClockTick, PoolInv, TypeOK, QueueInv
<1>20. CASE StopWaiting
  BY <1>20 DEF StopWaiting, PoolInv, TypeOK, QueueInv
<1>21. CASE NoTaskPending
  BY <1>21 DEF NoTaskPending, PoolInv, TypeOK, QueueInv
<1>22. CASE StopAtOnce
  BY <1>22 DEF StopAtOnce, PoolInv, TypeOK, QueueInv
<1>23. CASE StopThreads
  BY <1>23 DEF StopThreads, PoolInv, TypeOK, QueueInv
<1>24. CASE Join
  BY <1>24 DEF Join, PoolInv, TypeOK, QueueInv
<1>25. CASE Start
  BY <1>25 DEF Start, PoolInv, TypeOK, QueueInv
<1>26. CASE UNCHANGED vars
  BY <1>26 DEF PoolInv, TypeOK, QueueInv
<1> QED
  BY <1>1, <1>2, <1>3, <1>4, <1>5, <1>6, <1>7, <1>8, <1>9, <1>10, <1>11, <1>12,
     <1>13, <1>14, <1>15, <1>16, <1>17, <1>18, <1>19, <1>20, <1>21, <1>22,
     <1>23, <1>24, <1>25, <1>26
  DEF Next, ThreadProc, Stop

\* CancelTask takes the items of its own task only.
LEMMA EraseOwn ==
  ASSUME PoolInv, NEW k \in DelayTasks, NEW i \in latest, i.id = idOf[k]
  PROVE  i.task = k /\ status[k] = "accepted"
  BY DEF PoolInv, TypeOK, ItemInv, Item

\* A cancellation that takes items leaves the rest with their owners.
LEMMA EraseItem ==
  ASSUME PoolInv, NEW k \in DelayTasks, NEW hit, NEW miss, Erase(k, hit, miss)
  PROVE  ItemInv'
<1>1. /\ latest' = {i \in latest : i.id # idOf[k]}
      /\ UNCHANGED <<last_task_id, idOf>>
  BY DEF Erase, taskVars
<1>2. status' = status \/ status' = [status EXCEPT ![k] = "cancelled"]
  BY DEF Erase
<1>3. \A i \in latest' : i.task # k
  BY <1>1 DEF PoolInv, ItemInv
<1> QED
  BY <1>1, <1>2, <1>3 DEF PoolInv, TypeOK, ItemInv, Item, AllTasks

\* latest_ keeps the accepted delayed tasks, under their own ids.
LEMMA ItemNext ==
  PoolInv /\ [Next]_vars => ItemInv'
<1> SUFFICES ASSUME PoolInv, [Next]_vars
             PROVE  ItemInv'
  OBVIOUS
<1> USE DEF vars, taskVars, userVars
<1>1. ASSUME NEW k \in Tasks, AddTask(k)
      PROVE  ItemInv'
  BY <1>1, PoolAssumption
  DEF AddTask, Enqueue, PoolInv, TypeOK, ItemInv, Item, AllTasks
<1>2. ASSUME NEW k \in Tasks, AddPriorityTask(k)
      PROVE  ItemInv'
  BY <1>2, PoolAssumption
  DEF AddPriorityTask, Enqueue, PoolInv, TypeOK, ItemInv, Item, AllTasks
<1>3. ASSUME NEW k \in DelayTasks, NEW delay \in Delays, DelayTask(k, delay)
      PROVE  ItemInv'
  <2> DEFINE item == [id |-> last_task_id + 1, exe_time |-> now + delay * Tick,
                      task |-> k]
  <2>1. /\ status[k] = "new" /\ status' = [status EXCEPT ![k] = "accepted"]
        /\ last_task_id' = last_task_id + 1
        /\ latest' = latest \union {item}
        /\ idOf' = [idOf EXCEPT ![k] = last_task_id + 1]
    BY <1>3 DEF DelayTask
  <2>2. \A i \in latest : i.id <= last_task_id /\ i.id >= 1 /\ i.task # k
    BY <2>1 DEF PoolInv, TypeOK, ItemInv, Item
  <2>3. item.id = last_task_id + 1 /\ item.task = k
    OBVIOUS
  <2> HIDE DEF item
  <2>4. ASSUME NEW i \in latest'
        PROVE  /\ i.id \in 1 .. last_task_id'
               /\ idOf'[i.task] = i.id
               /\ status'[i.task] = "accepted"
               /\ \A j \in latest' : i.id = j.id => i = j
    <3>1. CASE i = item
      BY <2>1, <2>2, <2>3, <3>1 DEF PoolInv, TypeOK, AllTasks
    <3>2. CASE i \in latest
      BY <2>1, <2>2, <2>3, <3>2 DEF PoolInv, TypeOK, ItemInv, Item, AllTasks
    <3> QED
      BY <2>1, <2>4, <3>1, <3>2
  <2>5. ASSUME NEW d \in DelayTasks
        PROVE  /\ idOf'[d] <= last_task_id'
               /\ status'[d] = "new" => idOf'[d] = 0
               /\ \A j \in DelayTasks : idOf'[d] = idOf'[j] /\ idOf'[d] # 0 => d = j
    BY <2>1 DEF PoolInv, TypeOK, ItemInv, AllTasks
  <2> QED
    BY <2>4, <2>5 DEF ItemInv
<1>4. ASSUME NEW k \in AllTasks, Refuse(k)
      PROVE  ItemInv'
  BY <1>4 DEF Refuse, PoolInv, TypeOK, ItemInv, Item, AllTasks
<1>5. ASSUME NEW k \in DelayTasks, CancelTask(k)
      PROVE  ItemInv'
  BY <1>5 DEF CancelTask, PoolInv, TypeOK, ItemInv
<1>6. ASSUME NEW k \in DelayTasks, CancelReturns(k)
      PROVE  ItemInv'
  BY <1>6, EraseItem DEF CancelReturns
<1>7. ASSUME NEW k \in DelayTasks, CancelNonBlock(k)
      PROVE  ItemInv'
  BY <1>7, EraseItem DEF CancelNonBlock
<1>8. ASSUME NEW k \in DelayTasks, CancelIsRunning(k)
      PROVE  ItemInv'
  BY <1>8 DEF CancelIsRunning, PoolInv, TypeOK, ItemInv
<1>9. ASSUME NEW t \in Threads, Wait(t)
      PROVE  ItemInv'
  BY <1>9 DEF Wait, PoolInv, TypeOK, ItemInv
<1>10. ASSUME NEW t \in Threads, TimeWait(t)
       PROVE  ItemInv'
  BY <1>10 DEF TimeWait, PoolInv, TypeOK, ItemInv
<1>11. ASSUME NEW t \in Threads, RunDelayed(t)
       PROVE  ItemInv'
  <2>1. /\ Top \in latest /\ Top \in Item /\ latest' = latest \ {Top}
        /\ status' = [status EXCEPT ![Top.task] = "running"]
        /\ UNCHANGED <<idOf, last_task_id>>
    BY <1>11 DEF RunDelayed, PoolInv, TypeOK
  <2>2. \A i \in latest' : i.task # Top.task
    BY <2>1 DEF PoolInv, ItemInv
  <2> QED
    BY <2>1, <2>2 DEF PoolInv, TypeOK, ItemInv, Item, AllTasks
<1>12. ASSUME NEW t \in Threads, SkipCancelled(t)
       PROVE  ItemInv'
  BY <1>12 DEF SkipCancelled, PoolInv, TypeOK, ItemInv
<1>13. ASSUME NEW t \in Threads, RunTask(t)
       PROVE  ItemInv'
  <2>1. Head(queue) \in Tasks
    BY <1>13 DEF RunTask, PoolInv, TypeOK
  <2> QED
    BY <1>13, <2>1, PoolAssumption
    DEF RunTask, PoolInv, TypeOK, ItemInv, Item, AllTasks
<1>14. ASSUME NEW t \in Threads, Relock(t)
       PROVE  ItemInv'
  BY <1>14 DEF Relock, PoolInv, TypeOK, ItemInv
<1>15. ASSUME NEW t \in Threads, Exit(t)
       PROVE  ItemInv'
  BY <1>15 DEF Exit, PoolInv, TypeOK, ItemInv
<1>16. ASSUME NEW t \in Threads, TaskReturns(t)
       PROVE  ItemInv'
  BY <1>16 DEF TaskReturns, PoolInv, TypeOK, ItemInv, RunningInv, Item, AllTasks
<1>17. ASSUME NEW t \in Threads, WaitTimesOut(t)
       PROVE  ItemInv'
  BY <1>17 DEF WaitTimesOut, PoolInv, TypeOK, ItemInv
<1>18. ASSUME NEW t \in Threads, SpuriousWakeup(t)
       PROVE  ItemInv'
  BY <1>18 DEF SpuriousWakeup, PoolInv, TypeOK, ItemInv
<1>19. CASE ClockTick
  BY <1>19 DEF ClockTick, PoolInv, TypeOK, ItemInv
<1>20. CASE StopWaiting
  BY <1>20 DEF StopWaiting, PoolInv, TypeOK, ItemInv
<1>21. CASE NoTaskPending
  BY <1>21 DEF NoTaskPending, PoolInv, TypeOK, ItemInv
<1>22. CASE StopAtOnce
  BY <1>22 DEF StopAtOnce, PoolInv, TypeOK, ItemInv
<1>23. CASE StopThreads
  BY <1>23 DEF StopThreads, PoolInv, TypeOK, ItemInv
<1>24. CASE Join
  BY <1>24 DEF Join, PoolInv, TypeOK, ItemInv
<1>25. CASE Start
  BY <1>25 DEF Start, PoolInv, TypeOK, ItemInv
<1>26. CASE UNCHANGED vars
  BY <1>26 DEF PoolInv, TypeOK, ItemInv
<1> QED
  BY <1>1, <1>2, <1>3, <1>4, <1>5, <1>6, <1>7, <1>8, <1>9, <1>10, <1>11, <1>12,
     <1>13, <1>14, <1>15, <1>16, <1>17, <1>18, <1>19, <1>20, <1>21, <1>22,
     <1>23, <1>24, <1>25, <1>26
  DEF Next, ThreadProc, Stop

\* A ready thread that begins an accepted task is the only one to run it.
LEMMA BeginRunning ==
  ASSUME PoolInv, NEW t \in Threads, NEW k \in AllTasks,
         status[k] = "accepted", thread[t] = "ready",
         thread' = [thread EXCEPT ![t] = "running"],
         task' = [task EXCEPT ![t] = k],
         status' = [status EXCEPT ![k] = "running"]
  PROVE  RunningInv'
<1>1. \A u \in Threads : thread[u] = "running" => task[u] # k
  BY DEF PoolInv, RunningInv
<1> QED
  BY <1>1 DEF PoolInv, TypeOK, RunningInv

\* Accepting a task and waking a thread leave those that run alone.
LEMMA AcceptRunning ==
  ASSUME PoolInv, Signal, NEW k \in AllTasks, status[k] = "new",
         status' = [status EXCEPT ![k] = "accepted"], UNCHANGED task
  PROVE  RunningInv'
<1>1. \A t \in Threads : thread'[t] = "running" <=> thread[t] = "running"
  BY Signalled DEF PoolInv, Sleeping
<1>2. \A j \in AllTasks : status'[j] = "running" <=> status[j] = "running"
  BY DEF PoolInv, TypeOK
<1> QED
  BY <1>1, <1>2 DEF PoolInv, RunningInv

\* A task that is cancelled was not running.
LEMMA EraseRunning ==
  ASSUME PoolInv, NEW k \in DelayTasks, NEW hit, NEW miss, Erase(k, hit, miss)
  PROVE  RunningInv'
<1>1. status' = status \/ ( /\ status[k] = "accepted"
                           /\ status' = [status EXCEPT ![k] = "cancelled"])
  BY EraseOwn DEF Erase
<1>2. UNCHANGED <<thread, task>>
  BY DEF Erase
<1> QED
  BY <1>1, <1>2 DEF PoolInv, TypeOK, RunningInv, AllTasks

\* A task that runs keeps its one thread.
LEMMA RunningNext ==
  PoolInv /\ [Next]_vars => RunningInv'
<1> SUFFICES ASSUME PoolInv, [Next]_vars
             PROVE  RunningInv'
  OBVIOUS
<1> USE DEF vars, taskVars, userVars
<1>1. ASSUME NEW k \in Tasks, AddTask(k)
      PROVE  RunningInv'
  <2>1. Signal /\ status[k] = "new" /\ UNCHANGED task
        /\ status' = [status EXCEPT ![k] = "accepted"]
    BY <1>1 DEF AddTask, Enqueue
  <2> QED
    BY <2>1, AcceptRunning DEF AllTasks
<1>2. ASSUME NEW k \in Tasks, AddPriorityTask(k)
      PROVE  RunningInv'
  <2>1. Signal /\ status[k] = "new" /\ UNCHANGED task
        /\ status' = [status EXCEPT ![k] = "accepted"]
    BY <1>2 DEF AddPriorityTask, Enqueue
  <2> QED
    BY <2>1, AcceptRunning DEF AllTasks
<1>3. ASSUME NEW k \in DelayTasks, NEW delay \in Delays, DelayTask(k, delay)
      PROVE  RunningInv'
  <2>1. Signal /\ status[k] = "new" /\ UNCHANGED task
        /\ status' = [status EXCEPT ![k] = "accepted"]
    BY <1>3 DEF DelayTask
  <2> QED
    BY <2>1, AcceptRunning DEF AllTasks
<1>4. ASSUME NEW k \in AllTasks, Refuse(k)
      PROVE  RunningInv'
  BY <1>4 DEF Refuse, PoolInv, TypeOK, RunningInv
<1>5. ASSUME NEW k \in DelayTasks, CancelTask(k)
      PROVE  RunningInv'
  BY <1>5 DEF CancelTask, PoolInv, TypeOK, RunningInv
<1>6. ASSUME NEW k \in DelayTasks, CancelReturns(k)
      PROVE  RunningInv'
  BY <1>6, EraseRunning DEF CancelReturns
<1>7. ASSUME NEW k \in DelayTasks, CancelNonBlock(k)
      PROVE  RunningInv'
  BY <1>7, EraseRunning DEF CancelNonBlock
<1>8. ASSUME NEW k \in DelayTasks, CancelIsRunning(k)
      PROVE  RunningInv'
  BY <1>8 DEF CancelIsRunning, PoolInv, TypeOK, RunningInv
<1>9. ASSUME NEW t \in Threads, Wait(t)
      PROVE  RunningInv'
  BY <1>9 DEF Wait, AtTop, PoolInv, TypeOK, RunningInv
<1>10. ASSUME NEW t \in Threads, TimeWait(t)
       PROVE  RunningInv'
  BY <1>10 DEF TimeWait, AtTop, PoolInv, TypeOK, RunningInv
<1>11. ASSUME NEW t \in Threads, RunDelayed(t)
       PROVE  RunningInv'
  <2>1. Top.task \in AllTasks /\ status[Top.task] = "accepted"
    BY <1>11 DEF RunDelayed, PoolInv, TypeOK, ItemInv, Item, AllTasks
  <2>2. /\ thread[t] = "ready" /\ thread' = [thread EXCEPT ![t] = "running"]
        /\ task' = [task EXCEPT ![t] = Top.task]
        /\ status' = [status EXCEPT ![Top.task] = "running"]
    BY <1>11 DEF RunDelayed, AtTop
  <2> QED
    BY <2>1, <2>2, BeginRunning
<1>12. ASSUME NEW t \in Threads, SkipCancelled(t)
       PROVE  RunningInv'
  BY <1>12 DEF SkipCancelled, PoolInv, TypeOK, RunningInv
<1>13. ASSUME NEW t \in Threads, RunTask(t)
       PROVE  RunningInv'
  <2>1. Head(queue) \in AllTasks /\ status[Head(queue)] = "accepted"
    BY <1>13 DEF RunTask, PoolInv, TypeOK, QueueInv, AllTasks
  <2>2. /\ thread[t] = "ready" /\ thread' = [thread EXCEPT ![t] = "running"]
        /\ task' = [task EXCEPT ![t] = Head(queue)]
        /\ status' = [status EXCEPT ![Head(queue)] = "running"]
    BY <1>13 DEF RunTask, AtTop
  <2> QED
    BY <2>1, <2>2, BeginRunning
<1>14. ASSUME NEW t \in Threads, Relock(t)
       PROVE  RunningInv'
  BY <1>14 DEF Relock, PoolInv, TypeOK, RunningInv
<1>15. ASSUME NEW t \in Threads, Exit(t)
       PROVE  RunningInv'
  BY <1>15 DEF Exit, PoolInv, TypeOK, RunningInv
<1>16. ASSUME NEW t \in Threads, TaskReturns(t)
       PROVE  RunningInv'
  BY <1>16 DEF TaskReturns, PoolInv, TypeOK, RunningInv
<1>17. ASSUME NEW t \in Threads, WaitTimesOut(t)
       PROVE  RunningInv'
  BY <1>17 DEF WaitTimesOut, PoolInv, TypeOK, RunningInv
<1>18. ASSUME NEW t \in Threads, SpuriousWakeup(t)
       PROVE  RunningInv'
  BY <1>18 DEF SpuriousWakeup, Sleeping, PoolInv, TypeOK, RunningInv
<1>19. CASE ClockTick
  BY <1>19 DEF ClockTick, PoolInv, TypeOK, RunningInv
<1>20. CASE StopWaiting
  BY <1>20 DEF StopWaiting, PoolInv, TypeOK, RunningInv
<1>21. CASE NoTaskPending
  BY <1>21 DEF NoTaskPending, PoolInv, TypeOK, RunningInv
<1>22. CASE StopAtOnce
  BY <1>22 DEF StopAtOnce, PoolInv, TypeOK, RunningInv
<1>23. CASE StopThreads
  <2>1. \A t \in Threads : thread'[t] = "running" <=> thread[t] = "running"
    BY <1>23 DEF StopThreads, Broadcast, Sleeping
  <2> QED
    BY <1>23, <2>1 DEF StopThreads, PoolInv, RunningInv
<1>24. CASE Join
  BY <1>24 DEF Join, PoolInv, TypeOK, RunningInv
<1>25. CASE Start
  BY <1>25 DEF Start, PoolInv, TypeOK, RunningInv, StopInv
<1>26. CASE UNCHANGED vars
  BY <1>26 DEF PoolInv, TypeOK, RunningInv
<1> QED
  BY <1>1, <1>2, <1>3, <1>4, <1>5, <1>6, <1>7, <1>8, <1>9, <1>10, <1>11, <1>12,
     <1>13, <1>14, <1>15, <1>16, <1>17, <1>18, <1>19, <1>20, <1>21, <1>22,
     <1>23, <1>24, <1>25, <1>26
  DEF Next, ThreadProc, Stop

\* Cancelling leaves the tasks of queue_ alone.
LEMMA EraseStop ==
  ASSUME PoolInv, NEW k \in DelayTasks, NEW hit, NEW miss, Erase(k, hit, miss)
  PROVE  StopInv'
<1>1. status' = status \/ status' = [status EXCEPT ![k] = "cancelled"]
  BY DEF Erase
<1>2. UNCHANGED <<thread, stopper, promised>>
  BY DEF Erase
<1>3. k \notin Tasks
  BY PoolAssumption
<1> QED
  BY <1>1, <1>2, <1>3 DEF PoolInv, TypeOK, StopInv, StopCompletesQueued, AllTasks

\* What Stop(true) was called for is not forgotten on its way.
LEMMA StopNext ==
  PoolInv /\ [Next]_vars => StopInv'
<1> SUFFICES ASSUME PoolInv, [Next]_vars
             PROVE  StopInv'
  OBVIOUS
<1> USE DEF vars, taskVars, userVars
<1>1. ASSUME NEW k \in Tasks, AddTask(k)
      PROVE  StopInv'
  BY <1>1, Signalled
  DEF AddTask, Enqueue, Sleeping, AllTasks, PoolInv, TypeOK, StopInv,
      StopCompletesQueued
<1>2. ASSUME NEW k \in Tasks, AddPriorityTask(k)
      PROVE  StopInv'
  BY <1>2, Signalled
  DEF AddPriorityTask, Enqueue, Sleeping, AllTasks, PoolInv, TypeOK, StopInv,
      StopCompletesQueued
<1>3. ASSUME NEW k \in DelayTasks, NEW delay \in Delays, DelayTask(k, delay)
      PROVE  StopInv'
  BY <1>3, Signalled
  DEF DelayTask, Sleeping, AllTasks, PoolInv, TypeOK, StopInv,
      StopCompletesQueued
<1>4. ASSUME NEW k \in AllTasks, Refuse(k)
      PROVE  StopInv'
  BY <1>4
  DEF Refuse, PoolInv, TypeOK, StopInv, StopCompletesQueued
<1>5. ASSUME NEW k \in DelayTasks, CancelTask(k)
      PROVE  StopInv'
  BY <1>5 DEF CancelTask, PoolInv, TypeOK, StopInv, StopCompletesQueued
<1>6. ASSUME NEW k \in DelayTasks, CancelReturns(k)
      PROVE  StopInv'
  BY <1>6, EraseStop DEF CancelReturns
<1>7. ASSUME NEW k \in DelayTasks, CancelNonBlock(k)
      PROVE  StopInv'
  BY <1>7, EraseStop DEF CancelNonBlock
<1>8. ASSUME NEW k \in DelayTasks, CancelIsRunning(k)
      PROVE  StopInv'
  BY <1>8 DEF CancelIsRunning, PoolInv, TypeOK, StopInv, StopCompletesQueued
<1>9. ASSUME NEW t \in Threads, Wait(t)
      PROVE  StopInv'
  BY <1>9
  DEF Wait, AtTop, PoolInv, TypeOK, StopInv, StopCompletesQueued
<1>10. ASSUME NEW t \in Threads, TimeWait(t)
       PROVE  StopInv'
  BY <1>10
  DEF TimeWait, AtTop, PoolInv, TypeOK, StopInv, StopCompletesQueued
<1>11. ASSUME NEW t \in Threads, RunDelayed(t)
       PROVE  StopInv'
  <2>1. Top.task \in DelayTasks
    BY <1>11 DEF RunDelayed, PoolInv, TypeOK, Item
  <2> QED
    BY <1>11, <2>1, PoolAssumption
    DEF RunDelayed, AtTop, PoolInv, TypeOK, StopInv, StopCompletesQueued, AllTasks
<1>12. ASSUME NEW t \in Threads, SkipCancelled(t)
       PROVE  StopInv'
  BY <1>12 DEF SkipCancelled, PoolInv, TypeOK, StopInv, StopCompletesQueued
<1>13. ASSUME NEW t \in Threads, RunTask(t)
       PROVE  StopInv'
  <2>1. Head(queue) \in AllTasks /\ status[Head(queue)] = "accepted"
    BY <1>13 DEF RunTask, PoolInv, TypeOK, QueueInv, AllTasks
  <2>2. /\ thread[t] = "ready" /\ thread' = [thread EXCEPT ![t] = "running"]
        /\ status' = [status EXCEPT ![Head(queue)] = "running"]
        /\ UNCHANGED <<stopper, promised>>
    BY <1>13 DEF RunTask, AtTop
  <2> QED
    BY <2>1, <2>2 DEF PoolInv, TypeOK, StopInv, StopCompletesQueued, AllTasks
<1>14. ASSUME NEW t \in Threads, Relock(t)
       PROVE  StopInv'
  BY <1>14
  DEF Relock, PoolInv, TypeOK, StopInv, StopCompletesQueued
<1>15. ASSUME NEW t \in Threads, Exit(t)
       PROVE  StopInv'
  BY <1>15
  DEF Exit, PoolInv, TypeOK, StopInv, StopCompletesQueued
<1>16. ASSUME NEW t \in Threads, TaskReturns(t)
       PROVE  StopInv'
  <2>1. task[t] \in AllTasks /\ status[task[t]] = "running"
    BY <1>16 DEF TaskReturns, PoolInv, RunningInv
  <2> QED
    BY <1>16, <2>1
    DEF TaskReturns, PoolInv, TypeOK, StopInv, StopCompletesQueued, AllTasks
<1>17. ASSUME NEW t \in Threads, WaitTimesOut(t)
       PROVE  StopInv'
  BY <1>17
  DEF WaitTimesOut, PoolInv, TypeOK, StopInv, StopCompletesQueued
<1>18. ASSUME NEW t \in Threads, SpuriousWakeup(t)
       PROVE  StopInv'
  BY <1>18
  DEF SpuriousWakeup, Sleeping, PoolInv, TypeOK, StopInv, StopCompletesQueued
<1>19. CASE ClockTick
  BY <1>19 DEF ClockTick, PoolInv, TypeOK, StopInv, StopCompletesQueued
<1>20. CASE StopWaiting
  BY <1>20
  DEF StopWaiting, PoolInv, TypeOK, StopInv, StopCompletesQueued
<1>21. CASE NoTaskPending
  <2>1. \A k \in Tasks : status[k] # "accepted"
    BY <1>21 DEF NoTaskPending, PoolInv, TypeOK, QueueInv
  <2> QED
    BY <1>21, <2>1 DEF NoTaskPending, PoolInv, TypeOK, StopInv, StopCompletesQueued
<1>22. CASE StopAtOnce
  BY <1>22 DEF StopAtOnce, PoolInv, TypeOK, StopInv, StopCompletesQueued
<1>23. CASE StopThreads
  BY <1>23
  DEF StopThreads, Broadcast, Sleeping, PoolInv, TypeOK, StopInv,
      StopCompletesQueued
<1>24. CASE Join
  <2>1. \A k \in AllTasks : status[k] # "running"
    BY <1>24 DEF Join, PoolInv, RunningInv
  <2> QED
    BY <1>24, <2>1 DEF Join, PoolInv, TypeOK, StopInv, StopCompletesQueued
<1>25. CASE Start
  BY <1>25
  DEF Start, PoolInv, TypeOK, StopInv, StopCompletesQueued
<1>26. CASE UNCHANGED vars
  BY <1>26 DEF PoolInv, TypeOK, StopInv, StopCompletesQueued
<1> QED
  BY <1>1, <1>2, <1>3, <1>4, <1>5, <1>6, <1>7, <1>8, <1>9, <1>10, <1>11, <1>12,
     <1>13, <1>14, <1>15, <1>16, <1>17, <1>18, <1>19, <1>20, <1>21, <1>22,
     <1>23, <1>24, <1>25, <1>26
  DEF Next, ThreadProc, Stop

\* The last thread to go to sleep has seen queue_ empty, and whoever fills it
\* wakes one.
LEMMA WakeupNext ==
  PoolInv /\ [Next]_vars => NoLostWakeup'
<1> SUFFICES ASSUME PoolInv, [Next]_vars
             PROVE  NoLostWakeup'
  OBVIOUS
<1> USE DEF vars, taskVars, userVars
<1>1. ASSUME NEW k \in Tasks, AddTask(k)
      PROVE  NoLostWakeup'
  BY <1>1, Signalled
  DEF AddTask, Enqueue, PoolInv, TypeOK, NoLostWakeup, Sleeping
<1>2. ASSUME NEW k \in Tasks, AddPriorityTask(k)
      PROVE  NoLostWakeup'
  BY <1>2, Signalled
  DEF AddPriorityTask, Enqueue, PoolInv, TypeOK, NoLostWakeup, Sleeping
<1>3. ASSUME NEW k \in DelayTasks, NEW delay \in Delays, DelayTask(k, delay)
      PROVE  NoLostWakeup'
  BY <1>3, Signalled
  DEF DelayTask, PoolInv, TypeOK, NoLostWakeup, Sleeping
<1>4. ASSUME NEW k \in AllTasks, Refuse(k)
      PROVE  NoLostWakeup'
  BY <1>4 DEF Refuse, PoolInv, TypeOK, NoLostWakeup, Sleeping
<1>5. ASSUME NEW k \in DelayTasks, CancelTask(k)
      PROVE  NoLostWakeup'
  BY <1>5 DEF CancelTask, PoolInv, TypeOK, NoLostWakeup, Sleeping
<1>6. ASSUME NEW k \in DelayTasks, CancelReturns(k)
      PROVE  NoLostWakeup'
  BY <1>6
  DEF CancelReturns, Erase, PoolInv, TypeOK, NoLostWakeup, Sleeping
<1>7. ASSUME NEW k \in DelayTasks, CancelNonBlock(k)
      PROVE  NoLostWakeup'
  BY <1>7
  DEF CancelNonBlock, Erase, PoolInv, TypeOK, NoLostWakeup, Sleeping
<1>8. ASSUME NEW k \in DelayTasks, CancelIsRunning(k)
      PROVE  NoLostWakeup'
  BY <1>8 DEF CancelIsRunning, PoolInv, TypeOK, NoLostWakeup, Sleeping
<1>9. ASSUME NEW t \in Threads, Wait(t)
      PROVE  NoLostWakeup'
  BY <1>9 DEF Wait, PoolInv, TypeOK, NoLostWakeup, Sleeping
<1>10. ASSUME NEW t \in Threads, TimeWait(t)
       PROVE  NoLostWakeup'
  BY <1>10 DEF TimeWait, PoolInv, TypeOK, NoLostWakeup, Sleeping
<1>11. ASSUME NEW t \in Threads, RunDelayed(t)
       PROVE  NoLostWakeup'
  BY <1>11 DEF RunDelayed, PoolInv, TypeOK, NoLostWakeup, Sleeping
<1>12. ASSUME NEW t \in Threads, SkipCancelled(t)
       PROVE  NoLostWakeup'
  BY <1>12 DEF SkipCancelled, PoolInv, TypeOK, NoLostWakeup, Sleeping
<1>13. ASSUME NEW t \in Threads, RunTask(t)
       PROVE  NoLostWakeup'
  BY <1>13 DEF RunTask, PoolInv, TypeOK, NoLostWakeup, Sleeping
<1>14. ASSUME NEW t \in Threads, Relock(t)
       PROVE  NoLostWakeup'
  BY <1>14 DEF Relock, PoolInv, TypeOK, NoLostWakeup, Sleeping
<1>15. ASSUME NEW t \in Threads, Exit(t)
       PROVE  NoLostWakeup'
  BY <1>15 DEF Exit, PoolInv, TypeOK, NoLostWakeup, Sleeping
<1>16. ASSUME NEW t \in Threads, TaskReturns(t)
       PROVE  NoLostWakeup'
  BY <1>16 DEF TaskReturns, PoolInv, TypeOK, NoLostWakeup, Sleeping
<1>17. ASSUME NEW t \in Threads, WaitTimesOut(t)
       PROVE  NoLostWakeup'
  BY <1>17 DEF WaitTimesOut, PoolInv, TypeOK, NoLostWakeup, Sleeping
<1>18. ASSUME NEW t \in Threads, SpuriousWakeup(t)
       PROVE  NoLostWakeup'
  BY <1>18 DEF SpuriousWakeup, PoolInv, TypeOK, NoLostWakeup, Sleeping
<1>19. CASE ClockTick
  BY <1>19 DEF ClockTick, PoolInv, TypeOK, NoLostWakeup, Sleeping
<1>20. CASE StopWaiting
  BY <1>20 DEF StopWaiting, PoolInv, TypeOK, NoLostWakeup, Sleeping
<1>21. CASE NoTaskPending
  BY <1>21 DEF NoTaskPending, PoolInv, TypeOK, NoLostWakeup, Sleeping
<1>22. CASE StopAtOnce
  BY <1>22 DEF StopAtOnce, PoolInv, TypeOK, NoLostWakeup, Sleeping
<1>23. CASE StopThreads
  BY <1>23 DEF StopThreads, PoolInv, TypeOK, NoLostWakeup, Sleeping
<1>24. CASE Join
  BY <1>24 DEF Join, PoolInv, TypeOK, NoLostWakeup, Sleeping
<1>25. CASE Start
  BY <1>25, PoolAssumption
  DEF Start, PoolInv, TypeOK, NoLostWakeup, Sleeping
<1>26. CASE UNCHANGED vars
  BY <1>26 DEF PoolInv, TypeOK, NoLostWakeup, Sleeping
<1> QED
  BY <1>1, <1>2, <1>3, <1>4, <1>5, <1>6, <1>7, <1>8, <1>9, <1>10, <1>11, <1>12,
     <1>13, <1>14, <1>15, <1>16, <1>17, <1>18, <1>19, <1>20, <1>21, <1>22,
     <1>23, <1>24, <1>25, <1>26
  DEF Next, ThreadProc, Stop

\* The last thread to go to sleep has a timer for the head of time_queue_, and
\* whoever adds an item wakes one.
LEMMA WatchNext ==
  PoolInv /\ [Next]_vars => DelayedIsWatched'
<1> SUFFICES ASSUME PoolInv, [Next]_vars
             PROVE  DelayedIsWatched'
  OBVIOUS
<1> USE DEF vars, taskVars, userVars
<1>1. ASSUME NEW k \in Tasks, AddTask(k)
      PROVE  DelayedIsWatched'
  BY <1>1, Signalled
  DEF AddTask, Enqueue, PoolInv, TypeOK, DelayedIsWatched, Sleeping
<1>2. ASSUME NEW k \in Tasks, AddPriorityTask(k)
      PROVE  DelayedIsWatched'
  BY <1>2, Signalled
  DEF AddPriorityTask, Enqueue, PoolInv, TypeOK, DelayedIsWatched, Sleeping
<1>3. ASSUME NEW k \in DelayTasks, NEW delay \in Delays, DelayTask(k, delay)
      PROVE  DelayedIsWatched'
  BY <1>3, Signalled
  DEF DelayTask, PoolInv, TypeOK, DelayedIsWatched, Sleeping
<1>4. ASSUME NEW k \in AllTasks, Refuse(k)
      PROVE  DelayedIsWatched'
  BY <1>4
  DEF Refuse, Top, PoolInv, TypeOK, DelayedIsWatched, Sleeping
<1>5. ASSUME NEW k \in DelayTasks, CancelTask(k)
      PROVE  DelayedIsWatched'
  BY <1>5
  DEF CancelTask, Top, PoolInv, TypeOK, DelayedIsWatched, Sleeping
<1>6. ASSUME NEW k \in DelayTasks, CancelReturns(k)
      PROVE  DelayedIsWatched'
  BY <1>6
  DEF CancelReturns, Erase, Top, PoolInv, TypeOK, DelayedIsWatched, Sleeping
<1>7. ASSUME NEW k \in DelayTasks, CancelNonBlock(k)
      PROVE  DelayedIsWatched'
  BY <1>7
  DEF CancelNonBlock, Erase, Top, PoolInv, TypeOK, DelayedIsWatched, Sleeping
<1>8. ASSUME NEW k \in DelayTasks, CancelIsRunning(k)
      PROVE  DelayedIsWatched'
  BY <1>8
  DEF CancelIsRunning, Top, PoolInv, TypeOK, DelayedIsWatched, Sleeping
<1>9. ASSUME NEW t \in Threads, Wait(t)
      PROVE  DelayedIsWatched'
  BY <1>9 DEF Wait, PoolInv, TypeOK, DelayedIsWatched, Sleeping
<1>10. ASSUME NEW t \in Threads, TimeWait(t)
       PROVE  DelayedIsWatched'
  <2>1. Top' = Top
    BY <1>10 DEF TimeWait, Top
  <2>2. until'[t] <= Top.exe_time /\ thread'[t] = "timewait"
    BY <1>10, WaitBound DEF TimeWait, PoolInv, TypeOK
  <2> QED
    BY <2>1, <2>2 DEF DelayedIsWatched
<1>11. ASSUME NEW t \in Threads, RunDelayed(t)
       PROVE  DelayedIsWatched'
  BY <1>11
  DEF RunDelayed, PoolInv, TypeOK, DelayedIsWatched, Sleeping
<1>12. ASSUME NEW t \in Threads, SkipCancelled(t)
       PROVE  DelayedIsWatched'
  BY <1>12
  DEF SkipCancelled, AtTop, PoolInv, TypeOK, DelayedIsWatched, Sleeping
<1>13. ASSUME NEW t \in Threads, RunTask(t)
       PROVE  DelayedIsWatched'
  BY <1>13 DEF RunTask, PoolInv, TypeOK, DelayedIsWatched, Sleeping
<1>14. ASSUME NEW t \in Threads, Relock(t)
       PROVE  DelayedIsWatched'
  BY <1>14 DEF Relock, PoolInv, TypeOK, DelayedIsWatched, Sleeping
<1>15. ASSUME NEW t \in Threads, Exit(t)
       PROVE  DelayedIsWatched'
  BY <1>15 DEF Exit, PoolInv, TypeOK, DelayedIsWatched, Sleeping
<1>16. ASSUME NEW t \in Threads, TaskReturns(t)
       PROVE  DelayedIsWatched'
  BY <1>16 DEF TaskReturns, PoolInv, TypeOK, DelayedIsWatched, Sleeping
<1>17. ASSUME NEW t \in Threads, WaitTimesOut(t)
       PROVE  DelayedIsWatched'
  BY <1>17 DEF WaitTimesOut, PoolInv, TypeOK, DelayedIsWatched, Sleeping
<1>18. ASSUME NEW t \in Threads, SpuriousWakeup(t)
       PROVE  DelayedIsWatched'
  BY <1>18 DEF SpuriousWakeup, PoolInv, TypeOK, DelayedIsWatched, Sleeping
<1>19. CASE ClockTick
  BY <1>19
  DEF ClockTick, Top, PoolInv, TypeOK, DelayedIsWatched, Sleeping
<1>20. CASE StopWaiting
  BY <1>20
  DEF StopWaiting, Top, PoolInv, TypeOK, DelayedIsWatched, Sleeping
<1>21. CASE NoTaskPending
  BY <1>21
  DEF NoTaskPending, Top, PoolInv, TypeOK, DelayedIsWatched, Sleeping
<1>22. CASE StopAtOnce
  BY <1>22
  DEF StopAtOnce, Top, PoolInv, TypeOK, DelayedIsWatched, Sleeping
<1>23. CASE StopThreads
  BY <1>23 DEF StopThreads, PoolInv, TypeOK, DelayedIsWatched, Sleeping
<1>24. CASE Join
  BY <1>24
  DEF Join, Top, PoolInv, TypeOK, DelayedIsWatched, Sleeping
<1>25. CASE Start
  BY <1>25, PoolAssumption
  DEF Start, PoolInv, TypeOK, DelayedIsWatched, Sleeping
<1>26. CASE UNCHANGED vars
  BY <1>26 DEF PoolInv, DelayedIsWatched, Sleeping, Top
<1> QED
  BY <1>1, <1>2, <1>3, <1>4, <1>5, <1>6, <1>7, <1>8, <1>9, <1>10, <1>11, <1>12,
     <1>13, <1>14, <1>15, <1>16, <1>17, <1>18, <1>19, <1>20, <1>21, <1>22,
     <1>23, <1>24, <1>25, <1>26
  DEF Next, ThreadProc, Stop

-----------------------------------------------------------------------------
\* The invariant holds of a pool just started.
LEMMA InitPool == Init => PoolInv
<1> SUFFICES ASSUME Init PROVE PoolInv
  OBVIOUS
<1>1. TypeOK
  <2>1. now \in 0 .. MaxTime /\ until \in [Threads -> 0 .. MaxTime]
    BY PoolAssumption DEF Init
  <2>2. queue \in Seq(Tasks) /\ time_queue \subseteq Item /\ latest \subseteq Item
    BY DEF Init
  <2>3. /\ pending_num \in Nat /\ last_task_id \in Nat
        /\ running_task_id \in Nat /\ stop \in BOOLEAN
        /\ stopper = "none" /\ promised \subseteq AllTasks
    BY DEF Init
  <2>4. /\ thread \in [Threads -> {"ready", "wait", "timewait", "running",
                                  "relock", "exited"}]
        /\ task \in [Threads -> AllTasks \union {None}]
    BY DEF Init
  <2>5. /\ idOf \in [DelayTasks -> Nat]
        /\ cancel \in [DelayTasks -> {"none", "waiting", "true", "false",
                                     "erased", "missed", "running"}]
        /\ status \in [AllTasks -> {"new", "accepted", "refused", "running",
                                    "done", "cancelled"}]
    BY DEF Init
  <2> QED
    BY <2>1, <2>2, <2>3, <2>4, <2>5 DEF TypeOK
<1>2. QueueInv
  BY DEF Init, QueueInv, AllTasks
<1>3. ItemInv
  BY DEF Init, ItemInv, AllTasks
<1>4. RunningInv
  BY DEF Init, RunningInv
<1>5. StopInv
  BY DEF Init, StopInv, StopCompletesQueued
<1>6. NoLostWakeup /\ DelayedIsWatched
  BY DEF Init, NoLostWakeup, DelayedIsWatched
<1> QED
  BY <1>1, <1>2, <1>3, <1>4, <1>5, <1>6 DEF PoolInv

\* The conjunction of all the parts is inductive.
THEOREM PoolInvariant == Spec => []PoolInv
<1>1. PoolInv /\ [Next]_vars => PoolInv'
  BY TypeNext, QueueNext, ItemNext, RunningNext, StopNext, WakeupNext, WatchNext
  DEF PoolInv
<1> QED
  BY <1>1, InitPool, PTL DEF Spec

\* Every variable keeps to its type.
THEOREM PoolTypeCorrect == Spec => []TypeOK
<1>1. PoolInv => TypeOK
  BY DEF PoolInv
<1> QED
  BY <1>1, PoolInvariant, PTL

(***************************************************************************)
(* Stop(true) returns only when the tasks that were in queue_, or running, *)
(* at its call have completed.                                             *)
(***************************************************************************)
THEOREM StopCompletesQueuedAlways == Spec => []StopCompletesQueued
<1>1. PoolInv => StopCompletesQueued
  BY DEF PoolInv, StopInv
<1> QED
  BY <1>1, PoolInvariant, PTL

\* One Signal per task is enough: queue_ never finds all threads asleep.
THEOREM NoLostWakeupAlways == Spec => []NoLostWakeup
<1>1. PoolInv => NoLostWakeup
  BY DEF PoolInv
<1> QED
  BY <1>1, PoolInvariant, PTL

\* Threads that all sleep do not sleep past the first delayed task.
THEOREM DelayedIsWatchedAlways == Spec => []DelayedIsWatched
<1>1. PoolInv => DelayedIsWatched
  BY DEF PoolInv
<1> QED
  BY <1>1, PoolInvariant, PTL

-----------------------------------------------------------------------------
\* A thread that is ready is one that no running task has.
LEMMA RoomToBegin ==
  ASSUME PoolInv, NEW t \in Threads, thread[t] = "ready"
  PROVE  Cardinality({j \in AllTasks : status[j] = "running"})
           < Cardinality(Threads)
<1> DEFINE Busy == {u \in Threads : thread[u] = "running"}
           Run  == {j \in AllTasks : status[j] = "running"}
<1>1. /\ IsFiniteSet(Threads \ {t})
      /\ Cardinality(Threads \ {t}) = Cardinality(Threads) - 1
  BY PoolAssumption, FS_RemoveElement
<1>2. Busy \in SUBSET (Threads \ {t})
  OBVIOUS
<1>3. IsFiniteSet(Busy) /\ Cardinality(Busy) <= Cardinality(Threads \ {t})
  BY <1>1, <1>2, FS_Subset
<1>4. [u \in Busy |-> task[u]] \in Surjection(Busy, Run)
  BY DEF PoolInv, RunningInv, Surjection
<1>5. IsFiniteSet(Run) /\ Cardinality(Run) <= Cardinality(Busy)
  BY <1>3, <1>4, FS_Surjection
<1>6. /\ Cardinality(Run) \in Nat
      /\ Cardinality(Busy) \in Nat
      /\ Cardinality(Threads) \in Nat
  BY <1>3, <1>5, PoolAssumption, FS_CardinalityType
<1> QED
  BY <1>1, <1>3, <1>5, <1>6

\* The executor counts its tasks as the pool does.
LEMMA SameCardinality ==
  ASSUME NEW S PROVE Executor!Cardinality(S) = Cardinality(S)
  BY DEF Executor!Cardinality, Cardinality

\* A task that a ready thread takes begins in the executor.
LEMMA BeginStep ==
  ASSUME PoolInv, NEW t \in Threads, thread[t] = "ready", NEW k \in AllTasks,
         status[k] = "accepted", status' = [status EXCEPT ![k] = "running"]
  PROVE  Executor!Next
<1>1. Cardinality({j \in AllTasks : status[j] = "running"})
        < Cardinality(Threads)
  BY RoomToBegin
<1>2. Executor!Begin(k)
  BY <1>1, SameCardinality, Zenon DEF Executor!Begin, Executor!Move
<1> QED
  BY <1>2 DEF Executor!Next

\* A cancellation that takes an item cancels the task in the executor.
LEMMA EraseStep ==
  ASSUME PoolInv, NEW k \in DelayTasks, NEW hit, NEW miss, Erase(k, hit, miss)
  PROVE  Executor!Next \/ UNCHANGED status
<1>1. CASE {i \in latest : i.id = idOf[k]} = {}
  BY <1>1 DEF Erase
<1>2. CASE {i \in latest : i.id = idOf[k]} # {}
  <2>1. status[k] = "accepted"
    BY <1>2, EraseOwn
  <2>2. Executor!Cancel(k)
    BY <1>2, <2>1 DEF Erase, Executor!Cancel, Executor!Move
  <2> QED
    BY <2>2 DEF Executor!Next, AllTasks
<1> QED
  BY <1>1, <1>2

\* One step of the pool is one step of the executor or none.
LEMMA ExecutorStep ==
  PoolInv /\ [Next]_vars => [Executor!Next]_status
<1> SUFFICES ASSUME PoolInv, [Next]_vars
             PROVE  [Executor!Next]_status
  OBVIOUS
<1> USE DEF vars, taskVars, userVars
<1>1. ASSUME NEW k \in Tasks, AddTask(k)
      PROVE  [Executor!Next]_status
  <2>1. Executor!Accept(k)
    BY <1>1 DEF AddTask, Enqueue, Executor!Accept, Executor!Move
  <2> QED
    BY <2>1 DEF Executor!Next, AllTasks
<1>2. ASSUME NEW k \in Tasks, AddPriorityTask(k)
      PROVE  [Executor!Next]_status
  <2>1. Executor!Accept(k)
    BY <1>2 DEF AddPriorityTask, Enqueue, Executor!Accept, Executor!Move
  <2> QED
    BY <2>1 DEF Executor!Next, AllTasks
<1>3. ASSUME NEW k \in DelayTasks, NEW delay \in Delays, DelayTask(k, delay)
      PROVE  [Executor!Next]_status
  <2>1. Executor!Accept(k)
    BY <1>3 DEF DelayTask, Executor!Accept, Executor!Move
  <2> QED
    BY <2>1 DEF Executor!Next, AllTasks
<1>4. ASSUME NEW k \in AllTasks, Refuse(k)
      PROVE  [Executor!Next]_status
  <2>1. Executor!Refuse(k)
    BY <1>4 DEF Refuse, Executor!Refuse, Executor!Move
  <2> QED
    BY <2>1 DEF Executor!Next
<1>5. ASSUME NEW k \in DelayTasks, CancelTask(k)
      PROVE  [Executor!Next]_status
  BY <1>5 DEF CancelTask
<1>6. ASSUME NEW k \in DelayTasks, CancelReturns(k)
      PROVE  [Executor!Next]_status
  BY <1>6, EraseStep DEF CancelReturns
<1>7. ASSUME NEW k \in DelayTasks, CancelNonBlock(k)
      PROVE  [Executor!Next]_status
  BY <1>7, EraseStep DEF CancelNonBlock
<1>8. ASSUME NEW k \in DelayTasks, CancelIsRunning(k)
      PROVE  [Executor!Next]_status
  BY <1>8 DEF CancelIsRunning
<1>9. ASSUME NEW t \in Threads, Wait(t)
      PROVE  [Executor!Next]_status
  BY <1>9 DEF Wait
<1>10. ASSUME NEW t \in Threads, TimeWait(t)
       PROVE  [Executor!Next]_status
  BY <1>10 DEF TimeWait
<1>11. ASSUME NEW t \in Threads, RunDelayed(t)
       PROVE  [Executor!Next]_status
  <2>1. Top.task \in AllTasks /\ status[Top.task] = "accepted"
    BY <1>11 DEF RunDelayed, PoolInv, TypeOK, ItemInv, Item, AllTasks
  <2> QED
    BY <1>11, <2>1, BeginStep DEF RunDelayed, AtTop
<1>12. ASSUME NEW t \in Threads, SkipCancelled(t)
       PROVE  [Executor!Next]_status
  BY <1>12 DEF SkipCancelled
<1>13. ASSUME NEW t \in Threads, RunTask(t)
       PROVE  [Executor!Next]_status
  <2>1. Head(queue) \in AllTasks /\ status[Head(queue)] = "accepted"
    BY <1>13 DEF RunTask, PoolInv, TypeOK, QueueInv, AllTasks
  <2> QED
    BY <1>13, <2>1, BeginStep DEF RunTask, AtTop
<1>14. ASSUME NEW t \in Threads, Relock(t)
       PROVE  [Executor!Next]_status
  BY <1>14 DEF Relock
<1>15. ASSUME NEW t \in Threads, Exit(t)
       PROVE  [Executor!Next]_status
  BY <1>15 DEF Exit
<1>16. ASSUME NEW t \in Threads, TaskReturns(t)
       PROVE  [Executor!Next]_status
  <2>1. task[t] \in AllTasks /\ status[task[t]] = "running"
    BY <1>16 DEF TaskReturns, PoolInv, RunningInv
  <2>2. Executor!Finish(task[t])
    BY <1>16, <2>1 DEF TaskReturns, Executor!Finish, Executor!Move
  <2> QED
    BY <2>1, <2>2 DEF Executor!Next
<1>17. ASSUME NEW t \in Threads, WaitTimesOut(t)
       PROVE  [Executor!Next]_status
  BY <1>17 DEF WaitTimesOut
<1>18. ASSUME NEW t \in Threads, SpuriousWakeup(t)
       PROVE  [Executor!Next]_status
  BY <1>18 DEF SpuriousWakeup
<1>19. CASE ClockTick
  BY <1>19 DEF ClockTick
<1>20. CASE StopWaiting
  BY <1>20 DEF StopWaiting
<1>21. CASE NoTaskPending
  BY <1>21 DEF NoTaskPending
<1>22. CASE StopAtOnce
  BY <1>22 DEF StopAtOnce
<1>23. CASE StopThreads
  BY <1>23 DEF StopThreads
<1>24. CASE Join
  BY <1>24 DEF Join
<1>25. CASE Start
  BY <1>25 DEF Start
<1>26. CASE UNCHANGED vars
  BY <1>26
<1> QED
  BY <1>1, <1>2, <1>3, <1>4, <1>5, <1>6, <1>7, <1>8, <1>9, <1>10, <1>11, <1>12,
     <1>13, <1>14, <1>15, <1>16, <1>17, <1>18, <1>19, <1>20, <1>21, <1>22,
     <1>23, <1>24, <1>25, <1>26
  DEF Next, ThreadProc, Stop

(***************************************************************************)
(* The pool implements the executor: a task is begun at most once, by one  *)
(* thread, and never after CancelTask has taken it.                        *)
(***************************************************************************)
THEOREM PoolImplementsExecutor == Spec => ImplementsExecutor
<1>1. Init => Executor!Init
  BY DEF Init, Executor!Init
<1>2. PoolInv /\ [Next]_vars => [Executor!Next]_status
  BY ExecutorStep
<1> QED
  BY <1>1, <1>2, PoolInvariant, PTL DEF Spec, ImplementsExecutor, Executor!Spec
=============================================================================
