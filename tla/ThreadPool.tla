------------------------------ MODULE ThreadPool ------------------------------
(***************************************************************************)
(* baidu::common::ThreadPool (thread_pool.h) on its Mutex and CondVar      *)
(* (mutex.h).                                                              *)
(*                                                                         *)
(* What a thread does between taking mutex_ and releasing it (in Unlock or *)
(* by waiting on work_cv_) is one step: everything it touches there is     *)
(* touched by others under mutex_ only.  The exception is pending_num_,    *)
(* which Stop polls without it.  The sums kept for ProfilingLog are left   *)
(* out.                                                                    *)
(***************************************************************************)
EXTENDS Integers, Sequences, FiniteSets

CONSTANTS
  Threads,     \* the threads_num_ threads of the pool
  Tasks,       \* tasks given to AddTask or AddPriorityTask
  DelayTasks,  \* tasks given to DelayTask
  Delays,      \* the delays, in ms
  Tick,        \* the clock's resolution: ticks per ms
  MaxTime,     \* bound: the last tick of the clock
  None         \* no task, no item

AllTasks == Tasks \union DelayTasks

ASSUME PoolAssumption ==
  /\ Threads # {} /\ IsFiniteSet(Threads)
  /\ Tasks \intersect DelayTasks = {} /\ IsFiniteSet(AllTasks)
  /\ Delays \subseteq Nat
  /\ Tick \in Nat \ {0}
  /\ MaxTime \in Nat
  /\ None \notin AllTasks

VARIABLES
  now,
  \* The pool
  queue, pending_num, time_queue,
  latest,           \* the items of latest_
  last_task_id, running_task_id, stop,
  thread,           \* where each thread is
  task,             \* the task or the item each thread has taken
  until,            \* when the wait of each thread times out
  \* Its users
  idOf,             \* what DelayTask has returned for each delayed task
  stopper,          \* where the thread that calls Stop is
  promised,         \* the tasks pending when Stop(true) was called
  cancel,           \* what CancelTask has told of each delayed task
  status            \* what has become of each task

taskVars == <<queue, pending_num, time_queue, latest, last_task_id>>
userVars == <<idOf, stopper, promised, cancel>>
vars     == <<now, taskVars, running_task_id, stop, thread, task, until,
              userVars, status>>

Init ==
  /\ now = 0
  /\ queue = <<>> /\ pending_num = 0 /\ time_queue = {} /\ latest = {}
  /\ last_task_id = 0 /\ running_task_id = 0 /\ stop = FALSE
  /\ thread = [t \in Threads |-> "ready"]
  /\ task = [t \in Threads |-> None]
  /\ until = [t \in Threads |-> 0]
  /\ idOf = [k \in DelayTasks |-> 0]
  /\ stopper = "none" /\ promised = {}
  /\ cancel = [k \in DelayTasks |-> "none"]
  /\ status = [k \in AllTasks |-> "new"]

-----------------------------------------------------------------------------
(***************************************************************************)
(* The condition variable.  Signal wakes one of the threads that wait, in  *)
(* Wait or in TimeWait, if there is any.                                   *)
(***************************************************************************)
Sleeping == {t \in Threads : thread[t] \in {"wait", "timewait"}}

Signal ==
  IF Sleeping = {}
    THEN thread' = thread
    ELSE \E t \in Sleeping : thread' = [thread EXCEPT ![t] = "ready"]

Broadcast ==
  thread' = [t \in Threads |-> IF t \in Sleeping THEN "ready" ELSE thread[t]]

WaitTimesOut(t) ==
  /\ thread[t] = "timewait"
  /\ now >= until[t]
  /\ thread' = [thread EXCEPT ![t] = "ready"]
  /\ UNCHANGED <<now, taskVars, running_task_id, stop, task, until, userVars,
                 status>>

SpuriousWakeup(t) ==
  /\ t \in Sleeping
  /\ thread' = [thread EXCEPT ![t] = "ready"]
  /\ UNCHANGED <<now, taskVars, running_task_id, stop, task, until, userVars,
                 status>>

ClockTick ==
  /\ now < MaxTime
  /\ now' = now + 1
  /\ UNCHANGED <<taskVars, running_task_id, stop, thread, task, until,
                 userVars, status>>

-----------------------------------------------------------------------------
(***************************************************************************)
(* AddTask, AddPriorityTask and DelayTask: a pool that is stopped takes    *)
(* nothing and says nothing.                                               *)
(***************************************************************************)
Refuse(k) ==
  /\ status[k] = "new"
  /\ stop
  /\ status' = [status EXCEPT ![k] = "refused"]
  /\ UNCHANGED <<now, taskVars, running_task_id, stop, thread, task, until,
                 userVars>>

Enqueue(k, newQueue) ==
  /\ status[k] = "new"
  /\ ~stop
  /\ status' = [status EXCEPT ![k] = "accepted"]
  /\ queue' = newQueue
  /\ pending_num' = pending_num + 1
  /\ Signal
  /\ UNCHANGED <<now, time_queue, latest, last_task_id, running_task_id, stop,
                 task, until, userVars>>

\* Mutant: work_cv_.Signal is missing.
AddTaskSilent(k) ==
  /\ status[k] = "new"
  /\ ~stop
  /\ status' = [status EXCEPT ![k] = "accepted"]
  /\ queue' = Append(queue, k)
  /\ pending_num' = pending_num + 1
  /\ UNCHANGED <<now, time_queue, latest, last_task_id, running_task_id, stop,
                 thread, task, until, userVars>>

\* Mutant: ++pending_num_ is missing.
AddPriorityTaskUncounted(k) ==
  /\ status[k] = "new"
  /\ ~stop
  /\ status' = [status EXCEPT ![k] = "accepted"]
  /\ queue' = <<k>> \o queue
  /\ Signal
  /\ UNCHANGED <<now, pending_num, time_queue, latest, last_task_id,
                 running_task_id, stop, task, until, userVars>>

AddTask(k) == Enqueue(k, Append(queue, k))
AddPriorityTask(k) == Enqueue(k, <<k>> \o queue)

\* Mutant: work_cv_.Signal is missing.
DelayTaskSilent(k, delay) ==
  LET item == [id |-> last_task_id + 1, exe_time |-> now + delay * Tick,
               task |-> k]
  IN /\ status[k] = "new"
     /\ ~stop
     /\ item.exe_time <= MaxTime
     /\ status' = [status EXCEPT ![k] = "accepted"]
     /\ last_task_id' = item.id
     /\ time_queue' = time_queue \union {item}
     /\ latest' = latest \union {item}
     /\ idOf' = [idOf EXCEPT ![k] = item.id]
     /\ UNCHANGED <<now, queue, pending_num, running_task_id, stop, thread,
                    task, until, stopper, promised, cancel>>

DelayTask(k, delay) ==
  LET item == [id |-> last_task_id + 1, exe_time |-> now + delay * Tick,
               task |-> k]
  IN /\ status[k] = "new"
     /\ ~stop
     /\ item.exe_time <= MaxTime
     /\ status' = [status EXCEPT ![k] = "accepted"]
     /\ last_task_id' = item.id
     /\ time_queue' = time_queue \union {item}
     /\ latest' = latest \union {item}
     /\ idOf' = [idOf EXCEPT ![k] = item.id]
     /\ Signal
     /\ UNCHANGED <<now, queue, pending_num, running_task_id, stop, task,
                    until, stopper, promised, cancel>>

-----------------------------------------------------------------------------
(***************************************************************************)
(* ThreadProc.  The first item of time_queue is due when the milliseconds  *)
(* left of its delay, rounded down, are none.                              *)
(***************************************************************************)
Top ==
  CHOOSE i \in time_queue :
    \A j \in time_queue :
      \/ i.exe_time < j.exe_time
      \/ i.exe_time = j.exe_time /\ i.id <= j.id

WaitTime == (Top.exe_time - now) \div Tick
Due      == time_queue # {} /\ WaitTime <= 0

AtTop(t) == thread[t] = "ready" /\ ~stop

\* Mutant: the loop condition forgets time_queue_.
WaitUntimed(t) ==
  /\ AtTop(t)
  /\ queue = <<>>
  /\ thread' = [thread EXCEPT ![t] = "wait"]
  /\ UNCHANGED <<now, taskVars, running_task_id, stop, task, until, userVars,
                 status>>

Wait(t) ==
  /\ AtTop(t)
  /\ time_queue = {}
  /\ queue = <<>>
  /\ thread' = [thread EXCEPT ![t] = "wait"]
  /\ UNCHANGED <<now, taskVars, running_task_id, stop, task, until, userVars,
                 status>>

TimeWait(t) ==
  /\ AtTop(t)
  /\ time_queue # {}
  /\ ~Due
  /\ queue = <<>>
  /\ thread' = [thread EXCEPT ![t] = "timewait"]
  /\ until' = [until EXCEPT ![t] = now + WaitTime * Tick]
  /\ UNCHANGED <<now, taskVars, running_task_id, stop, task, userVars, status>>

\* Mutant: the item is not looked up in latest_.
RunDelayedUnchecked(t) ==
  /\ AtTop(t)
  /\ Due
  /\ time_queue' = time_queue \ {Top}
  /\ latest' = latest \ {Top}
  /\ running_task_id' = Top.id
  /\ thread' = [thread EXCEPT ![t] = "running"]
  /\ task' = [task EXCEPT ![t] = Top.task]
  /\ status' = [status EXCEPT ![Top.task] = "running"]
  /\ UNCHANGED <<now, queue, pending_num, last_task_id, stop, until, userVars>>

RunDelayed(t) ==
  /\ AtTop(t)
  /\ Due
  /\ Top \in latest
  /\ time_queue' = time_queue \ {Top}
  /\ latest' = latest \ {Top}
  /\ running_task_id' = Top.id
  /\ thread' = [thread EXCEPT ![t] = "running"]
  /\ task' = [task EXCEPT ![t] = Top.task]
  /\ status' = [status EXCEPT ![Top.task] = "running"]
  /\ UNCHANGED <<now, queue, pending_num, last_task_id, stop, until, userVars>>

\* The item of a task that was cancelled: popped, and the loop continues.
SkipCancelled(t) ==
  /\ AtTop(t)
  /\ Due
  /\ Top \notin latest
  /\ time_queue' = time_queue \ {Top}
  /\ UNCHANGED <<now, queue, pending_num, latest, last_task_id,
                 running_task_id, stop, thread, task, until, userVars, status>>

RunTask(t) ==
  /\ AtTop(t)
  /\ ~Due
  /\ queue # <<>>
  /\ queue' = Tail(queue)
  /\ pending_num' = pending_num - 1
  /\ thread' = [thread EXCEPT ![t] = "running"]
  /\ task' = [task EXCEPT ![t] = Head(queue)]
  /\ status' = [status EXCEPT ![Head(queue)] = "running"]
  /\ UNCHANGED <<now, time_queue, latest, last_task_id, running_task_id, stop,
                 until, userVars>>

\* task() returns; the thread has yet to lock mutex_ again.
TaskReturns(t) ==
  /\ thread[t] = "running"
  /\ thread' = [thread EXCEPT ![t] = "relock"]
  /\ status' = [status EXCEPT ![task[t]] = "done"]
  /\ UNCHANGED <<now, taskVars, running_task_id, stop, task, until, userVars>>

\* Mutant: running_task_id_ = 0 is missing.
RelockKept(t) ==
  /\ thread[t] = "relock"
  /\ thread' = [thread EXCEPT ![t] = "ready"]
  /\ task' = [task EXCEPT ![t] = None]
  /\ UNCHANGED <<now, taskVars, running_task_id, stop, until, userVars, status>>

Relock(t) ==
  /\ thread[t] = "relock"
  /\ thread' = [thread EXCEPT ![t] = "ready"]
  /\ task' = [task EXCEPT ![t] = None]
  /\ running_task_id' = IF task[t] \in DelayTasks THEN 0 ELSE running_task_id
  /\ UNCHANGED <<now, taskVars, stop, until, userVars, status>>

Exit(t) ==
  /\ thread[t] = "ready"
  /\ stop
  /\ thread' = [thread EXCEPT ![t] = "exited"]
  /\ UNCHANGED <<now, taskVars, running_task_id, stop, task, until, userVars,
                 status>>

ThreadProc(t) ==
  \/ Wait(t) \/ TimeWait(t) \/ RunDelayed(t) \/ SkipCancelled(t)
  \/ RunTask(t) \/ Relock(t) \/ Exit(t)

-----------------------------------------------------------------------------
(***************************************************************************)
(* CancelTask, with the id DelayTask has returned (0 if it was refused): a *)
(* caller that may block polls as long as running_task_id_ is that id, one *)
(* that may not is told that the task is running.                          *)
(***************************************************************************)
Erase(k, hit, miss) ==
  LET found == {i \in latest : i.id = idOf[k]} IN
  /\ idOf[k] = 0 \/ running_task_id # idOf[k]
  /\ latest' = latest \ found
  /\ IF found = {}
       THEN /\ cancel' = [cancel EXCEPT ![k] = miss]
            /\ UNCHANGED status
       ELSE /\ cancel' = [cancel EXCEPT ![k] = hit]
            /\ status' = [status EXCEPT ![k] = "cancelled"]
  /\ UNCHANGED <<now, queue, pending_num, time_queue, last_task_id,
                 running_task_id, stop, thread, task, until, idOf, stopper,
                 promised>>

CancelTask(k) ==
  /\ cancel[k] = "none"
  /\ status[k] # "new"
  /\ cancel' = [cancel EXCEPT ![k] = "waiting"]
  /\ UNCHANGED <<now, taskVars, running_task_id, stop, thread, task, until,
                 idOf, stopper, promised, status>>

CancelReturns(k) ==
  /\ cancel[k] = "waiting"
  /\ Erase(k, "true", "false")

CancelNonBlock(k) ==
  /\ cancel[k] = "none"
  /\ status[k] # "new"
  /\ Erase(k, "erased", "missed")

CancelIsRunning(k) ==
  /\ cancel[k] = "none"
  /\ idOf[k] # 0
  /\ running_task_id = idOf[k]
  /\ cancel' = [cancel EXCEPT ![k] = "running"]
  /\ UNCHANGED <<now, taskVars, running_task_id, stop, thread, task, until,
                 idOf, stopper, promised, status>>

-----------------------------------------------------------------------------
(***************************************************************************)
(* Stop, called by the owner of the pool: Stop(true) first polls           *)
(* pending_num_.  Start starts a pool that was stopped.                    *)
(***************************************************************************)
StopWaiting ==
  /\ stopper = "none"
  /\ stopper' = "polling"
  /\ promised' = {k \in AllTasks : status[k] \in {"accepted", "running"}}
  /\ UNCHANGED <<now, taskVars, running_task_id, stop, thread, task, until,
                 idOf, cancel, status>>

\* Mutant: the loop is while (pending_num_ > 1).
NoTaskPendingButOne ==
  /\ stopper = "polling"
  /\ pending_num <= 1
  /\ stopper' = "stopping"
  /\ UNCHANGED <<now, taskVars, running_task_id, stop, thread, task, until,
                 idOf, promised, cancel, status>>

NoTaskPending ==
  /\ stopper = "polling"
  /\ pending_num = 0
  /\ stopper' = "stopping"
  /\ UNCHANGED <<now, taskVars, running_task_id, stop, thread, task, until,
                 idOf, promised, cancel, status>>

StopAtOnce ==
  /\ stopper = "none"
  /\ stopper' = "stopping"
  /\ promised' = {}
  /\ UNCHANGED <<now, taskVars, running_task_id, stop, thread, task, until,
                 idOf, cancel, status>>

\* Mutant: work_cv_.Signal where Broadcast is needed.
StopThreadsSignal ==
  /\ stopper = "stopping"
  /\ stop' = TRUE
  /\ Signal
  /\ stopper' = "joining"
  /\ UNCHANGED <<now, taskVars, running_task_id, task, until, idOf, promised,
                 cancel, status>>

StopThreads ==
  /\ stopper = "stopping"
  /\ stop' = TRUE
  /\ Broadcast
  /\ stopper' = "joining"
  /\ UNCHANGED <<now, taskVars, running_task_id, task, until, idOf, promised,
                 cancel, status>>

Join ==
  /\ stopper = "joining"
  /\ \A t \in Threads : thread[t] = "exited"
  /\ stopper' = "stopped"
  /\ UNCHANGED <<now, taskVars, running_task_id, stop, thread, task, until,
                 idOf, promised, cancel, status>>

Start ==
  /\ stopper = "stopped"
  /\ stop' = FALSE
  /\ thread' = [t \in Threads |-> "ready"]
  /\ stopper' = "none"
  /\ UNCHANGED <<now, taskVars, running_task_id, task, until, idOf, promised,
                 cancel, status>>

Stop == StopWaiting \/ NoTaskPending \/ StopAtOnce \/ StopThreads \/ Join

-----------------------------------------------------------------------------
Next ==
  \/ \E k \in Tasks : AddTask(k) \/ AddPriorityTask(k)
  \/ \E k \in DelayTasks, delay \in Delays : DelayTask(k, delay)
  \/ \E k \in AllTasks : Refuse(k)
  \/ \E k \in DelayTasks :
       CancelTask(k) \/ CancelReturns(k) \/ CancelNonBlock(k) \/ CancelIsRunning(k)
  \/ \E t \in Threads :
       ThreadProc(t) \/ TaskReturns(t) \/ WaitTimesOut(t) \/ SpuriousWakeup(t)
  \/ ClockTick
  \/ Stop
  \/ Start

Spec == Init /\ [][Next]_vars

(***************************************************************************)
(* The threads are scheduled, tasks return, the clock advances, waits time *)
(* out, and a Stop or CancelTask that was called goes on.  Nobody has to   *)
(* call them, and no wakeup is owed that was not signalled.                *)
(***************************************************************************)
FairSpec ==
  /\ Spec
  /\ \A t \in Threads :
       /\ WF_vars(ThreadProc(t))
       /\ WF_vars(TaskReturns(t))
       /\ WF_vars(WaitTimesOut(t))
  /\ WF_vars(ClockTick)
  /\ WF_vars(NoTaskPending \/ StopThreads \/ Join)
  /\ \A k \in DelayTasks : WF_vars(CancelReturns(k))

-----------------------------------------------------------------------------
Item == [id : Nat, exe_time : 0 .. MaxTime, task : DelayTasks]

TypeOK ==
  /\ now \in 0 .. MaxTime
  /\ queue \in Seq(Tasks)
  /\ pending_num \in Nat
  /\ time_queue \subseteq Item
  /\ latest \subseteq Item
  /\ last_task_id \in Nat
  /\ running_task_id \in Nat
  /\ stop \in BOOLEAN
  /\ thread \in [Threads -> {"ready", "wait", "timewait", "running", "relock",
                             "exited"}]
  /\ task \in [Threads -> AllTasks \union {None}]
  /\ until \in [Threads -> 0 .. MaxTime]
  /\ idOf \in [DelayTasks -> Nat]
  /\ stopper \in {"none", "polling", "stopping", "joining", "stopped"}
  /\ promised \subseteq AllTasks
  /\ cancel \in [DelayTasks -> {"none", "waiting", "true", "false", "erased",
                             "missed", "running"}]
  /\ status \in [AllTasks -> {"new", "accepted", "refused", "running", "done",
                              "cancelled"}]

(***************************************************************************)
(* The pool implements an executor: however the threads, the clock and the *)
(* cancellations interleave, a task is run at most once and by one thread, *)
(* and never once CancelTask has returned true, though its item stays in   *)
(* time_queue_.                                                            *)
(***************************************************************************)
Executor == INSTANCE TaskExecutor WITH Tasks <- AllTasks, Workers <- Threads

ImplementsExecutor == Executor!Spec

(***************************************************************************)
(* When Stop(true) has returned, every task that was waiting in queue_ or  *)
(* running when it was called has completed, although pending_num_ does    *)
(* not count the tasks that run.                                           *)
(***************************************************************************)
StopCompletesQueued ==
  stopper = "stopped" => \A k \in promised \intersect Tasks : status[k] = "done"

(***************************************************************************)
(* A task in queue_ never finds all threads asleep: one of them has been   *)
(* woken, or is busy and will look at queue_ before it sleeps.             *)
(***************************************************************************)
NoLostWakeup ==
  queue # <<>> /\ ~stop => Sleeping # Threads

(***************************************************************************)
(* While no thread runs a task, the thread that would be the first to be   *)
(* woken for a delayed task does not sleep past its time.                  *)
(***************************************************************************)
DelayedIsWatched ==
  time_queue # {} /\ ~stop /\ Sleeping = Threads =>
    \E t \in Threads : thread[t] = "timewait" /\ until[t] <= Top.exe_time

(***************************************************************************)
(* Every task that was accepted is run, or cancelled, or the pool is       *)
(* stopped.                                                                *)
(***************************************************************************)
EveryTaskRuns ==
  \A k \in AllTasks : status[k] = "accepted" ~> status[k] # "accepted" \/ stop

(***************************************************************************)
(* A Stop that was called returns: the polling of pending_num_ ends when   *)
(* no more tasks are added, and each of the threads, asleep or in a task,  *)
(* sees stop_.                                                             *)
(***************************************************************************)
StopReturns == stopper \in {"polling", "stopping"} ~> stopper = "stopped"

(***************************************************************************)
(* A CancelTask that waits for its task returns: running_task_id_ does not *)
(* name a task for longer than it runs.                                    *)
(***************************************************************************)
CancelReturnsAtLast ==
  \A k \in DelayTasks : cancel[k] = "waiting" ~> cancel[k] \in {"true", "false"}

(***************************************************************************)
(* What the comment on CancelTask promises: a caller that may block does   *)
(* not return while the task runs.                                         *)
(***************************************************************************)
CancelWaits ==
  \A k \in DelayTasks : cancel[k] \in {"true", "false"} => status[k] # "running"
=============================================================================
