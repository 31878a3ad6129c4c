----------------------------- MODULE TaskExecutor -----------------------------
(***************************************************************************)
(* What a thread pool promises: a task it has accepted is begun at most    *)
(* once, by one of its workers, and never after it has been cancelled.     *)
(***************************************************************************)
EXTENDS Naturals, FiniteSets

CONSTANTS Tasks, Workers

VARIABLE status

Statuses == {"new", "accepted", "refused", "running", "done", "cancelled"}

Init == status = [k \in Tasks |-> "new"]

Move(k, from, to) ==
  /\ status[k] = from
  /\ status' = [status EXCEPT ![k] = to]

Accept(k) == Move(k, "new", "accepted")
Refuse(k) == Move(k, "new", "refused")
Cancel(k) == Move(k, "accepted", "cancelled")
Finish(k) == Move(k, "running", "done")

Begin(k) ==
  /\ Cardinality({j \in Tasks : status[j] = "running"}) < Cardinality(Workers)
  /\ Move(k, "accepted", "running")

Next == \E k \in Tasks : Accept(k) \/ Refuse(k) \/ Cancel(k) \/ Begin(k) \/ Finish(k)

Spec == Init /\ [][Next]_status
=============================================================================
