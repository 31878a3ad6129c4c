---------------------------- MODULE SerialService ----------------------------
(***************************************************************************)
(* What a server promises the services it hosts: requests are executed one *)
(* at a time, each at most once, and a request is answered at most once,   *)
(* before the next is executed.                                            *)
(***************************************************************************)
CONSTANT Requests

VARIABLES executed, answered

Init == executed = {} /\ answered = {}

Execute(r) ==
  /\ r \notin executed
  /\ executed = answered
  /\ executed' = executed \union {r}
  /\ UNCHANGED answered

Answer(r) ==
  /\ r \in executed \ answered
  /\ answered' = answered \union {r}
  /\ UNCHANGED executed

Next == \E r \in Requests : Execute(r) \/ Answer(r)

Spec == Init /\ [][Next]_<<executed, answered>>
=============================================================================
