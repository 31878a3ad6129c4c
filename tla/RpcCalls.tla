------------------------------- MODULE RpcCalls -------------------------------
(***************************************************************************)
(* What rrpc promises the application: a call is answered at most once,    *)
(* successfully only if a server executed it, or with a message that       *)
(* answers no request of the client; such a message can be taken for the   *)
(* answer to one call at most.  A call that has failed may still be        *)
(* executed: its request is not taken back.                                *)
(***************************************************************************)
CONSTANTS
  Calls,
  Foreign    \* the messages that answer no request of the client

VARIABLES
  status,    \* what the application knows of each call
  executed,  \* the calls a server has executed
  spent      \* the foreign messages that were taken for answers

vars == <<status, executed, spent>>

Init ==
  /\ status = [c \in Calls |-> "idle"]
  /\ executed = {}
  /\ spent = {}

Invoke(c) ==
  /\ status[c] = "idle"
  /\ status' = [status EXCEPT ![c] = "open"]
  /\ UNCHANGED <<executed, spent>>

Execute(c) ==
  /\ status[c] # "idle"
  /\ executed' = executed \union {c}
  /\ UNCHANGED <<status, spent>>

Succeed(c) ==
  /\ status[c] = "open"
  /\ c \in executed
  /\ status' = [status EXCEPT ![c] = "ok"]
  /\ UNCHANGED <<executed, spent>>

SucceedAstray(c, m) ==
  /\ status[c] = "open"
  /\ m \notin spent
  /\ status' = [status EXCEPT ![c] = "ok"]
  /\ spent' = spent \union {m}
  /\ UNCHANGED executed

Fail(c) ==
  /\ status[c] = "open"
  /\ status' = [status EXCEPT ![c] = "failed"]
  /\ UNCHANGED <<executed, spent>>

Next ==
  \E c \in Calls :
    \/ Invoke(c) \/ Execute(c) \/ Succeed(c) \/ Fail(c)
    \/ \E m \in Foreign : SucceedAstray(c, m)

Spec == Init /\ [][Next]_vars
=============================================================================
