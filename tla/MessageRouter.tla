---------------------------- MODULE MessageRouter ----------------------------
(***************************************************************************)
(* What a proxy promises: a message that a peer has sent is delivered at   *)
(* most once, to a connection that announced its destination; or it is     *)
(* dropped; or it is lost with the connection it was sent on.              *)
(***************************************************************************)
CONSTANTS Conns, Messages, Announces, Null

VARIABLES fate, receiver

Init ==
  /\ fate = [m \in Messages |-> "new"]
  /\ receiver = [m \in Messages |-> Null]

Send(m) ==
  /\ fate[m] = "new"
  /\ fate' = [fate EXCEPT ![m] = "sent"]
  /\ UNCHANGED receiver

Deliver(m, c) ==
  /\ fate[m] = "sent"
  /\ Announces[c] = m.dst
  /\ fate' = [fate EXCEPT ![m] = "delivered"]
  /\ receiver' = [receiver EXCEPT ![m] = c]

Drop(m) ==
  /\ fate[m] = "sent"
  /\ fate' = [fate EXCEPT ![m] = "dropped"]
  /\ UNCHANGED receiver

\* The messages of one connection may be lost together.
Lose(c) ==
  /\ \E M \in SUBSET {m \in Messages : m.via = c /\ fate[m] = "sent"} :
       fate' = [m \in Messages |-> IF m \in M THEN "lost" ELSE fate[m]]
  /\ UNCHANGED receiver

Next ==
  \/ \E m \in Messages :
       Send(m) \/ Drop(m) \/ \E c \in Conns : Deliver(m, c)
  \/ \E c \in Conns : Lose(c)

Spec == Init /\ [][Next]_<<fate, receiver>>
=============================================================================
