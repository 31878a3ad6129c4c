----------------------------- MODULE MCRrpcSystem -----------------------------
(***************************************************************************)
(* The instances of RrpcSystem that TLC checks.  Restarted: two clients    *)
(* with a channel each to a server that may be started twice.  Crossed:    *)
(* one server, which may take the header of one client's request for that  *)
(* of the other's, and a second channel of the first client.               *)
(***************************************************************************)
EXTENDS RrpcSystem

RestartedVia     == [p |-> "a1", r |-> "b1"]
RestartedIds     == [a1 |-> -1, b1 |-> -2, s1 |-> 1, t1 |-> 1]
RestartedTargets == [a1 |-> 1, b1 |-> 1]

CrossedVia     == [p |-> "a1", q |-> "a2", r |-> "b1"]
CrossedIds     == [a1 |-> -1, a2 |-> -1, b1 |-> -2, s1 |-> 1]
CrossedTargets == [a1 |-> 1, a2 |-> 2, b1 |-> 1]
=============================================================================
