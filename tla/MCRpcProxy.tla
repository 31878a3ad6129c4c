------------------------------ MODULE MCRpcProxy ------------------------------
(***************************************************************************)
(* The instances of RpcProxy that TLC checks: a client and two servers; a  *)
(* client and a server that replies.                                       *)
(***************************************************************************)
EXTENDS RpcProxy

TwoServers == [c1 |-> -1, s1 |-> 1, s2 |-> 2]
OneServer  == [c1 |-> -1, s1 |-> 1]

OneRequest       == {[via |-> "c1", dst |-> 1, n |-> 1]}
TwoRequests      == OneRequest \union {[via |-> "c1", dst |-> 1, n |-> 2]}
RequestsAndReply == TwoRequests \union {[via |-> "s1", dst |-> -1, n |-> 1]}
=============================================================================
