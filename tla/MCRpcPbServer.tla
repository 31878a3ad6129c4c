---------------------------- MODULE MCRpcPbServer ----------------------------
(***************************************************************************)
(* The instance of RpcPbServer that TLC checks.                            *)
(***************************************************************************)
EXTENDS RpcPbServer
=============================================================================
