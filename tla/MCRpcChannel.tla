----------------------------- MODULE MCRpcChannel -----------------------------
(***************************************************************************)
(* The instances of RpcChannel that TLC checks.                            *)
(***************************************************************************)
EXTENDS RpcChannel
=============================================================================
