-------------------------- MODULE MCChannelConnection --------------------------
(***************************************************************************)
(* The instance of ChannelConnection that TLC checks.                      *)
(***************************************************************************)
EXTENDS ChannelConnection
=============================================================================
