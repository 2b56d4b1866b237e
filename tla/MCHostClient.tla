---------------------------- MODULE MCHostClient ----------------------------
(* Finite instances of HostClient.                                         *)
EXTENDS HostClient
=============================================================================
