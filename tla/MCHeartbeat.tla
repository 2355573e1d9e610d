------------------------------ MODULE MCHeartbeat ------------------------------
(***************************************************************************)
(* Heartbeat in units of 100 seconds: its instances need no definitions of *)
(* their own.                                                              *)
(***************************************************************************)
EXTENDS Heartbeat
================================================================================
