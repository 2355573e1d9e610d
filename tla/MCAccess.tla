-------------------------------- MODULE MCAccess -------------------------------
(***************************************************************************)
(* Access on small instances: one user, a few timers and calls.            *)
(***************************************************************************)
EXTENDS Access, TLC

(* Calls are numbered as they come.  Their names mean nothing, so every    *)
(* behaviour is one of these up to renaming.                               *)
CallsInOrder ==
    \A c, d \in Calls :
        c < d /\ pull[c].stage = "new" => pull[d].stage = "new"
================================================================================
