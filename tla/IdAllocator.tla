------------------------------ MODULE IdAllocator ------------------------------
(***************************************************************************)
(* What the message-id service promises its callers (README.md, "idgen"):  *)
(* the ids handed out for one user need not be consecutive, but they only  *)
(* ever increase.  A restart may take the promise back for some users.     *)
(***************************************************************************)
EXTENDS Naturals

CONSTANT Users

VARIABLES
    grant,      \* per user, the latest range of ids handed out (the nth)
    exposed     \* users whose ids may repeat

vars == <<grant, exposed>>

Init ==
    /\ grant = [u \in Users |-> [nth |-> 0, first |-> 0, last |-> 0]]
    /\ exposed = {}

(* Handing out the next range: ids in order, and above everything handed   *)
(* out for the user before.                                                *)
Allocate(u) ==
    /\ grant' = [grant EXCEPT ![u] = grant'[u]]
    /\ grant'[u].nth = grant[u].nth + 1
    /\ grant'[u].last >= grant'[u].first
    /\ u \in exposed \/ grant'[u].first > grant[u].last
    /\ UNCHANGED exposed

Restart ==
    /\ exposed' \in SUBSET Users
    /\ exposed \subseteq exposed'
    /\ UNCHANGED grant

Next == (\E u \in Users : Allocate(u)) \/ Restart

Spec == Init /\ [][Next]_vars
================================================================================
