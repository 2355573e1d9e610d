-------------------------------- MODULE Delivery -------------------------------
(***************************************************************************)
(* What sending promises of a message, whatever is retried, repeated or    *)
(* abandoned below: it is stored once, and only when the messages before   *)
(* it are confirmed; a private one is stored for both users at once; only  *)
(* what the sender has in his mailbox is confirmed to him; only what every *)
(* mailbox has is pushed to the others, and that once.                     *)
(***************************************************************************)
EXTENDS Naturals

CONSTANT Messages   \* records with a sender, a number and a kind

VARIABLES
    stored,     \* messages in the sender's mailbox
    complete,   \* messages in every mailbox
    confirmed,  \* messages the sender knows to be stored
    pushed      \* messages whose push to the others has started

vars == <<stored, complete, confirmed, pushed>>

Init ==
    /\ stored = {} /\ complete = {}
    /\ confirmed = {} /\ pushed = {}

Store(m) ==
    /\ m \notin stored
    /\ \A e \in stored :
          e.sender = m.sender => e.no < m.no /\ e \in confirmed
    /\ stored' = stored \union {m}
    /\ \/ complete' = complete \union {m}
       \/ m.kind = "group" /\ UNCHANGED complete
    /\ UNCHANGED <<confirmed, pushed>>

Complete(m) ==
    /\ m \in stored
    /\ complete' = complete \union {m}
    /\ UNCHANGED <<stored, confirmed, pushed>>

Push(m) ==
    /\ m \in complete \ pushed
    /\ pushed' = pushed \union {m}

Confirm(m) ==
    /\ m \in stored
    /\ confirmed' = confirmed \union {m}

(* The handler that stored it pushes and answers; one that finds it stored *)
(* answers; one whose caller has gone pushes.                              *)
Report(m) ==
    /\ \/ Push(m) /\ Confirm(m)
       \/ Push(m) /\ UNCHANGED confirmed
       \/ Confirm(m) /\ UNCHANGED pushed
    /\ UNCHANGED <<stored, complete>>

Next == \E m \in Messages : Store(m) \/ Complete(m) \/ Report(m)

Spec == Init /\ [][Next]_vars
================================================================================
