-------------------------------- MODULE LongPoll -------------------------------
(***************************************************************************)
(* What an access server's table promises of PullData: a user has at most  *)
(* one call that waits, the latest; a call leaves the table for one taker, *)
(* who answers it; no call is put back, and until the table closes none is *)
(* answered twice.  A table that closes answers calls that wait in it and  *)
(* leaves them there, so that their takers may answer them again.          *)
(***************************************************************************)
EXTENDS Naturals

CONSTANTS Users, Calls, NoCall

VARIABLES
    waiting,    \* user -> the call that waits, or NoCall
    stage,      \* how far each call is
    answers,    \* how often each call has been answered
    closing     \* the table closes

vars == <<waiting, stage, answers, closing>>

Init ==
    /\ waiting = [u \in Users |-> NoCall]
    /\ stage = [c \in Calls |-> "new"]
    /\ answers = [c \in Calls |-> 0]
    /\ closing = FALSE

Taken(u) == IF waiting[u] = NoCall THEN stage
            ELSE [stage EXCEPT ![waiting[u]] = "taken"]

(* A call waits, in place of the one before it. *)
Poll(u, c) ==
    /\ stage[c] = "new"
    /\ stage' = [Taken(u) EXCEPT ![c] = "waiting"]
    /\ waiting' = [waiting EXCEPT ![u] = c]
    /\ UNCHANGED <<answers, closing>>

(* A message, or the timeout, takes the call out. *)
TakeOut(u) ==
    /\ waiting[u] # NoCall
    /\ stage' = Taken(u)
    /\ waiting' = [waiting EXCEPT ![u] = NoCall]
    /\ UNCHANGED <<answers, closing>>

Answered(c) == answers' = [answers EXCEPT ![c] = @ + 1]

Answer(c) ==
    /\ stage[c] = "taken"
    /\ stage' = [stage EXCEPT ![c] = "answered"]
    /\ Answered(c)
    /\ UNCHANGED <<waiting, closing>>

Close ==
    /\ ~closing
    /\ closing' = TRUE
    /\ UNCHANGED <<waiting, stage, answers>>

(* The table that closes answers a call, which stays in it. *)
ClosingAnswers(u) ==
    /\ closing
    /\ waiting[u] # NoCall
    /\ Answered(waiting[u])
    /\ UNCHANGED <<waiting, stage, closing>>

Next ==
    \/ \E u \in Users : TakeOut(u) \/ ClosingAnswers(u)
    \/ \E u \in Users, c \in Calls : Poll(u, c)
    \/ \E c \in Calls : Answer(c)
    \/ Close

(* Until the table closes, whoever takes a call answers it. *)
Spec == Init /\ [][Next]_vars /\ (\A c \in Calls : WF_vars(~closing /\ Answer(c)))
================================================================================
