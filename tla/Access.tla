--------------------------------- MODULE Access --------------------------------
(***************************************************************************)
(* The access server's table of connected users.  An entry holds the       *)
(* closure of the PullData call that waits for messages, the heartbeat     *)
(* timer, and the argument block of a timer.  Everything but Clear works   *)
(* under the bucket's mutex, so a locked section is one step here; timer   *)
(* handlers run on their own and wait for the mutex, and closures are run  *)
(* after it is released.                                                   *)
(***************************************************************************)
EXTENDS Naturals, FiniteSets

CONSTANTS
    Users,
    Calls,          \* calls of PullData, each with its own closure
    NoCall,         \* a null closure
    MaxTimers,      \* bound: timers armed
    MaxStops        \* bound: 1 when the process may be asked to quit

ASSUME AccessAssumption ==
    /\ Users # {}
    /\ NoCall \notin Calls
    /\ MaxTimers \in Nat
    /\ MaxStops \in {0, 1}

(* Timer n is armed with an argument block of its own, block n; 0 is none. *)
Timers == 1 .. MaxTimers

VARIABLES
    entry,      \* id_map_: the table
    timer,      \* the timers, what armed them and how far they are
    armed,      \* how many timers have been armed
    deletes,    \* how often block n has been deleted
    pull,       \* the PullData calls
    runs,       \* how often the closure of a call has been run
    visit,      \* how far Clear is with each entry
    stops,      \* times the process was asked to quit
    crashed     \* Clear went through a pointer that is null or dangling

vars == <<entry, timer, armed, deletes, pull, runs, visit, stops, crashed>>
stopping == <<visit, stops, crashed>>

Absent == [present |-> FALSE, done |-> NoCall, timer |-> 0, arg |-> 0]

Init ==
    /\ entry = [u \in Users |-> Absent]
    /\ timer = [n \in Timers |->
                  [stage |-> "new", by |-> "none", user |-> CHOOSE u \in Users : TRUE]]
    /\ armed = 0
    /\ deletes = [n \in Timers |-> 0]
    /\ pull = [c \in Calls |-> [stage |-> "new", user |-> CHOOSE u \in Users : TRUE]]
    /\ runs = [c \in Calls |-> 0]
    /\ visit = [u \in Users |-> "no"]
    /\ stops = 0
    /\ crashed = FALSE

(* bthread_timer_del returns 0: the timer had not started to run. *)
Cancels(u) ==
    /\ entry[u].present /\ entry[u].timer # 0
    /\ timer[entry[u].timer].stage = "pending"

(* Mutant: the block of a cancelled timer is forgotten. *)
NoBlock(u) == {}

(* What a cancelled timer costs: the recorded block is deleted (deleting   *)
(* the null block does nothing).                                           *)
Deleted(blocks) == [n \in Timers |-> IF n \in blocks THEN deletes[n] + 1 ELSE deletes[n]]

RecordedBlock(u) == IF Cancels(u) THEN {entry[u].arg} ELSE {}

(* Cancel the entry's timer if it can be, and arm the next one. *)
Rearm(u, by) ==
    /\ armed < MaxTimers
    /\ armed' = armed + 1
    /\ timer' = [n \in Timers |->
                   IF n = armed + 1
                   THEN [stage |-> "pending", by |-> by, user |-> u]
                   ELSE IF Cancels(u) /\ n = entry[u].timer
                        THEN [timer[n] EXCEPT !.stage = "gone"]
                        ELSE timer[n]]
    /\ deletes' = Deleted(RecordedBlock(u))

(* HeartBeat, and SendMsg on its way to logic. *)
ResetHeartBeatTimer(u) ==
    /\ Rearm(u, "heartbeat")
    /\ entry' = [entry EXCEPT ![u] =
                   [@ EXCEPT !.present = TRUE, !.timer = armed + 1, !.arg = armed + 1]]
    /\ UNCHANGED <<pull, runs, stopping>>

(* Mutant: the closure is dropped. *)
TakeNothing(u, p) == p

(* The closure in the entry goes to whoever took it, to be run later. *)
Take(u, p) ==
    IF entry[u].done = NoCall THEN p
    ELSE [p EXCEPT ![entry[u].done].stage = "taken"]

(* PullData: the call's closure replaces the one that waits, which is run  *)
(* without messages.  The block of the new timer is not recorded, and the  *)
(* recorded one goes only when its timer is cancelled.                     *)
KeptBlock(u) == IF Cancels(u) THEN 0 ELSE entry[u].arg

(* Mutant: the new timer is not recorded. *)
OldTimer(u)      == entry[u].timer
RecordedTimer(u) == armed + 1

PushClosureAndReply(u, c) ==
    /\ pull[c].stage = "new"
    /\ Rearm(u, "pull")
    /\ pull' = [Take(u, pull) EXCEPT ![c] = [stage |-> "waiting", user |-> u]]
    /\ entry' = [entry EXCEPT ![u] =
                   [present |-> TRUE, done |-> c, timer |-> RecordedTimer(u),
                    arg |-> KeptBlock(u)]]
    /\ UNCHANGED <<runs, stopping>>

(* Mutants: the entry is erased, with or without what it holds (the line   *)
(* access_service.cc:342 has commented out); the closure stays in it.      *)
PopErases(u)    == Absent
PopHides(u)     == [entry[u] EXCEPT !.present = FALSE]
PopKeepsDone(u) == entry[u]
AfterPop(u)     == [entry[u] EXCEPT !.done = NoCall]

(* SendtoAccess finds a call that waits; otherwise the message is dropped  *)
(* and nothing changes.                                                    *)
PopClosureAndReply(u) ==
    /\ entry[u].done # NoCall
    /\ pull' = Take(u, pull)
    /\ entry' = [entry EXCEPT ![u] = AfterPop(u)]
    /\ UNCHANGED <<timer, armed, deletes, runs, stopping>>

(* A closure that was taken is run: the call is answered. *)
Run(c) ==
    /\ pull[c].stage = "taken"
    /\ pull' = [pull EXCEPT ![c].stage = "answered"]
    /\ runs' = [runs EXCEPT ![c] = @ + 1]
    /\ UNCHANGED <<entry, timer, armed, deletes, stopping>>

(* The timer thread starts the handler. *)
TimerFires(n) ==
    /\ timer[n].stage = "pending"
    /\ timer' = [timer EXCEPT ![n].stage = "fired"]
    /\ UNCHANGED <<entry, armed, deletes, pull, runs, stopping>>

(* UserHeartBeatTimeoutHeadler reads the user out of its block. *)
TimerReadsBlock(n) ==
    /\ timer[n].stage = "fired"
    /\ timer' = [timer EXCEPT ![n].stage = "clearing"]
    /\ UNCHANGED <<entry, armed, deletes, pull, runs, stopping>>

(* Mutant: only an entry whose timer can be cancelled is erased. *)
ErasedIfCancelled(u) == IF Cancels(u) THEN Absent ELSE entry[u]
Erased(u)            == Absent

(* ClearUserData on behalf of timer n: the entry goes, whichever timer it  *)
(* holds by now, and the handler's block goes with the handler.            *)
ClearUserData(n) ==
    LET u == timer[n].user IN
    /\ timer[n].stage = "clearing"
    /\ timer' = [k \in Timers |->
                   IF k = n \/ (Cancels(u) /\ k = entry[u].timer)
                   THEN [timer[k] EXCEPT !.stage = "gone"] ELSE timer[k]]
    /\ deletes' = [k \in Timers |-> Deleted(RecordedBlock(u))[k]
                                      + (IF k = n THEN 1 ELSE 0)]
    /\ pull' = Take(u, pull)
    /\ entry' = [entry EXCEPT ![u] = Erased(u)]
    /\ UNCHANGED <<armed, runs, stopping>>

(* The process is asked to quit: Clear goes over the table without the     *)
(* mutexes while the server still serves.                                  *)
AskedToQuit ==
    /\ stops < MaxStops
    /\ stops' = stops + 1
    /\ visit' = [u \in Users |-> "check"]
    /\ UNCHANGED <<entry, timer, armed, deletes, pull, runs, crashed>>

(* Does a call wait? *)
ClearChecks(u) ==
    /\ visit[u] = "check"
    /\ visit' = [visit EXCEPT ![u] =
                   IF ~entry[u].present THEN "done"
                   ELSE IF entry[u].done # NoCall THEN "run" ELSE "timer"]
    /\ UNCHANGED <<entry, timer, armed, deletes, pull, runs, stops, crashed>>

(* Run its closure, which stays in the entry. *)
ClearRuns(u) ==
    /\ visit[u] = "run"
    /\ \/ /\ entry[u].done = NoCall
          /\ crashed' = TRUE
          /\ UNCHANGED runs
       \/ /\ entry[u].done # NoCall
          /\ runs' = [runs EXCEPT ![entry[u].done] = @ + 1]
          /\ UNCHANGED crashed
    /\ visit' = [visit EXCEPT ![u] = "timer"]
    /\ UNCHANGED <<entry, timer, armed, deletes, pull, stops>>

(* Cancel the entry's timer and delete the recorded block. *)
ClearCancels(u) ==
    /\ visit[u] = "timer"
    /\ crashed' = ~entry[u].present
    /\ timer' = IF Cancels(u) THEN [timer EXCEPT ![entry[u].timer].stage = "gone"]
                              ELSE timer
    /\ deletes' = Deleted(RecordedBlock(u))
    /\ visit' = [visit EXCEPT ![u] = "done"]
    /\ UNCHANGED <<entry, armed, pull, runs, stops>>

Requests ==
    \/ \E u \in Users : ResetHeartBeatTimer(u) \/ PopClosureAndReply(u)
    \/ \E u \in Users, c \in Calls : PushClosureAndReply(u, c)

TimerStep(n) == TimerFires(n) \/ TimerReadsBlock(n) \/ ClearUserData(n)
ClearStep(u) == ClearChecks(u) \/ ClearRuns(u) \/ ClearCancels(u)

Next ==
    /\ ~crashed
    /\ \/ Requests
       \/ \E c \in Calls : Run(c)
       \/ \E n \in Timers : TimerStep(n)
       \/ AskedToQuit
       \/ \E u \in Users : ClearStep(u)

Spec == Init /\ [][Next]_vars

(* While the process lives timers fire, their handlers get the mutex, a    *)
(* thread that took a closure runs it.  Clients promise nothing.           *)
FairSpec == Spec /\ (\A n \in Timers : WF_vars(~crashed /\ TimerStep(n)))
                 /\ (\A c \in Calls : WF_vars(~crashed /\ Run(c)))

--------------------------------------------------------------------------------
(* Types; an erased entry holds nothing. *)
TypeOK ==
    /\ entry \in [Users -> [present : BOOLEAN, done : Calls \union {NoCall},
                            timer : 0 .. MaxTimers, arg : 0 .. MaxTimers]]
    /\ timer \in [Timers -> [stage : {"new", "pending", "fired", "clearing", "gone"},
                             by : {"none", "heartbeat", "pull"}, user : Users]]
    /\ \A u \in Users : entry[u].present \/ entry[u] = Absent
    /\ armed \in 0 .. MaxTimers
    /\ deletes \in [Timers -> Nat]
    /\ pull \in [Calls -> [stage : {"new", "waiting", "taken", "answered"},
                           user : Users]]
    /\ runs \in [Calls -> Nat]
    /\ visit \in [Users -> {"no", "check", "run", "timer", "done"}]
    /\ stops \in 0 .. 1
    /\ crashed \in BOOLEAN

(* A timer that can still fire is the one its user's entry records: every  *)
(* path that replaces or erases a recorded timer has cancelled it first or *)
(* knows that it runs, so no forgotten timer throws out a user who keeps   *)
(* sending heartbeats.                                                     *)
PendingTimerIsTracked ==
    \A n \in Timers : timer[n].stage = "pending" =>
        entry[timer[n].user].present /\ entry[timer[n].user].timer = n

(* No entry outlives its client: until the process is stopped an entry     *)
(* always has a timer that can fire or a handler about to erase it.        *)
EntryIsWatched ==
    \A u \in Users :
        entry[u].present /\ stops = 0 =>
            /\ entry[u].timer # 0
            /\ timer[entry[u].timer].stage \in {"pending", "fired", "clearing"}

(* A PullData call that waits is in its user's entry, where SendtoAccess,  *)
(* the timeout or the next PullData finds it: none is left unanswered.     *)
WaitingIsFound ==
    \A c \in Calls : pull[c].stage = "waiting" => entry[pull[c].user].done = c

(* Two threads never both take a closure out of the table, so while the    *)
(* server serves no closure is run twice.                                  *)
ClosureRunOnce == stops = 0 => \A c \in Calls : runs[c] <= 1

(* The block of a heartbeat's timer is deleted when the timer is gone,     *)
(* whoever of handler, next heartbeat and PullData got there first.        *)
HeartBeatBlockDeleted ==
    \A n \in Timers :
        timer[n].stage = "gone" /\ timer[n].by = "heartbeat" => deletes[n] >= 1

(* The handler owns its block (access_service.cc:28, a unique_ptr) and the *)
(* server is run under libasan (README.md:60-61): a block is deleted once, *)
(* and not before its handler has read it.  PullData that meets a running  *)
(* handler keeps the handler's block in the entry beside the new timer.    *)
BlockDeletedOnce ==
    \A n \in Timers : /\ deletes[n] <= 1
                      /\ timer[n].stage \in {"pending", "fired"} => deletes[n] = 0

(* The same once the process is asked to quit: a closure deletes itself    *)
(* when it is run, and Clear leaves in the table those it has run          *)
(* (access_service.cc:373 asks whether it should lock).                    *)
ClosureRunOnceAtQuit == \A c \in Calls : runs[c] <= 1

(* A client that goes silent is cleared: unless the process is asked to    *)
(* quit, its entry goes, and every call it left waiting is answered.       *)
SilentIsCleared == <>[](stops = 0 => \A u \in Users : ~entry[u].present)

PullIsAnswered ==
    \A c \in Calls :
        pull[c].stage = "waiting" ~> pull[c].stage = "answered" \/ stops > 0

(* For its callers the table is a LongPoll, whatever timers and heartbeats *)
(* do to the entries behind it: each run of a closure, Clear's own too, is *)
(* an answer, and only a process that was asked to quit gives a second.    *)
Poll == INSTANCE LongPoll WITH
          waiting <- [u \in Users |-> entry[u].done],
          stage   <- [c \in Calls |-> pull[c].stage],
          answers <- runs,
          closing <- stops > 0

ImplementsLongPoll == Poll!Spec
================================================================================
