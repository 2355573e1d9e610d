------------------------------- MODULE Heartbeat -------------------------------
(***************************************************************************)
(* Heartbeats of one client over time: the timer of the client, which its  *)
(* handler and the thread of the prompt both cancel and arm through one    *)
(* field, and the timer of the client's entry at access, which every       *)
(* HeartBeat, SendMsg and PullData arms anew.  Time passes in units of     *)
(* which Period and Timeout are multiples; a call, a handler or a pause    *)
(* of a second is over within the unit.  The client runs for ever.         *)
(***************************************************************************)
EXTENDS Integers, FiniteSets

CONSTANTS
    Period,         \* internal_send_heartbeat_s
    Timeout,        \* recv_heartbeat_timeout_s
    MaxTimers,      \* bound: timers of the client at a time
    MaxFaults       \* bound: lost calls and restarts of access

(* By default 300 and 400 seconds. *)
ASSUME HeartbeatAssumption ==
    /\ Period \in Nat \ {0}
    /\ Timeout \in Nat /\ Period < Timeout
    /\ MaxTimers \in Nat \ {0}
    /\ MaxFaults \in Nat

VARIABLES
    timers,     \* the client's timers that wait: [id, left]
    tracked,    \* the timer heartbeat_timeout_id names, 0 once it has fired
    handler,    \* the timer thread: HeartBeatTimeOutHeadler
    prompt,     \* the thread of the prompt
    pull,       \* the PullData bthread; "waiting": its closure is in the entry
    expiry,     \* access: time left to the entry's timer, or NoTimer
    late,       \* access: the timeout handler waits for the mutex
    faults      \* lost calls and restarts so far

vars == <<timers, tracked, handler, prompt, pull, expiry, late, faults>>
client == <<timers, tracked, handler, prompt, pull>>
access == <<expiry, late>>

Ids == 1 .. MaxTimers
NoTimer == -1

(* The first timer is armed for 300 seconds after 1970, so it is due. *)
Init ==
    /\ timers = {[id |-> 1, left |-> 0]}
    /\ tracked = 1
    /\ handler = "idle" /\ prompt = "reading" /\ pull = "call"
    /\ expiry = NoTimer /\ late = FALSE
    /\ faults = 0

Fault == faults < MaxFaults /\ faults' = faults + 1

(* Timers the handler and the prompt will arm. *)
ToArm == (IF handler = "idle" THEN 0 ELSE 1)
         + (IF prompt \in {"send", "arm"} THEN 1 ELSE 0)

(* Mutant: the wrong flag. *)
WrongFlag == Timeout

Interval == Period

(* bthread_timer_add into heartbeat_timeout_id (a timer that has fired     *)
(* leaves its id to the next).                                             *)
Arm ==
    \E n \in Ids :
        /\ \A t \in timers : t.id # n
        /\ \A k \in 1 .. n - 1 : \E t \in timers : t.id = k
        /\ timers' = timers \union {[id |-> n, left |-> Interval]}
        /\ tracked' = n

--------------------------------------------------------------------------------
(* HeartBeat, SendMsg and PullData arm the entry's timer at access. *)
ResetHeartBeatTimer == expiry' = Timeout /\ UNCHANGED late

--------------------------------------------------------------------------------
(* The client's timer thread runs one handler at a time. *)
TimerFires(t) ==
    /\ t.left = 0 /\ handler = "idle"
    /\ timers' = timers \ {t}
    /\ tracked' = IF tracked = t.id THEN 0 ELSE tracked
    /\ handler' = "call"
    /\ UNCHANGED <<prompt, pull, access, faults>>

(* Mutant: a handler whose call failed returns at once. *)
GivesUp == "idle"

AfterFailure == "arm"

(* HeartBeat arrives, or the connection fails; the handler goes on. *)
HeartBeat ==
    /\ handler = "call"
    /\ \/ handler' = "arm" /\ ResetHeartBeatTimer /\ UNCHANGED faults
       \/ handler' = AfterFailure /\ Fault /\ UNCHANGED access
    /\ UNCHANGED <<timers, tracked, prompt, pull>>

(* It arms the next timer, whatever the prompt has armed meanwhile. *)
HandlerArms ==
    /\ handler = "arm"
    /\ Arm
    /\ handler' = "idle"
    /\ UNCHANGED <<prompt, pull, access, faults>>

--------------------------------------------------------------------------------
(* The prompt reads a message and cancels the timer the field names, if it *)
(* still waits.  (Bound: no more than MaxTimers.)                          *)
PromptCancels ==
    /\ prompt = "reading"
    /\ timers' = {t \in timers : t.id # tracked}
    /\ tracked' = 0
    /\ prompt' = "send"
    /\ Cardinality(timers') + ToArm < MaxTimers
    /\ UNCHANGED <<handler, pull, access, faults>>

(* Mutant: SendMsg leaves the entry's timer alone. *)
NoReset == UNCHANGED access

AccessSeesSendMsg == ResetHeartBeatTimer

(* SendMsg arrives at access, where it counts as a heartbeat before it is  *)
(* forwarded, and is confirmed or fails; or it is lost.  After a failure   *)
(* the loop makes its calls with the Controller of the one that failed,    *)
(* which brpc refuses: nothing more arrives at access, the prompt stays    *)
(* there, and its timer stays cancelled.                                   *)
SendMsg ==
    /\ prompt = "send"
    /\ \/ prompt' \in {"arm", "stuck"} /\ AccessSeesSendMsg /\ UNCHANGED faults
       \/ prompt' = "stuck" /\ Fault /\ UNCHANGED access
    /\ UNCHANGED <<timers, tracked, handler, pull>>

(* Confirmed: the prompt arms a timer and reads on. *)
PromptArms ==
    /\ prompt = "arm"
    /\ Arm
    /\ prompt' = "reading"
    /\ UNCHANGED <<handler, pull, access, faults>>

--------------------------------------------------------------------------------
(* The PullData bthread calls, waits and calls again. *)
PullData ==
    /\ pull = "call"
    /\ \/ pull' = "waiting" /\ ResetHeartBeatTimer /\ UNCHANGED faults
       \/ pull' = "pause" /\ Fault /\ UNCHANGED access
    /\ UNCHANGED <<timers, tracked, handler, prompt>>

(* A message takes the closure; the entry's timer goes on. *)
SendtoAccess ==
    /\ pull = "waiting"
    /\ pull' = "call"
    /\ UNCHANGED <<timers, tracked, handler, prompt, access, faults>>

(* A connection that closes fails the calls that are on it. *)
ConnectionCloses ==
    /\ pull' = IF pull = "waiting" THEN "pause" ELSE pull
    /\ handler' \in {handler, IF handler = "call" THEN AfterFailure ELSE handler}
    /\ prompt' \in {prompt, IF prompt = "send" THEN "stuck" ELSE prompt}
    /\ UNCHANGED <<timers, tracked>>

--------------------------------------------------------------------------------
(* The entry's timer fires; its handler waits for the mutex. *)
EntryTimerFires ==
    /\ expiry = 0
    /\ expiry' = NoTimer /\ late' = TRUE
    /\ UNCHANGED <<client, faults>>

(* The handler has the mutex: it erases the entry and cancels its timer,   *)
(* even one that was armed meanwhile, and closes the connection of a       *)
(* waiting PullData.                                                       *)
ClearUserData ==
    /\ late
    /\ late' = FALSE /\ expiry' = NoTimer
    /\ \/ pull = "waiting" /\ ConnectionCloses
       \/ pull # "waiting" /\ UNCHANGED client
    /\ UNCHANGED faults

(* Access dies and comes back with an empty table. *)
Restart ==
    /\ Fault
    /\ late' = FALSE /\ expiry' = NoTimer
    /\ ConnectionCloses

(* Calls, handlers and due timers first; the retries of a unit count as    *)
(* one.                                                                    *)
Quiet ==
    /\ \A t \in timers : t.left > 0
    /\ handler = "idle" /\ prompt \in {"reading", "stuck"} /\ pull \in {"waiting", "pause"}
    /\ expiry # 0 /\ ~late

Tick ==
    /\ Quiet
    /\ timers' = {[t EXCEPT !.left = @ - 1] : t \in timers}
    /\ expiry' = IF expiry = NoTimer THEN NoTimer ELSE expiry - 1
    /\ pull' = IF pull = "pause" THEN "call" ELSE pull
    /\ UNCHANGED <<tracked, handler, prompt, late, faults>>

ClientStep == \/ \E t \in timers : TimerFires(t)
              \/ HeartBeat \/ HandlerArms \/ SendMsg \/ PromptArms \/ PullData
AccessStep == EntryTimerFires \/ ClearUserData
OthersStep == PromptCancels \/ SendtoAccess \/ Restart

Next == ClientStep \/ AccessStep \/ OthersStep \/ Tick

Spec == Init /\ [][Next]_vars

(* Threads that can go on do, and time passes.  Nobody has to type. *)
FairSpec == Spec /\ WF_vars(ClientStep) /\ WF_vars(AccessStep) /\ WF_vars(Tick)

--------------------------------------------------------------------------------
TypeOK ==
    /\ timers \subseteq [id : Ids, left : 0 .. Period]
    /\ \A t, v \in timers : t.id = v.id => t = v
    /\ tracked \in 0 .. MaxTimers
    /\ handler \in {"idle", "call", "arm"}
    /\ prompt \in {"reading", "send", "arm", "stuck"}
    /\ pull \in {"call", "waiting", "pause"}
    /\ expiry \in {NoTimer} \union (0 .. Timeout)
    /\ late \in BOOLEAN
    /\ faults \in 0 .. MaxFaults

(* However handler and prompt cancel and arm timers through the one field, *)
(* and whichever heartbeats fail, a timer is left or one of the two will   *)
(* arm it.  Only a prompt stuck after a failed SendMsg may leave none.     *)
HeartbeatsGoOn ==
    \/ timers # {}
    \/ handler # "idle" \/ prompt \in {"send", "arm"}
    \/ prompt = "stuck"

(* A client none of whose calls got lost and none of whose messages failed *)
(* is never thrown out: not while it sends message after message and never *)
(* a heartbeat, nor when handler and prompt meet.                          *)
LiveClientStays == faults = 0 /\ prompt # "stuck" => ~late

(* After losses and restarts, each of which may get it thrown out again    *)
(* and closes its connection under other calls, the client is thrown out   *)
(* no more.  Not so when its prompt got stuck without a timer: Timeout     *)
(* after each PullData access throws it out again.                         *)
ClientSettles == <>[](prompt # "stuck" => ~late)
================================================================================
