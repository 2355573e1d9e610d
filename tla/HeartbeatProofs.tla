---------------------------- MODULE HeartbeatProofs ----------------------------
(***************************************************************************)
(* Proofs about Heartbeat, for every Period below Timeout: the types, that *)
(* heartbeats go on while the prompt is not stuck, and that a client none  *)
(* of whose calls got lost and none of whose messages failed is never      *)
(* thrown out.                                                             *)
(***************************************************************************)
EXTENDS Heartbeat, TLAPS

(* What there is to know about the timer that is armed. *)
LEMMA ArmAdds ==
    ASSUME Arm
    PROVE  \E n \in Ids : /\ \A t \in timers : t.id # n
                          /\ timers' = timers \union {[id |-> n, left |-> Period]}
                          /\ tracked' = n
BY DEF Arm, Interval

LEMMA ArmLeaves ==
    ASSUME Arm
    PROVE  timers \subseteq timers' /\ \E t \in timers' : t.left = Period
<1> PICK n \in Ids : timers' = timers \union {[id |-> n, left |-> Period]}
    BY ArmAdds
<1>1. [id |-> n, left |-> Period].left = Period
    OBVIOUS
<1>2. [id |-> n, left |-> Period] \in timers'
    OBVIOUS
<1> QED BY <1>1, <1>2

LEMMA InitTyped == Init => TypeOK
<1> SUFFICES ASSUME Init PROVE TypeOK
    OBVIOUS
<1>1. timers \subseteq [id : Ids, left : 0 .. Period]
    BY HeartbeatAssumption DEF Init, Ids
<1>2. \A t, v \in timers : t.id = v.id => t = v
    BY DEF Init
<1>3. /\ tracked \in 0 .. MaxTimers
      /\ faults \in 0 .. MaxFaults
    BY HeartbeatAssumption DEF Init
<1>4. /\ expiry \in {NoTimer} \union (0 .. Timeout)
      /\ late \in BOOLEAN
      /\ handler \in {"idle", "call", "arm"}
      /\ prompt \in {"reading", "send", "arm", "stuck"}
      /\ pull \in {"call", "waiting", "pause"}
    BY DEF Init
<1> QED BY <1>1, <1>2, <1>3, <1>4 DEF TypeOK

(* A handler that fails goes on to arm, and a closed connection ends what  *)
(* is on it.                                                               *)
LEMMA ClosedTypes ==
    ASSUME TypeOK, ConnectionCloses
    PROVE  /\ handler' \in {"idle", "call", "arm"}
           /\ prompt' \in {"reading", "send", "arm", "stuck"}
           /\ pull' \in {"call", "waiting", "pause"}
BY DEF TypeOK, ConnectionCloses, AfterFailure

LEMMA StepTyped == TypeOK /\ [Next]_vars => TypeOK'
<1> SUFFICES ASSUME TypeOK, [Next]_vars PROVE TypeOK'
    OBVIOUS
<1> USE HeartbeatAssumption
<1>1. CASE \E t \in timers : TimerFires(t)
    BY <1>1 DEF TypeOK, TimerFires, Ids, access, NoTimer
<1>2. CASE HeartBeat
    BY <1>2 DEF TypeOK, HeartBeat, ResetHeartBeatTimer, AfterFailure, Fault, access, NoTimer
<1>3. ASSUME Arm PROVE /\ timers' \subseteq [id : Ids, left : 0 .. Period]
                       /\ \A t, v \in timers' : t.id = v.id => t = v
                       /\ tracked' \in 0 .. MaxTimers
    BY <1>3, ArmAdds DEF TypeOK, Ids
<1>4. CASE HandlerArms
    BY <1>3, <1>4 DEF TypeOK, HandlerArms, access, NoTimer
<1>5. CASE SendMsg
    BY <1>5 DEF TypeOK, SendMsg, AccessSeesSendMsg, ResetHeartBeatTimer, Fault, access, NoTimer
<1>6. CASE PromptArms
    BY <1>3, <1>6 DEF TypeOK, PromptArms, access, NoTimer
<1>7. CASE PullData
    BY <1>7 DEF TypeOK, PullData, ResetHeartBeatTimer, Fault, access, NoTimer
<1>8. CASE EntryTimerFires
    BY <1>8 DEF TypeOK, EntryTimerFires, client, NoTimer
<1>9. CASE ClearUserData
    <2>1. CASE pull = "waiting"
        BY <1>9, <2>1, ClosedTypes DEF TypeOK, ClearUserData, ConnectionCloses, NoTimer
    <2>2. CASE pull # "waiting"
        BY <1>9, <2>2 DEF TypeOK, ClearUserData, client, NoTimer
    <2> QED BY <2>1, <2>2
<1>10. CASE PromptCancels
    BY <1>10 DEF TypeOK, PromptCancels, access, NoTimer
<1>11. CASE SendtoAccess
    BY <1>11 DEF TypeOK, SendtoAccess, access, NoTimer
<1>12. CASE Restart
    <2>1. /\ handler' \in {"idle", "call", "arm"}
          /\ prompt' \in {"reading", "send", "arm", "stuck"}
          /\ pull' \in {"call", "waiting", "pause"}
        BY <1>12, ClosedTypes DEF Restart
    <2>2. UNCHANGED <<timers, tracked>> /\ faults' \in 0 .. MaxFaults
        BY <1>12 DEF TypeOK, Restart, ConnectionCloses, Fault
    <2>3. expiry' = NoTimer /\ late' = FALSE
        BY <1>12 DEF Restart
    <2> QED BY <2>1, <2>2, <2>3 DEF TypeOK
<1>13. CASE Tick
    <2>1. timers' \subseteq [id : Ids, left : 0 .. Period]
        BY <1>13 DEF TypeOK, Tick, Quiet, Ids
    <2>2. \A t, v \in timers' : t.id = v.id => t = v
        BY <1>13 DEF TypeOK, Tick, Ids
    <2>3. expiry' \in {NoTimer} \union (0 .. Timeout)
        BY <1>13 DEF TypeOK, Tick, Quiet, NoTimer
    <2> QED BY <1>13, <2>1, <2>2, <2>3 DEF TypeOK, Tick
<1>14. CASE UNCHANGED vars
    BY <1>14 DEF TypeOK, vars
<1> QED
    BY <1>1, <1>2, <1>4, <1>5, <1>6, <1>7, <1>8, <1>9, <1>10, <1>11, <1>12, <1>13, <1>14
       DEF Next, ClientStep, AccessStep, OthersStep

(* Every variable has its type, and no two waiting timers share an id      *)
(* (client.cc:148-182, 443, 464-468).                                      *)
THEOREM Typed == Spec => []TypeOK
<1> QED BY InitTyped, StepTyped, PTL DEF Spec

--------------------------------------------------------------------------------
LEMMA InitGoesOn == Init => HeartbeatsGoOn
BY DEF Init, HeartbeatsGoOn

LEMMA StepGoesOn ==
    TypeOK /\ HeartbeatsGoOn /\ [Next]_vars => HeartbeatsGoOn'
<1> SUFFICES ASSUME TypeOK, HeartbeatsGoOn, [Next]_vars PROVE HeartbeatsGoOn'
    OBVIOUS
<1> USE DEF HeartbeatsGoOn
<1>1. CASE \E t \in timers : TimerFires(t)
    BY <1>1 DEF TimerFires
<1>2. CASE HeartBeat
    BY <1>2 DEF HeartBeat, AfterFailure
<1>3. CASE HandlerArms \/ PromptArms
    BY <1>3, ArmAdds DEF HandlerArms, PromptArms
<1>4. CASE SendMsg
    BY <1>4 DEF SendMsg
<1>5. CASE PullData \/ SendtoAccess
    BY <1>5 DEF PullData, SendtoAccess
<1>6. CASE EntryTimerFires
    BY <1>6 DEF EntryTimerFires, client
<1>7. ASSUME ConnectionCloses PROVE HeartbeatsGoOn'
    BY <1>7 DEF ConnectionCloses, AfterFailure
<1>8. CASE ClearUserData
    BY <1>7, <1>8 DEF ClearUserData, client
<1>9. CASE PromptCancels
    BY <1>9 DEF PromptCancels
<1>10. CASE Restart
    BY <1>7, <1>10 DEF Restart
<1>11. CASE Tick
    <2>1. timers # {} => timers' # {}
        BY <1>11 DEF Tick
    <2> QED BY <1>11, <2>1 DEF Tick, Quiet
<1>12. CASE UNCHANGED vars
    BY <1>12 DEF vars
<1> QED
    BY <1>1, <1>2, <1>3, <1>4, <1>5, <1>6, <1>8, <1>9, <1>10, <1>11, <1>12
       DEF Next, ClientStep, AccessStep, OthersStep

(* However handler and prompt cancel and arm through the one field, and    *)
(* whichever heartbeats fail, a client whose prompt is not stuck never     *)
(* ends up without a timer (client.cc:148-182, 443, 464-468).              *)
THEOREM GoesOn == Spec => []HeartbeatsGoOn
<1> QED BY InitTyped, StepTyped, InitGoesOn, StepGoesOn, PTL DEF Spec

--------------------------------------------------------------------------------
(* While no call is lost and no SendMsg has failed the entry's timer never *)
(* runs out: somebody is about to arm it, somebody just has, or the        *)
(* client's next timer fires first.                                        *)
InTime == \/ handler = "call" \/ prompt = "send"
          \/ expiry = Timeout /\ (handler = "arm" \/ prompt = "arm")
          \/ \E t \in timers : t.left < expiry

(* Before access hears of the client for the first time, it has a call on  *)
(* its way or a timer.                                                     *)
Watched == /\ ~late
           /\ \/ expiry = NoTimer /\ HeartbeatsGoOn
              \/ expiry >= 1 /\ InTime

LiveInv == faults = 0 /\ prompt # "stuck" => Watched

(* A call that arrives leaves the client with Timeout, more than any of    *)
(* its timers has left.                                                    *)
LEMMA ResetInTime ==
    ASSUME TypeOK, HeartbeatsGoOn', late' = late, ~late, expiry' = Timeout, TypeOK',
           prompt' # "stuck"
    PROVE  Watched'
<1>1. \A t \in timers' : t.left < expiry'
    BY HeartbeatAssumption DEF TypeOK
<1>2. CASE timers' # {}
    BY <1>1, <1>2, HeartbeatAssumption DEF Watched, InTime
<1>3. CASE handler' # "idle"
    BY <1>3, HeartbeatAssumption DEF Watched, InTime, TypeOK
<1>4. CASE prompt' # "reading"
    BY <1>4, HeartbeatAssumption DEF Watched, InTime, TypeOK
<1> QED BY <1>2, <1>3, <1>4 DEF HeartbeatsGoOn

LEMMA InitLive == Init => LiveInv
BY InitGoesOn DEF Init, LiveInv, Watched

LEMMA StepLive ==
    ASSUME TypeOK, TypeOK', HeartbeatsGoOn, HeartbeatsGoOn', LiveInv, [Next]_vars
    PROVE  LiveInv'
<1> USE HeartbeatAssumption
<1> SUFFICES ASSUME faults' = 0, prompt' # "stuck" PROVE Watched'
    BY DEF LiveInv
<1>0. faults = 0 /\ ~Fault
    BY DEF TypeOK, Fault, Next, ClientStep, AccessStep, OthersStep, vars, TimerFires,
           HeartBeat, HandlerArms, SendMsg, PromptArms, PullData, EntryTimerFires,
           ClearUserData, PromptCancels, SendtoAccess, Restart, Tick
<1>s. prompt # "stuck"
    BY DEF Next, ClientStep, AccessStep, OthersStep, vars, client, TimerFires, HeartBeat,
           HandlerArms, SendMsg, PromptArms, PullData, EntryTimerFires, ClearUserData,
           ConnectionCloses, PromptCancels, SendtoAccess, Restart, Tick
<1>w. Watched
    BY <1>0, <1>s DEF LiveInv
<1>1. ASSUME expiry' = Timeout, late' = late PROVE Watched'
    BY <1>1, <1>w, ResetInTime DEF Watched
<1>2. ASSUME expiry = NoTimer, UNCHANGED <<expiry, late>> PROVE Watched'
    BY <1>2, <1>w DEF Watched, NoTimer
<1>3. CASE \E t \in timers : TimerFires(t)
    <2> PICK t \in timers : TimerFires(t)
        BY <1>3
    <2> QED BY <1>w DEF TimerFires, Watched, InTime, access, HeartbeatsGoOn
<1>4. CASE HeartBeat
    BY <1>0, <1>1, <1>4 DEF HeartBeat, ResetHeartBeatTimer
<1>5. CASE HandlerArms
    <2>1. timers \subseteq timers' /\ \E t \in timers' : t.left = Period
        BY <1>5, ArmLeaves DEF HandlerArms
    <2> QED BY <1>5, <1>w, <2>1 DEF HandlerArms, Watched, InTime, access, HeartbeatsGoOn
<1>6. CASE SendMsg
    BY <1>0, <1>1, <1>6 DEF SendMsg, AccessSeesSendMsg, ResetHeartBeatTimer
<1>7. CASE PromptArms
    <2>1. timers \subseteq timers' /\ \E t \in timers' : t.left = Period
        BY <1>7, ArmLeaves DEF PromptArms
    <2> QED BY <1>7, <1>w, <2>1 DEF PromptArms, Watched, InTime, access, HeartbeatsGoOn
<1>8. CASE PullData
    BY <1>0, <1>1, <1>8 DEF PullData, ResetHeartBeatTimer
<1>9. CASE EntryTimerFires
    BY <1>9, <1>w DEF EntryTimerFires, Watched, NoTimer
<1>10. CASE ClearUserData
    BY <1>10, <1>w DEF ClearUserData, Watched
<1>11. CASE PromptCancels
    BY <1>11, <1>w DEF PromptCancels, Watched, InTime, access, HeartbeatsGoOn
<1>12. CASE SendtoAccess
    BY <1>12, <1>w DEF SendtoAccess, Watched, InTime, access, HeartbeatsGoOn
<1>13. CASE Restart
    BY <1>0, <1>13 DEF Restart
<1>14. CASE Tick
    <2>1. CASE expiry = NoTimer
        BY <1>14, <2>1, <1>w DEF Tick, Watched
    <2>2. ASSUME expiry >= 1, NEW t \in timers, t.left < expiry PROVE Watched'
        <3>1. t.left \in 1 .. Period /\ expiry \in 0 .. Timeout
            BY <1>14, <2>2 DEF Tick, Quiet, TypeOK, NoTimer
        <3> DEFINE v == [t EXCEPT !.left = @ - 1]
        <3>2. v \in timers' /\ expiry' = expiry - 1
            BY <1>14, <2>2 DEF Tick, NoTimer
        <3>3. v.left = t.left - 1
            BY <2>2 DEF TypeOK
        <3> HIDE DEF v
        <3>4. v.left < expiry'
            BY <3>1, <3>2, <3>3, <2>2
        <3>5. expiry' >= 1 /\ ~late'
            BY <3>1, <3>2, <2>2, <1>14, <1>w DEF Tick, Watched
        <3> QED BY <3>2, <3>4, <3>5 DEF Watched, InTime
    <2> QED BY <1>14, <1>w, <2>1, <2>2, <1>s DEF Tick, Quiet, Watched, InTime
<1>15. CASE UNCHANGED vars
    BY <1>15, <1>w DEF vars, Watched, InTime, HeartbeatsGoOn
<1> QED
    BY <1>3, <1>4, <1>5, <1>6, <1>7, <1>8, <1>9, <1>10, <1>11, <1>12, <1>13, <1>14, <1>15
       DEF Next, ClientStep, AccessStep, OthersStep

(* For every Period below Timeout: a client none of whose calls got lost   *)
(* and none of whose SendMsg calls failed is never thrown out, however     *)
(* many messages it sends instead of heartbeats                            *)
(* (access_service.cc:133, 184, 227; client.cc:443, 464-468).              *)
THEOREM LiveStays == Spec => []LiveClientStays
<1>1. LiveInv => LiveClientStays
    BY DEF LiveInv, Watched, LiveClientStays
<1> QED BY <1>1, InitTyped, StepTyped, InitGoesOn, StepGoesOn, InitLive, StepLive, PTL
        DEF Spec
================================================================================
