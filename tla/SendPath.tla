-------------------------------- MODULE SendPath -------------------------------
(***************************************************************************)
(* Sending a message, from the client's prompt to the stored rows: the     *)
(* client's loop around SendMsg, the handlers of LogicServiceImpl::SendMsg *)
(* behind the access servers, and the storage service of Dbproxy.  A call  *)
(* that times out goes on running, and a request can reach logic late or   *)
(* twice.                                                                  *)
(***************************************************************************)
EXTENDS Dbproxy

CONSTANTS
    Senders,        \* users that run a client
    Peers,          \* what they send to: [kind, to], the other recipients
    Handlers,       \* the bthreads that run logic's SendMsg
    NoSaver,        \* the saver of a handler that has not called one
    MaxMsgs,        \* bound: messages per client
    MaxTime         \* bound: the clock, in seconds

VARIABLES
    client,     \* the clients: the prompt and its send loop
    clock,      \* std::time of the clients' machines
    net,        \* calls of SendMsg on their way to logic
    call,       \* the handlers of logic's SendMsg
    nextId,     \* idgen: user -> last id handed out
    acked,      \* history: replies clients took as success, [msg, id]
    pushes      \* history: SendtoPeers bthreads started, [msg, ids]

sendVars == <<client, clock, net, call, nextId, acked, pushes>>
allVars  == <<vars, sendVars>>

FreeCall == [stage |-> "free", msg |-> NoMsg, ids |-> << >>, saver |-> NoSaver]

SendInit ==
    /\ client = [u \in Senders |-> [stage |-> "idle", msg |-> NoMsg,
                                    sent |-> 0, lastTime |-> 0]]
    /\ clock = 1
    /\ net = {}
    /\ call = [h \in Handlers |-> FreeCall]
    /\ nextId = [u \in Users |-> 0]
    /\ acked = {}
    /\ pushes = {}

Tick ==
    /\ clock < MaxTime
    /\ clock' = clock + 1
    /\ UNCHANGED <<vars, client, net, call, nextId, acked, pushes>>

--------------------------------------------------------------------------------
(* The client. *)

(* client_time: the clock, or one more when it equals the time used last. *)
ClientTime(u) ==
    IF clock = client[u].lastTime THEN clock + 1 ELSE clock

(* "sendmsgto": the message gets its client_time and its call. *)
ClientSend(u) ==
    /\ client[u].stage = "idle"
    /\ client[u].sent < MaxMsgs
    /\ \E p \in Peers :
        LET m == [sender |-> u, no |-> client[u].sent + 1,
                  time |-> ClientTime(u), kind |-> p.kind,
                  rcpts |-> <<u>> \o p.to]
        IN
        /\ m \in Messages
        /\ client' = [client EXCEPT ![u] =
                        [stage |-> "calling", msg |-> m,
                         sent |-> m.no, lastTime |-> m.time]]
        /\ net' = net \union {m}
    /\ UNCHANGED <<vars, clock, call, nextId, acked, pushes>>

(* Mutant: the client goes on to its next message. *)
ClientGivesUp(u) ==
    /\ client[u].stage = "calling"
    /\ faults < MaxFaults /\ faults' = faults + 1
    /\ client' = [client EXCEPT ![u].stage = "idle"]
    /\ UNCHANGED <<dbVars, clock, net, call, nextId, acked, pushes>>

(* The call times out or its connection breaks; it may still arrive.  The  *)
(* loop then calls SendMsg every second with the Controller of this call,  *)
(* without Reset(), and brpc refuses each such call where it is made: no   *)
(* request leaves and the Controller goes on saying Failed(), so that      *)
(* "failed" is left only by quitting.                                      *)
ClientTimeout(u) ==
    /\ client[u].stage = "calling"
    /\ faults < MaxFaults /\ faults' = faults + 1
    /\ client' = [client EXCEPT ![u].stage = "failed"]
    /\ UNCHANGED <<dbVars, clock, net, call, nextId, acked, pushes>>

(* A signal ends that loop, and with it the program; one that ends at its  *)
(* prompt is a client that sends nothing more.                             *)
ClientQuit(u) ==
    /\ client[u].stage = "failed"
    /\ client' = [client EXCEPT ![u].stage = "ended"]
    /\ UNCHANGED <<vars, clock, net, call, nextId, acked, pushes>>

--------------------------------------------------------------------------------
(* Logic. *)

(* A call reaches a handler; brpc's own retry may deliver it again. *)
Deliver(h) ==
    /\ call[h].stage = "free"
    /\ \E m \in net :
        /\ call' = [call EXCEPT ![h] = [stage |-> "cache", msg |-> m,
                                       ids |-> << >>, saver |-> NoSaver]]
        /\ \/ net' = net \ {m} /\ UNCHANGED faults
           \/ UNCHANGED net /\ faults < MaxFaults /\ faults' = faults + 1
    /\ UNCHANGED <<dbVars, client, clock, nextId, acked, pushes>>

(* The handler returns.  Its client hears of it only while it waits. *)
Waiting(h) ==
    LET cl == client[call[h].msg.sender] IN
    cl.stage = "calling" /\ cl.msg = call[h].msg

Finish(h, stage) ==
    /\ call' = [call EXCEPT ![h] = FreeCall]
    /\ client' = IF Waiting(h)
                 THEN [client EXCEPT ![call[h].msg.sender].stage = stage]
                 ELSE client

(* Mutant: the error return forgets to answer. *)
NoReply(h) ==
    /\ call' = [call EXCEPT ![h] = FreeCall]
    /\ UNCHANGED <<client, acked>>

ReplyFailure(h) == Finish(h, "failed") /\ UNCHANGED acked

ReplyMsgId(h, id) ==
    /\ Finish(h, "idle")
    /\ acked' = IF Waiting(h) THEN acked \union {[msg |-> call[h].msg, id |-> id]}
                              ELSE acked

(* Mutant: an older client_time counts as a retransmission too. *)
CheckNotNewer(h, last) ==
    IF last.time >= call[h].msg.time
    THEN ReplyMsgId(h, last.id)
    ELSE /\ call' = [call EXCEPT ![h].stage = "ids"]
         /\ UNCHANGED <<client, acked>>

(* "1. check duplicate": the same client_time means a retransmission. *)
CheckDuplicate(h, last) ==
    IF last.time = call[h].msg.time
    THEN ReplyMsgId(h, last.id)
    ELSE /\ call' = [call EXCEPT ![h].stage = "ids"]
         /\ UNCHANGED <<client, acked>>

(* GetUserLastSendData: the Redis key first ... *)
CheckCache(h) ==
    LET key == lastSend[call[h].msg.sender] IN
    /\ call[h].stage = "cache"
    /\ \/ key # NoKey /\ CheckDuplicate(h, ParsedLast(key))
       \/ /\ key = NoKey
          /\ call' = [call EXCEPT ![h].stage = "store"]
          /\ UNCHANGED <<client, acked>>
    /\ UNCHANGED <<vars, clock, net, nextId, pushes>>

(* ... then, when it is absent, MySQL. *)
CheckStore(h) ==
    /\ call[h].stage = "store"
    /\ CheckDuplicate(h, StoredLast(call[h].msg.sender))
    /\ UNCHANGED <<vars, clock, net, nextId, pushes>>

(* "2. Get id for this msg": one id per mailbox, the sender's first. *)
IdGenerate(h) ==
    LET m == call[h].msg
        v == m.rcpts[Len(call[h].ids) + 1]
    IN
    /\ call[h].stage = "ids"
    /\ nextId[v] + 1 \in Ids
    /\ nextId' = [nextId EXCEPT ![v] = @ + 1]
    /\ call' = [call EXCEPT
                  ![h].ids = Append(@, nextId[v] + 1),
                  ![h].stage = IF Len(call[h].ids) + 1 = Len(m.rcpts)
                               THEN "save" ELSE "ids"]
    /\ UNCHANGED <<vars, client, clock, net, acked, pushes>>

(* A call of dbproxy or idgen made before the save fails. *)
CallFails(h) ==
    /\ call[h].stage \in {"cache", "store", "ids"}
    /\ faults < MaxFaults /\ faults' = faults + 1
    /\ ReplyFailure(h)
    /\ UNCHANGED <<dbVars, clock, net, nextId, pushes>>

(* "4. Save this msg to db". *)
Awaited(w) == \E h \in Handlers : call[h].stage = "saving" /\ call[h].saver = w

CallSave(h) ==
    /\ call[h].stage = "save"
    /\ \E w \in Savers :
        /\ ~Awaited(w)
        /\ Save(w, call[h].msg, call[h].ids)
        /\ call' = [call EXCEPT ![h].stage = "saving", ![h].saver = w]
    /\ UNCHANGED <<faults, client, clock, net, nextId, acked, pushes>>

(* dbproxy has answered the handler that its rows are saved. *)
SaveDone(h) == call[h].stage = "saving" /\ save[call[h].saver].stage = "saved"

(* The rows are saved: start SendtoPeers, answer with the sender's id. *)
SaveSucceeds(h) ==
    /\ SaveDone(h)
    /\ pushes' = pushes \union {[msg |-> call[h].msg, ids |-> call[h].ids]}
    /\ ReplyMsgId(h, call[h].ids[1])
    /\ UNCHANGED <<vars, clock, net, nextId>>

SaveFails(h) ==
    /\ call[h].stage = "saving"
    /\ save[call[h].saver].stage = "failed"
    /\ ReplyFailure(h)
    /\ UNCHANGED <<vars, clock, net, nextId, pushes>>

(* Logic stops waiting (its timeout is shorter than dbproxy's wait for     *)
(* Redis); the save handler goes on.                                       *)
SaveTimeout(h) ==
    /\ call[h].stage = "saving"
    /\ faults < MaxFaults /\ faults' = faults + 1
    /\ ReplyFailure(h)
    /\ UNCHANGED <<dbVars, clock, net, nextId, pushes>>

--------------------------------------------------------------------------------
Init == DbInit /\ SendInit

LogicStep(h) ==
    \/ Deliver(h) \/ CheckCache(h) \/ CheckStore(h) \/ IdGenerate(h)
    \/ CallFails(h) \/ CallSave(h) \/ SaveSucceeds(h) \/ SaveFails(h)
    \/ SaveTimeout(h)

DbproxyStep(w) == SaveStep(w) /\ UNCHANGED sendVars
KeyExpires(u)  == Expire(u) /\ UNCHANGED sendVars

Next ==
    \/ Tick
    \/ \E u \in Senders : ClientSend(u) \/ ClientTimeout(u) \/ ClientQuit(u)
    \/ \E h \in Handlers : LogicStep(h)
    \/ \E w \in Savers : DbproxyStep(w)
    \/ \E u \in Users : KeyExpires(u)

Spec == Init /\ [][Next]_allVars

(* Requests reach logic, its handlers and dbproxy's go on, and answer.     *)
(* Nothing makes a client send or quit, or a fault happen.                 *)
FairSpec ==
    /\ Spec
    /\ \A h \in Handlers : WF_allVars(LogicStep(h))
    /\ \A w \in Savers : WF_allVars(DbproxyStep(w))

--------------------------------------------------------------------------------
OwnRow(m, id) == [user |-> m.sender, sender |-> m.sender, time |-> m.time,
                  no |-> m.no, kind |-> m.kind, id |-> id]

(* What a client takes as success is in MySQL: the sender's mailbox holds  *)
(* that message under the replied id, and so does, for a private message,  *)
(* the peer's, whether the reply came from the save, from the duplicate    *)
(* check, or from a repeated call that raced with an abandoned save.       *)
AckedIsStored ==
    \A k \in acked : /\ OwnRow(k.msg, k.id) \in rows
                     /\ k.msg.kind = "private" => StoredEverywhere(k.msg)

(* README.md:17 says that waiting for the confirmation guarantees that no  *)
(* message is lost: once nothing works on a confirmed message any more,    *)
(* every mailbox should hold it.  A group save that fails after the        *)
(* sender's row is confirmed by the duplicate check of a second delivery.  *)
InFlight(m) ==
    \/ m \in net
    \/ \E h \in Handlers : call[h].stage # "free" /\ call[h].msg = m
    \/ \E w \in Savers : save[w].stage \in {"insert", "cache"} /\ save[w].msg = m

AckedReachesEveryone ==
    \A k \in acked : StoredEverywhere(k.msg) \/ InFlight(k.msg)

(* In every mailbox the messages of one sender have ids in the order they  *)
(* were sent, whatever calls were late, repeated or abandoned: ids are     *)
(* allocated before a row is visible, and the client sends the next        *)
(* message only after this one's rows are.                                 *)
MailboxOrder ==
    \A r, s \in rows :
        r.user = s.user /\ r.sender = s.sender /\ r.no < s.no => r.id < s.id

(* SendtoPeers runs at most once for a message, however often it is        *)
(* delivered: whoever is about to start it is the first, ...               *)
OnePushPerMessage ==
    /\ \A p, q \in pushes : p.msg = q.msg => p = q
    /\ \A h \in Handlers : SaveDone(h) => \A p \in pushes : p.msg # call[h].msg

(* ... and delivers ids under which every mailbox really holds it: a       *)
(* handler whose ids lost the race for the unique key pushes nothing.      *)
PushedIsStored ==
    \A p \in pushes : \A i \in 1 .. Len(p.msg.rcpts) : Row(p.msg, p.ids, i) \in rows

(* A second message of one second got the client_time of an earlier one. *)
TimeReused(u) ==
    \E r \in OwnRows(u) : r.time = client[u].msg.time /\ r.no # client[u].msg.no

(* Every call of SendMsg is answered whatever its handlers and savers meet *)
(* (lost races, abandoned saves, second deliveries), and without a fault   *)
(* it is confirmed, or its client_time was used before.                    *)
CallIsAnswered ==
    \A u \in Senders :
        client[u].stage = "calling" ~>
            \/ client[u].stage = "idle"
            \/ client[u].stage = "failed" /\ (faults > 0 \/ TimeReused(u))

(* README.md:36 says that the sender retransmits until it succeeds.  After *)
(* one failed call a client that does not quit stays in its loop, without  *)
(* sending anything.                                                       *)
SentIsAcked ==
    \A u \in Senders :
        client[u].stage = "calling" ~> client[u].stage \in {"idle", "ended"}

(* README.md:37 says of a retransmission whose message was saved that the  *)
(* sender is answered with its msg_id.  While the Redis key lives, the     *)
(* duplicate check takes it for a new message.                             *)
RetryIsRecognised ==
    [][\A h \in Handlers :
          /\ call[h].stage = "cache" /\ call'[h].stage = "ids"
          /\ Waiting(h)
          => ~StoredEverywhere(call[h].msg)]_allVars

(* Client, logic and storage together keep the promise of Delivery.        *)
Key(m) == [sender |-> m.sender, no |-> m.no, kind |-> m.kind]
Keys   == {Key(m) : m \in Messages}

SendersRows == {r \in rows : r.user = r.sender}

Promise == INSTANCE Delivery WITH
    Messages  <- Keys,
    stored    <- {Key(r) : r \in SendersRows},
    complete  <- {Key(r) : r \in {s \in SendersRows :
                    \E m \in Messages :
                        /\ m.no = s.no /\ m.time = s.time /\ m.kind = s.kind
                        /\ m.sender = s.sender /\ StoredEverywhere(m)}},
    confirmed <- {Key(k.msg) : k \in acked},
    pushed    <- {Key(p.msg) : p \in pushes}

ImplementsDelivery == Promise!Spec
================================================================================
