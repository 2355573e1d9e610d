---------------------------- MODULE SendPathProofs -----------------------------
(***************************************************************************)
(* What SendPath promises for every number of clients, handlers, messages  *)
(* and faults.                                                             *)
(***************************************************************************)
EXTENDS SendPath, DbproxyProofs, WellFoundedInduction

(* The records of clients and calls. *)
Programs == [stage : {"idle", "calling", "failed", "ended"},
             msg : Messages \union {NoMsg}, sent : Nat, lastTime : Nat]
CallStages == {"free", "cache", "store", "ids", "save", "saving"}
Calls == [stage : CallStages, msg : Messages \union {NoMsg},
          ids : Seq(Ids), saver : Savers \union {NoSaver}]

(* A client's message is its last, and has its last time. *)
ClientOK(c, u) ==
    /\ c.sent = 0 => c.stage = "idle" /\ c.lastTime = 0 /\ c.msg = NoMsg
    /\ c.sent # 0 => /\ c.msg \in Messages /\ c.msg.sender = u
                     /\ c.msg.no = c.sent /\ c.msg.time = c.lastTime
                     /\ c.lastTime # 0

(* A handler has the ids its stage says. *)
CallOK(c) ==
    /\ c.stage # "free" => c.msg \in Messages /\ c.msg.sender \in Senders
    /\ c.stage \in {"free", "cache", "store"} => c.ids = << >>
    /\ c.stage = "ids" => Len(c.ids) < Len(c.msg.rcpts)
    /\ c.stage \in {"save", "saving"} => Len(c.ids) = Len(c.msg.rcpts)
    /\ c.stage = "saving" => c.saver \in Savers

(* A handler that waits for a save waits for its own. *)
SavesOwn ==
    \A h \in Handlers : call[h].stage = "saving" =>
        LET s == save[call[h].saver] IN
        s.stage # "free" /\ s.msg = call[h].msg /\ s.ids = call[h].ids

ClientTypes == client \in [Senders -> Programs] /\ \A u \in Senders : ClientOK(client[u], u)
NetTypes    == net \subseteq Messages /\ \A m \in net : m.sender \in Senders
CallTypes   == call \in [Handlers -> Calls] /\ (\A h \in Handlers : CallOK(call[h])) /\ SavesOwn
SaveTypes   == \A w \in Savers : save[w].stage # "free" => save[w].msg.sender \in Senders
ReplyTypes  == /\ acked \subseteq [msg : Messages, id : Nat]
               /\ pushes \subseteq [msg : Messages, ids : Seq(Nat)]
               /\ \A p \in pushes : Len(p.ids) = Len(p.msg.rcpts)

Shapes ==
    /\ ClientTypes /\ clock \in Nat \ {0} /\ NetTypes /\ CallTypes /\ SaveTypes
    /\ nextId \in [Users -> Nat] /\ ReplyTypes

TypeOK ==
    /\ DbTypeOK
    /\ client \in [Senders -> Programs]
    /\ clock \in Nat
    /\ net \subseteq Messages
    /\ call \in [Handlers -> Calls]
    /\ nextId \in [Users -> Nat]
    /\ acked \subseteq [msg : Messages, id : Nat]
    /\ pushes \subseteq [msg : Messages, ids : Seq(Nat)]

LEMMA TypesAre == DbTypeOK /\ Shapes => TypeOK
BY DEF TypeOK, Shapes, ClientTypes, NetTypes, CallTypes, ReplyTypes

LEMMA InitShapes == Init => DbInv /\ Shapes
<1> SUFFICES ASSUME Init PROVE DbInv /\ Shapes
    OBVIOUS
<1>1. DbInv
    BY InvInit DEF Init
<1>2. FreeCall \in Calls /\ CallOK(FreeCall)
    BY DEF FreeCall, Calls, CallStages, CallOK
<1>3. ClientTypes
    BY DEF Init, SendInit, ClientTypes, Programs, ClientOK
<1>4. CallTypes
    BY <1>2 DEF Init, SendInit, CallTypes, SavesOwn, FreeCall
<1>5. SaveTypes
    BY DEF Init, DbInit, SaveTypes
<1> QED  BY <1>1, <1>3, <1>4, <1>5 DEF Shapes, NetTypes, ReplyTypes, Init, SendInit

--------------------------------------------------------------------------------
(* A step of dbproxy alone, or one that it only hears of as a fault. *)
LEMMA IdsOfSave ==
    ASSUME Shapes, NEW h \in Handlers, call[h].stage = "save"
    PROVE  call[h].msg \in Messages /\ call[h].ids \in [1 .. Len(call[h].msg.rcpts) -> Ids]
<1>1. call[h] \in Calls /\ CallOK(call[h])
    BY DEF Shapes, CallTypes
<1>2. call[h].ids \in Seq(Ids) /\ Len(call[h].ids) = Len(call[h].msg.rcpts)
      /\ call[h].msg \in Messages
    BY <1>1 DEF CallOK, Calls
<1> QED  BY <1>2

LEMMA DbSteps ==
    ASSUME Shapes, [Next]_allVars
    PROVE  [DbNext]_vars \/ (UNCHANGED dbVars /\ faults' = faults + 1)
<1>1. CASE Tick \/ UNCHANGED allVars
    BY <1>1 DEF Tick, allVars
<1>2. ASSUME NEW u \in Senders, ClientSend(u) \/ ClientTimeout(u) \/ ClientQuit(u)
      PROVE  UNCHANGED vars \/ (UNCHANGED dbVars /\ faults' = faults + 1)
    BY <1>2 DEF ClientSend, ClientTimeout, ClientQuit
<1>3. ASSUME NEW h \in Handlers, LogicStep(h)
      PROVE  DbNext \/ UNCHANGED vars \/ (UNCHANGED dbVars /\ faults' = faults + 1)
  <2>1. CASE CallSave(h)
    <3>1. \E w \in Savers : Save(w, call[h].msg, call[h].ids) /\ UNCHANGED faults
        BY <2>1 DEF CallSave
    <3>2. call[h].stage = "save"
        BY <2>1 DEF CallSave
    <3> QED  BY <3>1, <3>2, IdsOfSave DEF DbNext
  <2>2. CASE Deliver(h)
      BY <2>2 DEF Deliver, vars, dbVars
  <2>3. CASE CheckCache(h) \/ CheckStore(h) \/ IdGenerate(h) \/ SaveSucceeds(h) \/ SaveFails(h)
      BY <2>3 DEF CheckCache, CheckStore, IdGenerate, SaveSucceeds, SaveFails
  <2>4. CASE CallFails(h) \/ SaveTimeout(h)
      BY <2>4 DEF CallFails, SaveTimeout
  <2> QED  BY <1>3, <2>1, <2>2, <2>3, <2>4 DEF LogicStep
<1>4. ASSUME NEW w \in Savers, DbproxyStep(w) PROVE DbNext
    BY <1>4 DEF DbproxyStep, DbNext
<1>5. ASSUME NEW u \in Users, KeyExpires(u) PROVE DbNext
    BY <1>5 DEF KeyExpires, DbNext
<1> QED  BY <1>1, <1>2, <1>3, <1>4, <1>5 DEF Next

(* dbproxy's invariant holds below logic too. *)
LEMMA DbInvStep == DbInv /\ Shapes /\ [Next]_allVars => DbInv'
<1> SUFFICES ASSUME DbInv, Shapes, [Next]_allVars PROVE DbInv'
    OBVIOUS
<1>1. CASE [DbNext]_vars
    BY <1>1, InvStep
<1>2. CASE UNCHANGED dbVars /\ faults' = faults + 1
  <2>1. DbTypeOK' /\ IdsMatch'
      BY <1>2 DEF dbVars, DbInv, DbTypeOK, IdsMatch, Statements
  <2>2. RowsOfDone' /\ OneAhead' /\ CacheBehindStore'
      BY <1>2 DEF dbVars, DbInv, RowsOfDone, OneAhead, Ahead, SameMessageKey,
                  CacheBehindStore, StoredEverywhere, Holds
  <2> QED  BY <2>1, <2>2 DEF DbInv
<1> QED  BY <1>1, <1>2, DbSteps

--------------------------------------------------------------------------------
(* A client keeps its message until it sends the next one. *)
SameSend(u) == /\ client'[u].msg = client[u].msg
               /\ client'[u].sent = client[u].sent
               /\ client'[u].lastTime = client[u].lastTime

(* A handler that returns is free, and its client goes on if it waits.     *)
LEMMA Finished ==
    ASSUME Shapes, NEW h \in Handlers, call[h].stage # "free",
           NEW st \in {"failed", "idle"}, Finish(h, st)
    PROVE  /\ call' = [call EXCEPT ![h] = FreeCall]
           /\ ClientTypes'
           /\ \A u \in Senders :
                /\ SameSend(u)
                /\ client'[u].stage = client[u].stage
                     \/ /\ client'[u].stage = st
                        /\ Waiting(h) /\ client[u].msg = call[h].msg
<1> DEFINE v == call[h].msg.sender
<1>0. client \in [Senders -> Programs] /\ (\A u \in Senders : ClientOK(client[u], u)) /\ v \in Senders
    BY DEF Shapes, ClientTypes, CallTypes, CallOK
<1>1. call' = [call EXCEPT ![h] = FreeCall]
    BY DEF Finish
<1>2. CASE Waiting(h)
  <2>1. client' = [client EXCEPT ![v] = [client[v] EXCEPT !.stage = st]]
      BY <1>0, <1>2 DEF Finish
  <2>2. client[v].stage = "calling" /\ client[v].msg = call[h].msg
      BY <1>2 DEF Waiting
  <2>3. client[v] \in Programs /\ ClientOK(client[v], v)
      BY <1>0
  <2> DEFINE c == [client[v] EXCEPT !.stage = st]
  <2>4. c \in Programs /\ ClientOK(c, v) /\ c.stage = st
        /\ c.msg = client[v].msg /\ c.sent = client[v].sent /\ c.lastTime = client[v].lastTime
      BY <2>2, <2>3 DEF Programs, ClientOK
  <2> HIDE DEF c, v
  <2>5. client' = [client EXCEPT ![v] = c]
      BY <2>1 DEF c
  <2>6. ClientTypes'
      BY <1>0, <2>4, <2>5 DEF ClientTypes
  <2>7. ASSUME NEW u \in Senders
        PROVE  /\ SameSend(u)
               /\ client'[u].stage = client[u].stage
                    \/ (client'[u].stage = st /\ Waiting(h) /\ client[u].msg = call[h].msg)
    <3>1. CASE u = v
        BY <1>0, <1>2, <2>2, <2>4, <2>5, <3>1 DEF SameSend
    <3>2. CASE u # v
        BY <1>0, <2>5, <3>2 DEF SameSend
    <3> QED  BY <3>1, <3>2
  <2> QED  BY <1>1, <2>6, <2>7
<1>3. CASE ~Waiting(h)
  <2>1. client' = client
      BY <1>3 DEF Finish
  <2> QED  BY <1>0, <1>1, <2>1 DEF ClientTypes, SameSend
<1> QED  BY <1>2, <1>3

(* A new state of one handler. *)
LEMMA CallSet ==
    ASSUME Shapes, NEW h \in Handlers, NEW c \in Calls, CallOK(c), c.stage # "saving",
           call' = [call EXCEPT ![h] = c], UNCHANGED save
    PROVE  CallTypes'
<1>1. call \in [Handlers -> Calls] /\ (\A g \in Handlers : CallOK(call[g])) /\ SavesOwn
    BY DEF Shapes, CallTypes
<1>2. SavesOwn'
    BY <1>1 DEF SavesOwn
<1> QED  BY <1>1, <1>2 DEF CallTypes

LEMMA FreeCallOK == FreeCall \in Calls /\ CallOK(FreeCall) /\ FreeCall.stage = "free"
BY DEF FreeCall, Calls, CallStages, CallOK

LEMMA IdsAreNumbers ==
    ASSUME NEW ids \in Seq(Ids)
    PROVE  ids \in Seq(Nat)
<1>0. Ids \subseteq Nat
    BY DbproxyAssumption
<1>1. ids \in [1 .. Len(ids) -> Ids] /\ Len(ids) \in Nat
    OBVIOUS
<1>2. ids \in [1 .. Len(ids) -> Nat]
    BY <1>0, <1>1
<1> QED  BY <1>1, <1>2, SeqDef

(* A call that returns. *)
LEMMA FinishedShapes ==
    ASSUME Shapes, NEW h \in Handlers, call[h].stage # "free",
           NEW st \in {"failed", "idle"}, Finish(h, st), ReplyTypes',
           UNCHANGED <<save, clock, net, nextId>>
    PROVE  Shapes'
<1>1. ClientTypes' /\ call' = [call EXCEPT ![h] = FreeCall]
    BY Finished
<1>2. CallTypes'
    BY <1>1, FreeCallOK, CallSet
<1> QED  BY <1>1, <1>2 DEF Shapes, NetTypes, SaveTypes

LEMMA RepliedShapes ==
    ASSUME Shapes, NEW h \in Handlers, call[h].stage # "free", NEW id \in Nat,
           ReplyMsgId(h, id), UNCHANGED <<save, clock, net, nextId>>,
           \/ UNCHANGED pushes
           \/ /\ pushes' = pushes \union {[msg |-> call[h].msg, ids |-> call[h].ids]}
              /\ call[h].stage = "saving"
    PROVE  Shapes'
<1>0. call[h] \in Calls /\ CallOK(call[h]) /\ call[h].msg \in Messages /\ Ids \subseteq Nat
    BY DbproxyAssumption DEF Shapes, CallTypes, CallOK
<1>1. acked' \subseteq [msg : Messages, id : Nat]
    BY <1>0 DEF ReplyMsgId, Shapes, ReplyTypes
<1>2. ReplyTypes'
  <2>1. CASE UNCHANGED pushes
      BY <1>1, <2>1 DEF Shapes, ReplyTypes
  <2>2. CASE pushes' = pushes \union {[msg |-> call[h].msg, ids |-> call[h].ids]}
             /\ call[h].stage = "saving"
    <3>1. call[h].ids \in Seq(Nat) /\ Len(call[h].ids) = Len(call[h].msg.rcpts)
        BY <1>0, <2>2, IdsAreNumbers DEF Calls, CallOK
    <3> QED  BY <1>0, <1>1, <2>2, <3>1 DEF Shapes, ReplyTypes
  <2> QED  BY <2>1, <2>2
<1> QED  BY <1>2, FinishedShapes DEF ReplyMsgId

LEMMA FailedShapes ==
    ASSUME Shapes, NEW h \in Handlers, call[h].stage # "free",
           ReplyFailure(h), UNCHANGED <<save, clock, net, nextId, pushes>>
    PROVE  Shapes'
<1>1. ReplyTypes'
    BY DEF Shapes, ReplyTypes, ReplyFailure
<1> QED  BY <1>1, FinishedShapes DEF ReplyFailure

(* A handler that goes on. *)
LEMMA GoesOnShapes ==
    ASSUME Shapes, NEW h \in Handlers, NEW c \in Calls, CallOK(c), c.stage # "saving",
           call' = [call EXCEPT ![h] = c], NetTypes', nextId' \in [Users -> Nat],
           UNCHANGED <<save, clock, client, acked, pushes>>
    PROVE  Shapes'
<1>1. CallTypes'
    BY CallSet
<1> QED  BY <1>1 DEF Shapes, ClientTypes, SaveTypes, ReplyTypes

LEMMA DeliverShapes ==
    ASSUME Shapes, NEW h \in Handlers, Deliver(h)
    PROVE  Shapes'
<1> PICK x \in net :
        /\ call' = [call EXCEPT ![h] = [stage |-> "cache", msg |-> x,
                                        ids |-> << >>, saver |-> NoSaver]]
        /\ net' \subseteq net
    BY DEF Deliver
<1> DEFINE c == [stage |-> "cache", msg |-> x, ids |-> << >>, saver |-> NoSaver]
<1>1. x \in Messages /\ x.sender \in Senders
    BY DEF Shapes, NetTypes
<1>2. c \in Calls /\ CallOK(c) /\ c.stage = "cache"
    BY <1>1 DEF Calls, CallStages, CallOK
<1>3. NetTypes' /\ nextId' \in [Users -> Nat]
    BY DEF Shapes, NetTypes, Deliver
<1> QED  BY <1>2, <1>3, GoesOnShapes DEF Deliver, dbVars

(* A duplicate check. *)
LEMMA CheckShapes ==
    ASSUME Shapes, NEW h \in Handlers, call[h].stage \in {"cache", "store"},
           NEW last, last.id \in Nat, CheckDuplicate(h, last),
           UNCHANGED <<save, clock, net, nextId, pushes>>
    PROVE  Shapes'
<1>1. CASE ReplyMsgId(h, last.id)
    BY <1>1, RepliedShapes
<1>2. CASE call' = [call EXCEPT ![h].stage = "ids"] /\ UNCHANGED <<client, acked>>
  <2> DEFINE c == [call[h] EXCEPT !.stage = "ids"]
  <2>1. call[h] \in Calls /\ CallOK(call[h])
      BY DEF Shapes, CallTypes
  <2>2. call[h].ids = << >> /\ 0 < Len(call[h].msg.rcpts)
      BY <2>1, MessageFacts DEF CallOK
  <2>3. c \in Calls /\ CallOK(c) /\ c.stage = "ids"
      BY <2>1, <2>2 DEF Calls, CallStages, CallOK
  <2>4. call' = [call EXCEPT ![h] = c]
      BY <1>2 DEF Shapes, CallTypes
  <2>5. NetTypes' /\ nextId' \in [Users -> Nat]
      BY DEF Shapes, NetTypes
  <2> QED  BY <1>2, <2>3, <2>4, <2>5, GoesOnShapes
<1> QED  BY <1>1, <1>2 DEF CheckDuplicate

LEMMA CheckCacheShapes ==
    ASSUME Shapes, NEW h \in Handlers, CheckCache(h)
    PROVE  Shapes'
<1>0. call[h].stage = "cache" /\ UNCHANGED <<save, clock, net, nextId, pushes>>
    BY DEF CheckCache, vars
<1>1. ASSUME NEW key, CheckDuplicate(h, ParsedLast(key)) PROVE Shapes'
    BY <1>0, <1>1, CheckShapes DEF ParsedLast, NoLast
<1>2. CASE call' = [call EXCEPT ![h].stage = "store"] /\ UNCHANGED <<client, acked>>
  <2> DEFINE c == [call[h] EXCEPT !.stage = "store"]
  <2>1. call[h] \in Calls /\ CallOK(call[h])
      BY DEF Shapes, CallTypes
  <2>2. c \in Calls /\ CallOK(c) /\ c.stage = "store"
      BY <1>0, <2>1 DEF Calls, CallStages, CallOK
  <2>3. call' = [call EXCEPT ![h] = c]
      BY <1>2 DEF Shapes, CallTypes
  <2>4. NetTypes' /\ nextId' \in [Users -> Nat]
      BY <1>0 DEF Shapes, NetTypes
  <2> QED  BY <1>0, <1>2, <2>2, <2>3, <2>4, GoesOnShapes
<1> QED  BY <1>1, <1>2 DEF CheckCache

--------------------------------------------------------------------------------
(* A bounded set of numbers has a greatest. *)
LEMMA Greatest ==
    ASSUME NEW S, S \subseteq Nat, S # {}, NEW b \in Nat, \A k \in S : k <= b
    PROVE  \E i \in S : \A k \in S : k <= i
<1> DEFINE U == {n \in Nat : \A k \in S : k <= n}
<1>1. \E n \in U : \A k \in U : <<k, n>> \notin OpToRel(<, Nat)
  <2>1. U # {} /\ U \subseteq Nat
      OBVIOUS
  <2> HIDE DEF U
  <2> QED  BY <2>1, NatLessThanWellFounded, WFMin
<1>2. PICK n \in U : \A k \in U : <<k, n>> \notin OpToRel(<, Nat)
    BY <1>1
<1>3. ASSUME n \notin S PROVE FALSE
  <2>1. \A k \in S : k <= n - 1 /\ n - 1 \in Nat
      BY <1>3
  <2>2. n - 1 \in U /\ <<n - 1, n>> \in Nat \X Nat
      BY <2>1
  <2>3. <<n - 1, n>> \in OpToRel(<, Nat)
      BY <2>2 DEF OpToRel
  <2> QED  BY <1>2, <2>2, <2>3
<1> QED  BY <1>3

(* A message that every step to come finds stored. *)
Settled(m) == Holds(m.sender, m) /\ (m.kind = "private" => StoredEverywhere(m))

(* The sender's own rows: numbered as sent, with growing times. *)
RowsOfSent(u) ==
    /\ \A r \in OwnRows(u) :
          /\ r.no # 0 /\ r.no <= client[u].sent /\ r.time <= clock + 1
          /\ r.no = client[u].sent =>
                r.time = client[u].msg.time /\ r.kind = client[u].msg.kind
    /\ \A r, s \in OwnRows(u) : /\ r.no < s.no => r.time < s.time
                                /\ r.no = s.no => r = s

(* client_time runs ahead of the clock only behind a message of this very  *)
(* second.                                                                 *)
LastTimeIsOwn(u) ==
    client[u].lastTime > clock =>
        /\ client[u].lastTime = clock + 1
        /\ \E r \in OwnRows(u) : r.time = clock

(* A message that is not stored is later than all that are, or it has the  *)
(* time of one of them, not the last, and is never stored.                 *)
Fresh(u)  == \A r \in OwnRows(u) : r.time < client[u].lastTime
Doomed(u) == /\ \E r \in OwnRows(u) : r.time = client[u].lastTime
             /\ \E r \in OwnRows(u) : r.time > client[u].lastTime

LastMessage(u) ==
    client[u].sent # 0 =>
        IF Holds(u, client[u].msg)
        THEN Settled(client[u].msg)
        ELSE client[u].stage # "idle" /\ (Fresh(u) \/ Doomed(u))

ClientInv(u) == RowsOfSent(u) /\ LastTimeIsOwn(u) /\ LastMessage(u)

ClientsInv == \A u \in Senders : ClientInv(u)

(* The query for the last message. *)
LEMMA LastIs ==
    ASSUME DbInv, Shapes, ClientsInv, NEW u \in Senders
    PROVE  \/ OwnRows(u) = {} /\ StoredLast(u) = NoLast
           \/ \E r \in OwnRows(u) : /\ \A s \in OwnRows(u) : s.time <= r.time
                                    /\ StoredLast(u) = [time |-> r.time, id |-> r.id]
<1>1. CASE OwnRows(u) = {}
    BY <1>1 DEF StoredLast
<1>2. CASE OwnRows(u) # {}
  <2> DEFINE T == {r.time : r \in OwnRows(u)}
  <2>1. T \subseteq Nat /\ T # {}
      BY <1>2 DEF DbInv, DbTypeOK, Rows, OwnRows
  <2>2. clock + 1 \in Nat /\ \A k \in T : k <= clock + 1
      BY DEF Shapes, ClientsInv, ClientInv, RowsOfSent
  <2>3. \E i \in T : \A k \in T : k <= i
      BY <2>1, <2>2, Greatest
  <2>4. \E r \in OwnRows(u) : \A s \in OwnRows(u) : s.time <= r.time
      BY <2>3
  <2> QED  BY <1>2, <2>4 DEF StoredLast
<1> QED  BY <1>1, <1>2

LEMMA CheckStoreShapes ==
    ASSUME DbInv, Shapes, ClientsInv, NEW h \in Handlers, CheckStore(h)
    PROVE  Shapes'
<1>1. call[h].stage = "store" /\ UNCHANGED <<save, clock, net, nextId, pushes>>
    BY DEF CheckStore, vars
<1>2. call[h].msg.sender \in Senders
    BY <1>1 DEF Shapes, CallTypes, CallOK
<1>3. \A r \in rows : r.id \in Nat
    BY DEF DbInv, DbTypeOK, Rows
<1>4. StoredLast(call[h].msg.sender).id \in Nat
    BY <1>2, <1>3, LastIs DEF NoLast, OwnRows
<1> QED  BY <1>1, <1>4, CheckShapes DEF CheckStore

(* The next id of a message. *)
LEMMA NextIdIs ==
    ASSUME Shapes, NEW h \in Handlers, IdGenerate(h)
    PROVE  LET k == Len(call[h].ids) + 1
               v == call[h].msg.rcpts[k]
               n == nextId[v] + 1
               c == [call[h] EXCEPT !.ids = Append(@, n),
                                    !.stage = IF k = Len(call[h].msg.rcpts)
                                              THEN "save" ELSE "ids"]
           IN  /\ call[h].msg \in Messages /\ k \in 1 .. Len(call[h].msg.rcpts)
               /\ v \in Users /\ n \in Ids /\ n \in Nat /\ nextId[v] \in Nat
               /\ c \in Calls /\ CallOK(c) /\ c.stage \in {"save", "ids"}
               /\ c.msg = call[h].msg /\ c.ids = Append(call[h].ids, n)
               /\ call' = [call EXCEPT ![h] = c]
               /\ nextId' = [nextId EXCEPT ![v] = n] /\ nextId' \in [Users -> Nat]
<1> DEFINE k == Len(call[h].ids) + 1
           m == call[h].msg
           v == m.rcpts[k]
           n == nextId[v] + 1
           c == [call[h] EXCEPT !.ids = Append(@, n),
                                !.stage = IF k = Len(m.rcpts) THEN "save" ELSE "ids"]
<1>1. call[h].stage = "ids" /\ call[h] \in Calls /\ CallOK(call[h])
    BY DEF Shapes, CallTypes, IdGenerate
<1>2. call[h].ids \in Seq(Ids) /\ m \in Messages /\ Len(call[h].ids) < Len(m.rcpts)
      /\ m.sender \in Senders
    BY <1>1 DEF Calls, CallOK
<1>3. k \in 1 .. Len(m.rcpts) /\ k \in Nat /\ v \in Users
  <2>1. m.rcpts \in Seq(Users)
      BY <1>2, MessageFacts
  <2> HIDE DEF m
  <2>2. Len(call[h].ids) \in Nat /\ Len(m.rcpts) \in Nat
      BY <1>2, <2>1
  <2>3. k \in 1 .. Len(m.rcpts) /\ k \in Nat
      BY <1>2, <2>2
  <2> HIDE DEF k
  <2> QED  BY <2>1, <2>3
<1>4. nextId \in [Users -> Nat] /\ n \in Ids /\ n \in Nat /\ nextId[v] \in Nat
  <2>1. n \in Ids
      BY DEF IdGenerate
  <2>2. nextId \in [Users -> Nat]
      BY DEF Shapes
  <2> HIDE DEF v
  <2> QED  BY <1>3, <2>1, <2>2
<1>5. call' = [call EXCEPT ![h] = c]
    BY DEF IdGenerate, Shapes, CallTypes
<1>6. nextId' = [nextId EXCEPT ![v] = n]
    BY <1>4 DEF IdGenerate
<1>7. nextId' \in [Users -> Nat]
    BY <1>3, <1>4, <1>6
<1>8. Append(call[h].ids, n) \in Seq(Ids) /\ Len(Append(call[h].ids, n)) = k
    BY <1>2, <1>4
<1> DEFINE st == IF k = Len(m.rcpts) THEN "save" ELSE "ids"
<1>9. st \in CallStages
    BY DEF CallStages
<1>10. c \in Calls /\ c.msg = m /\ c.ids = Append(call[h].ids, n) /\ c.stage = st
  <2> DEFINE ids == Append(call[h].ids, n)
  <2>1. c = [call[h] EXCEPT !.ids = ids, !.stage = st]
      OBVIOUS
  <2>2. ids \in Seq(Ids)
      BY <1>8
  <2> HIDE DEF c, ids, st
  <2>3. c \in Calls /\ c.msg = call[h].msg /\ c.ids = ids /\ c.stage = st
      BY <1>1, <1>9, <2>1, <2>2 DEF Calls
  <2> QED  BY <2>3 DEF ids
<1>11. CallOK(c)
  <2> HIDE DEF c, m
  <2>1. k # Len(m.rcpts) => k < Len(m.rcpts)
      BY <1>2, <1>3, MessageFacts
  <2> QED  BY <1>2, <1>8, <1>10, <2>1 DEF CallOK
<1> QED  BY <1>2, <1>3, <1>4, <1>5, <1>6, <1>7, <1>10, <1>11

LEMMA NextIdGiven ==
    ASSUME Shapes, NEW h \in Handlers, IdGenerate(h)
    PROVE  \E c \in Calls, v \in Users, n \in Nat :
              /\ c.msg = call[h].msg /\ c.ids = Append(call[h].ids, n) /\ c.stage # "free"
              /\ call' = [call EXCEPT ![h] = c]
              /\ nextId' = [nextId EXCEPT ![v] = n]
              /\ n = nextId[v] + 1 /\ nextId[v] \in Nat
              /\ Len(call[h].ids) + 1 \in 1 .. Len(call[h].msg.rcpts)
              /\ v = call[h].msg.rcpts[Len(call[h].ids) + 1]
              /\ call[h].msg \in Messages /\ call[h].stage = "ids"
<1> DEFINE k == Len(call[h].ids) + 1
           v == call[h].msg.rcpts[k]
           n == nextId[v] + 1
           c == [call[h] EXCEPT !.ids = Append(@, n),
                                !.stage = IF k = Len(call[h].msg.rcpts) THEN "save" ELSE "ids"]
<1>1. /\ call[h].msg \in Messages /\ k \in 1 .. Len(call[h].msg.rcpts)
      /\ v \in Users /\ n \in Nat /\ nextId[v] \in Nat
      /\ c \in Calls /\ c.stage \in {"save", "ids"}
      /\ c.msg = call[h].msg /\ c.ids = Append(call[h].ids, n)
      /\ call' = [call EXCEPT ![h] = c]
      /\ nextId' = [nextId EXCEPT ![v] = n]
    BY NextIdIs
<1>2. call[h].stage = "ids" /\ n = nextId[v] + 1
    BY DEF IdGenerate
<1> HIDE DEF c, n
<1>3. c.stage # "free"
    BY <1>1
<1> QED  BY <1>1, <1>2, <1>3

LEMMA IdGenerateShapes ==
    ASSUME Shapes, NEW h \in Handlers, IdGenerate(h)
    PROVE  Shapes'
<1>1. nextId' \in [Users -> Nat] /\ NetTypes'
    BY NextIdIs DEF IdGenerate, Shapes, NetTypes
<1>2. \E c \in Calls : CallOK(c) /\ c.stage # "saving" /\ call' = [call EXCEPT ![h] = c]
    BY NextIdIs
<1> QED  BY <1>1, <1>2, GoesOnShapes DEF IdGenerate, vars

(* A call of dbproxy's Save by a handler nobody waits for. *)
LEMMA CallSaveIs ==
    ASSUME DbInv, Shapes, NEW h \in Handlers, CallSave(h)
    PROVE  \E w \in Savers, c \in Calls :
              /\ CallOK(c) /\ c.msg = call[h].msg /\ c.ids = call[h].ids
              /\ c.stage = "saving" /\ c.saver = w
              /\ call' = [call EXCEPT ![h] = c]
              /\ save' = [save EXCEPT ![w] = [stage |-> "insert", msg |-> call[h].msg,
                                              ids |-> call[h].ids, done |-> 0]]
              /\ save[w].stage \in {"free", "saved", "failed"}
              /\ \A g \in Handlers : call[g].stage = "saving" => call[g].saver # w
              /\ call[h].stage = "save" /\ call[h].msg.sender \in Senders
              /\ call[h].msg \in Messages
<1> PICK w \in Savers : /\ ~Awaited(w)
                        /\ Save(w, call[h].msg, call[h].ids)
                        /\ call' = [call EXCEPT ![h].stage = "saving", ![h].saver = w]
    BY DEF CallSave
<1> DEFINE c == [call[h] EXCEPT !.stage = "saving", !.saver = w]
<1>1. call[h].stage = "save" /\ call[h] \in Calls /\ CallOK(call[h])
    BY DEF Shapes, CallTypes, CallSave
<1>2. /\ c \in Calls /\ CallOK(c) /\ c.msg = call[h].msg /\ c.ids = call[h].ids
      /\ c.stage = "saving" /\ c.saver = w /\ call[h].msg.sender \in Senders
      /\ call[h].msg \in Messages
    BY <1>1 DEF Calls, CallStages, CallOK
<1>3. call' = [call EXCEPT ![h] = c]
    BY DEF Shapes, CallTypes
<1> HIDE DEF c
<1> QED  BY <1>1, <1>2, <1>3 DEF Awaited, Save

LEMMA CallSaveShapes ==
    ASSUME DbInv, Shapes, NEW h \in Handlers, CallSave(h)
    PROVE  Shapes'
<1> PICK w \in Savers, c \in Calls :
        /\ CallOK(c) /\ c.msg = call[h].msg /\ c.ids = call[h].ids
        /\ c.stage = "saving" /\ c.saver = w /\ call[h].msg.sender \in Senders
        /\ call' = [call EXCEPT ![h] = c]
        /\ save' = [save EXCEPT ![w] = [stage |-> "insert", msg |-> call[h].msg,
                                        ids |-> call[h].ids, done |-> 0]]
        /\ \A g \in Handlers : call[g].stage = "saving" => call[g].saver # w
    BY CallSaveIs
<1>1. call \in [Handlers -> Calls] /\ (\A g \in Handlers : CallOK(call[g])) /\ SavesOwn
      /\ save \in [Savers -> Handler]
    BY HandlersOK DEF Shapes, CallTypes, DbInv, HandlerOK
<1>2. /\ \A g \in Handlers : call'[g] = IF g = h THEN c ELSE call[g]
      /\ \A v \in Savers : v # w => save'[v] = save[v]
      /\ save'[w].stage = "insert" /\ save'[w].msg = c.msg /\ save'[w].ids = c.ids
    BY <1>1
<1>3. SavesOwn'
  <2> SUFFICES ASSUME NEW g \in Handlers, call'[g].stage = "saving"
               PROVE  /\ save'[call'[g].saver].stage # "free"
                      /\ save'[call'[g].saver].msg = call'[g].msg
                      /\ save'[call'[g].saver].ids = call'[g].ids
      BY DEF SavesOwn
  <2>1. CASE g = h
      BY <1>2, <2>1
  <2>2. CASE g # h
    <3>1. call'[g] = call[g] /\ call[g].saver \in Savers /\ call[g].saver # w
        BY <1>1, <1>2, <2>2 DEF CallOK
    <3> QED  BY <1>1, <1>2, <3>1 DEF SavesOwn
  <2> QED  BY <2>1, <2>2
<1>4. CallTypes'
    BY <1>1, <1>2, <1>3 DEF CallTypes
<1>5. SaveTypes'
    BY <1>2 DEF Shapes, SaveTypes
<1> QED  BY <1>4, <1>5 DEF CallSave, Shapes, ClientTypes, NetTypes, ReplyTypes

LEMMA ReplyShapes ==
    ASSUME Shapes, NEW h \in Handlers,
           SaveSucceeds(h) \/ SaveFails(h) \/ SaveTimeout(h) \/ CallFails(h)
    PROVE  Shapes'
<1>1. CASE SaveSucceeds(h)
  <2>1. call[h].stage = "saving" /\ call[h] \in Calls /\ CallOK(call[h])
      BY <1>1 DEF SaveSucceeds, SaveDone, Shapes, CallTypes
  <2>2. call[h].ids \in Seq(Ids) /\ call[h].msg \in Messages
        /\ Len(call[h].ids) = Len(call[h].msg.rcpts)
      BY <2>1 DEF Calls, CallOK
  <2>3. call[h].ids[1] \in Nat
    <3>1. call[h].ids \in Seq(Nat) /\ 1 \in 1 .. Len(call[h].ids)
        BY <2>2, IdsAreNumbers, MessageFacts
    <3> QED  BY <3>1
  <2> QED  BY <1>1, <2>1, <2>3, RepliedShapes DEF SaveSucceeds, vars
<1>2. CASE SaveFails(h)
    BY <1>2, FailedShapes DEF SaveFails, vars
<1>3. CASE SaveTimeout(h) \/ CallFails(h)
    BY <1>3, FailedShapes DEF SaveTimeout, CallFails, dbVars
<1> QED  BY <1>1, <1>2, <1>3

LEMMA DbproxyShapes ==
    ASSUME DbInv, Shapes, NEW w \in Savers, DbproxyStep(w)
    PROVE  Shapes'
<1>1. /\ save' = [save EXCEPT ![w] = save'[w]]
      /\ save'[w].msg = save[w].msg /\ save'[w].ids = save[w].ids
      /\ save[w].stage # "free" /\ save'[w].stage # "free"
  <2>1. save \in [Savers -> Handler] /\ SaveStep(w)
      BY HandlersOK DEF DbInv, HandlerOK, DbproxyStep
  <2>2. save[w].stage # "free" /\ save'[w].stage # "free"
      BY <2>1 DEF SaveStep, Insert, InsertRejected, InsertFails,
                  SetUserLastSendData, SetUserLastSendDataFails, Handler
  <2> QED  BY <2>1, <2>2, SaveChange DEF DbInv
<1>2. \A v \in Savers : /\ save'[v].msg = save[v].msg /\ save'[v].ids = save[v].ids
                        /\ save[v].stage = "free" <=> save'[v].stage = "free"
  <2>1. save \in [Savers -> Handler]
      BY HandlersOK DEF DbInv, HandlerOK
  <2> QED  BY <1>1, <2>1
<1>3. SavesOwn'
    BY <1>2 DEF DbproxyStep, sendVars, Shapes, CallTypes, SavesOwn, CallOK
<1>4. SaveTypes'
    BY <1>2 DEF Shapes, SaveTypes
<1> QED  BY <1>3, <1>4 DEF DbproxyStep, sendVars, Shapes, ClientTypes, NetTypes, CallTypes,
                           ReplyTypes

(* The next message of an idle client. *)
LEMMA NextMessageIs ==
    ASSUME Shapes, NEW u \in Senders, ClientSend(u)
    PROVE  \E m \in Messages :
              /\ m.sender = u /\ m.no = client[u].sent + 1 /\ m.time = ClientTime(u)
              /\ client' = [client EXCEPT ![u] =
                              [stage |-> "calling", msg |-> m,
                               sent |-> m.no, lastTime |-> m.time]]
              /\ net' = net \union {m}
              /\ m.time \in Nat \ {0} /\ m.no \in Nat \ {0}
<1>1. PICK p \in Peers :
        LET m == [sender |-> u, no |-> client[u].sent + 1,
                  time |-> ClientTime(u), kind |-> p.kind, rcpts |-> <<u>> \o p.to]
        IN
        /\ m \in Messages
        /\ client' = [client EXCEPT ![u] =
                        [stage |-> "calling", msg |-> m,
                         sent |-> m.no, lastTime |-> m.time]]
        /\ net' = net \union {m}
    BY DEF ClientSend
<1> DEFINE m == [sender |-> u, no |-> client[u].sent + 1,
                 time |-> ClientTime(u), kind |-> p.kind, rcpts |-> <<u>> \o p.to]
<1>2. m.sender = u /\ m.no = client[u].sent + 1 /\ m.time = ClientTime(u)
    OBVIOUS
<1>3. client[u].sent \in Nat /\ clock \in Nat \ {0}
    BY DEF Shapes, ClientTypes, Programs
<1>4. ClientTime(u) \in Nat \ {0}
    BY <1>3 DEF ClientTime
<1>5. /\ m \in Messages
      /\ client' = [client EXCEPT ![u] =
                      [stage |-> "calling", msg |-> m,
                       sent |-> m.no, lastTime |-> m.time]]
      /\ net' = net \union {m}
    BY <1>1
<1>6. m.time \in Nat \ {0} /\ m.no \in Nat \ {0}
    BY <1>2, <1>3, <1>4
<1>7. m \in Messages
    BY <1>5
<1> HIDE DEF m
<1> QED  BY <1>2, <1>5, <1>6, <1>7

LEMMA ClientShapes ==
    ASSUME Shapes, NEW u \in Senders, ClientSend(u) \/ ClientTimeout(u) \/ ClientQuit(u)
    PROVE  Shapes'
<1>0. UNCHANGED <<save, clock, call, nextId, acked, pushes>>
    BY DEF ClientSend, ClientTimeout, ClientQuit, vars, dbVars
<1>1. client \in [Senders -> Programs] /\ \A v \in Senders : ClientOK(client[v], v)
    BY DEF Shapes, ClientTypes
<1>2. ASSUME ClientTypes', NetTypes' PROVE Shapes'
    BY <1>0, <1>2 DEF Shapes, CallTypes, SavesOwn, SaveTypes, ReplyTypes
<1>3. CASE ClientSend(u)
  <2> PICK m \in Messages :
        /\ m.sender = u /\ m.no = client[u].sent + 1 /\ m.time = ClientTime(u)
        /\ client' = [client EXCEPT ![u] =
                        [stage |-> "calling", msg |-> m,
                         sent |-> m.no, lastTime |-> m.time]]
        /\ net' = net \union {m}
        /\ m.time \in Nat \ {0} /\ m.no \in Nat \ {0}
      BY <1>3, NextMessageIs
  <2>1. ClientTypes'
      BY <1>1 DEF ClientTypes, Programs, ClientOK
  <2>2. NetTypes'
      BY DEF Shapes, NetTypes
  <2> QED  BY <1>2, <2>1, <2>2
<1>4. CASE ClientTimeout(u)
  <2>1. client' = [client EXCEPT ![u].stage = "failed"] /\ net' = net /\ client[u].stage = "calling"
      BY <1>4 DEF ClientTimeout
  <2>2. ClientTypes'
      BY <1>1, <2>1 DEF ClientTypes, Programs, ClientOK
  <2> QED  BY <1>2, <2>1, <2>2 DEF Shapes, NetTypes
<1>5. CASE ClientQuit(u)
  <2>1. client' = [client EXCEPT ![u].stage = "ended"] /\ net' = net /\ client[u].stage = "failed"
      BY <1>5 DEF ClientQuit
  <2>2. ClientTypes'
      BY <1>1, <2>1 DEF ClientTypes, Programs, ClientOK
  <2> QED  BY <1>2, <2>1, <2>2 DEF Shapes, NetTypes
<1> QED  BY <1>3, <1>4, <1>5

(* Every step keeps the shapes. *)
LEMMA ShapesStep ==
    ASSUME DbInv, Shapes, ClientsInv, [Next]_allVars
    PROVE  Shapes'
<1>1. CASE Tick
    BY <1>1 DEF Tick, vars, Shapes, ClientTypes, NetTypes, CallTypes, SavesOwn, SaveTypes, ReplyTypes
<1>2. ASSUME NEW h \in Handlers, LogicStep(h) PROVE Shapes'
    BY <1>2, DeliverShapes, CheckCacheShapes, CheckStoreShapes, IdGenerateShapes,
       CallSaveShapes, ReplyShapes DEF LogicStep
<1>3. CASE UNCHANGED allVars
    BY <1>3 DEF allVars, vars, sendVars, Shapes, ClientTypes, NetTypes, CallTypes, SavesOwn,
                SaveTypes, ReplyTypes
<1>4. ASSUME NEW u \in Users, KeyExpires(u) PROVE Shapes'
    BY <1>4 DEF KeyExpires, Expire, sendVars, Shapes, ClientTypes, NetTypes, CallTypes, SavesOwn,
                SaveTypes, ReplyTypes
<1> QED  BY <1>1, <1>2, <1>3, <1>4, ClientShapes, DbproxyShapes DEF Next

--------------------------------------------------------------------------------
(* The rows. *)
Grows(w) == /\ save[w].stage = "insert" /\ ~Conflicts(Statement(w))
            /\ rows' = rows \union Statement(w)

(* Only an INSERT adds rows, and touches nothing of logic or the clients. *)
LEMMA RowSteps ==
    ASSUME [Next]_allVars
    PROVE  rows' = rows \/ \E w \in Savers : Grows(w) /\ SaveStep(w) /\ UNCHANGED sendVars
<1>1. CASE Tick \/ UNCHANGED allVars
    BY <1>1 DEF Tick, allVars, vars
<1>2. ASSUME NEW u \in Senders, ClientSend(u) \/ ClientTimeout(u) \/ ClientQuit(u)
      PROVE  rows' = rows
    BY <1>2 DEF ClientSend, ClientTimeout, ClientQuit, vars, dbVars
<1>3. ASSUME NEW h \in Handlers, LogicStep(h) PROVE rows' = rows
    BY <1>3 DEF LogicStep, Deliver, CheckCache, CheckStore, IdGenerate, CallFails, CallSave,
                SaveSucceeds, SaveFails, SaveTimeout, Save, vars, dbVars
<1>4. ASSUME NEW w \in Savers, DbproxyStep(w)
      PROVE  rows' = rows \/ (Grows(w) /\ SaveStep(w) /\ UNCHANGED sendVars)
    BY <1>4 DEF DbproxyStep, SaveStep, Insert, InsertRejected, InsertFails,
                SetUserLastSendData, SetUserLastSendDataFails, Grows
<1>5. ASSUME NEW u \in Users, KeyExpires(u) PROVE rows' = rows
    BY <1>5 DEF KeyExpires, Expire
<1> QED  BY <1>1, <1>2, <1>3, <1>4, <1>5 DEF Next

(* A message's mailboxes are different, and only the first is its sender's. *)
LEMMA OwnRowIsFirst ==
    ASSUME NEW m \in Messages, NEW ids, NEW i \in 1 .. Len(m.rcpts)
    PROVE  /\ Row(m, ids, i).user = m.rcpts[i] /\ Row(m, ids, i).sender = m.sender
           /\ Row(m, ids, i).time = m.time /\ Row(m, ids, i).no = m.no
           /\ Row(m, ids, i).kind = m.kind /\ Row(m, ids, i).id = ids[i]
           /\ i # 1 => m.rcpts[i] # m.sender
<1>1. \A j \in 1 .. Len(m.rcpts) : m.rcpts[i] = m.rcpts[j] => i = j
    BY DbproxyAssumption
<1>2. 1 \in 1 .. Len(m.rcpts) /\ m.rcpts[1] = m.sender
    BY MessageFacts
<1> QED  BY <1>1, <1>2 DEF Row

(* What the next statement of a message inserts. *)
LEMMA StatementIs ==
    ASSUME DbInv, NEW w \in Savers, save[w].stage = "insert",
           NEW m, m = save[w].msg, NEW ids, ids = save[w].ids
    PROVE  /\ m \in Messages
           /\ \A r \in Statement(w) : \E i \in 1 .. Len(m.rcpts) : r = Row(m, ids, i)
           /\ save[w].done = 0 =>
                /\ Row(m, ids, 1) \in Statement(w)
                /\ m.kind = "private" =>
                     \A i \in 1 .. Len(m.rcpts) : Row(m, ids, i) \in Statement(w)
           /\ save[w].done # 0 =>
                /\ Row(m, ids, 1) \in rows
                /\ \A r \in Statement(w) : r.user # m.sender
<1>0. HandlerOK(save[w])
    BY HandlersOK DEF DbInv
<1>1. m \in Messages /\ save[w].done \in Nat /\ save[w].done < Statements(m)
    BY <1>0 DEF HandlerOK, Handler
<1>2. Statement(w) = Inserted(m, ids, save[w].done + 1)
    BY DEF Statement
<1>3. Len(m.rcpts) \in Nat \ {0} /\ Statements(m) <= Len(m.rcpts) /\ Statements(m) \in Nat
    BY <1>1, MessageFacts
<1>4. \A r \in Statement(w) : \E i \in 1 .. Len(m.rcpts) : r = Row(m, ids, i)
  <2>1. save[w].done + 1 \in 1 .. Len(m.rcpts)
      BY <1>1, <1>3
  <2> QED  BY <1>2, <2>1 DEF Inserted
<1>5. ASSUME save[w].done = 0
      PROVE  /\ Row(m, ids, 1) \in Statement(w)
             /\ m.kind = "private" =>
                  \A i \in 1 .. Len(m.rcpts) : Row(m, ids, i) \in Statement(w)
  <2>1. Statement(w) = Inserted(m, ids, 1) /\ 1 \in 1 .. Len(m.rcpts)
      BY <1>2, <1>3, <1>5
  <2> QED  BY <2>1 DEF Inserted
<1>6. ASSUME save[w].done # 0
      PROVE  Row(m, ids, 1) \in rows /\ \A r \in Statement(w) : r.user # m.sender
  <2>1. m.kind # "private" /\ 1 \in 1 .. save[w].done
      BY <1>1, <1>6 DEF Statements
  <2>2. Row(m, ids, 1) \in rows
    <3>1. Inserted(m, ids, 1) \subseteq rows
        BY <2>1 DEF DbInv, RowsOfDone
    <3> QED  BY <2>1, <3>1 DEF Inserted
  <2>3. save[w].done + 1 \in 1 .. Len(m.rcpts) /\ save[w].done + 1 # 1
      BY <1>1, <1>3, <1>6
  <2>4. Row(m, ids, save[w].done + 1).user # m.sender
      BY <1>1, <2>3, OwnRowIsFirst
  <2>5. Statement(w) = {Row(m, ids, save[w].done + 1)}
      BY <1>2, <2>1 DEF Inserted
  <2> QED  BY <2>2, <2>4, <2>5
<1> QED  BY <1>1, <1>4, <1>5, <1>6

(* UNIQUE KEY (user_id, sender, client_time). *)
UniqueKey == \A r, s \in rows : SameKey(r, s) => r = s

LEMMA UniqueKeyStep ==
    ASSUME DbInv, UniqueKey, [Next]_allVars
    PROVE  UniqueKey'
<1>1. ASSUME NEW w \in Savers, Grows(w) PROVE UniqueKey'
  <2>1. ASSUME NEW r \in Statement(w), NEW s \in Statement(w), SameKey(r, s) PROVE r = s
    <3> DEFINE m == save[w].msg
               ids == save[w].ids
    <3>1. m \in Messages /\ \A q \in Statement(w) : \E i \in 1 .. Len(m.rcpts) : q = Row(m, ids, i)
        BY <1>1, StatementIs DEF Grows
    <3> HIDE DEF m, ids
    <3>2. PICK i \in 1 .. Len(m.rcpts) : r = Row(m, ids, i)
        BY <3>1
    <3>3. PICK j \in 1 .. Len(m.rcpts) : s = Row(m, ids, j)
        BY <3>1
    <3>4. r.user = m.rcpts[i] /\ s.user = m.rcpts[j]
        BY <3>1, <3>2, <3>3, OwnRowIsFirst
    <3>5. m.rcpts[i] = m.rcpts[j]
        BY <2>1, <3>4 DEF SameKey
    <3>6. i = j
        BY <3>1, <3>5, DbproxyAssumption
    <3> QED  BY <3>2, <3>3, <3>6
  <2>2. ASSUME NEW r \in rows, NEW s \in Statement(w) PROVE ~SameKey(r, s) /\ ~SameKey(s, r)
      BY <1>1, <2>2 DEF Grows, Conflicts, SameKey
  <2> QED  BY <1>1, <2>1, <2>2 DEF Grows, UniqueKey
<1>2. CASE rows' = rows
    BY <1>2 DEF UniqueKey, SameKey
<1> QED  BY <1>1, <1>2, RowSteps

(* A sender's own rows grow only by the first statement of his message. *)
LEMMA OwnRowsGrow ==
    ASSUME DbInv, NEW w \in Savers, Grows(w), NEW u,
           NEW m, m = save[w].msg, NEW ids, ids = save[w].ids
    PROVE  \/ OwnRows(u)' = OwnRows(u)
           \/ /\ u = m.sender /\ save[w].done = 0 /\ m \in Messages
              /\ OwnRows(u)' = OwnRows(u) \union {Row(m, ids, 1)}
              /\ \A r \in OwnRows(u) : r.time # m.time
<1>1. /\ m \in Messages
      /\ \A r \in Statement(w) : \E i \in 1 .. Len(m.rcpts) : r = Row(m, ids, i)
      /\ save[w].done = 0 => Row(m, ids, 1) \in Statement(w)
      /\ save[w].done # 0 => \A r \in Statement(w) : r.user # m.sender
    BY StatementIs DEF Grows
<1>2. \A r \in Statement(w) : r.sender = m.sender /\ (r.user = m.sender => r = Row(m, ids, 1))
    BY <1>1, OwnRowIsFirst
<1>3. CASE u # m.sender \/ save[w].done # 0
    BY <1>1, <1>2, <1>3 DEF Grows, OwnRows
<1>4. CASE u = m.sender /\ save[w].done = 0
  <2>1. Row(m, ids, 1) \in Statement(w) /\ Row(m, ids, 1).user = u
        /\ Row(m, ids, 1).sender = u /\ Row(m, ids, 1).time = m.time
      BY <1>1, <1>4, MessageFacts DEF Row
  <2>2. OwnRows(u)' = OwnRows(u) \union {Row(m, ids, 1)}
      BY <1>2, <1>4, <2>1 DEF Grows, OwnRows
  <2>3. \A r \in OwnRows(u) : r.time # m.time
      BY <2>1 DEF Grows, Conflicts, SameKey, OwnRows
  <2> QED  BY <1>1, <1>4, <2>2, <2>3
<1> QED  BY <1>3, <1>4

--------------------------------------------------------------------------------
(* Rows are never removed, and what they settle stays settled. *)
LEMMA SettledStays ==
    ASSUME rows \subseteq rows'
    PROVE  /\ \A v, m : Holds(v, m) => Holds(v, m)'
           /\ \A m : StoredEverywhere(m) => StoredEverywhere(m)'
           /\ \A m : Settled(m) => Settled(m)'
<1>1. \A v, m : Holds(v, m) => Holds(v, m)'
    BY DEF Holds
<1>2. \A m : StoredEverywhere(m) => StoredEverywhere(m)'
    BY <1>1 DEF StoredEverywhere
<1> QED  BY <1>1, <1>2 DEF Settled

(* A save that succeeds has stored every row. *)
LEMMA SavedIsStored ==
    ASSUME DbInv, Shapes, NEW h \in Handlers, SaveDone(h),
           NEW m, m = call[h].msg, NEW ids, ids = call[h].ids
    PROVE  /\ m \in Messages /\ m.sender \in Senders /\ Len(ids) = Len(m.rcpts)
           /\ \A i \in 1 .. Len(m.rcpts) : Row(m, ids, i) \in rows
           /\ OwnRow(m, ids[1]) \in rows
           /\ StoredEverywhere(m) /\ Settled(m)
<1>1. call[h].stage = "saving" /\ CallOK(call[h]) /\ save[call[h].saver].stage = "saved"
    BY DEF SaveDone, Shapes, CallTypes
<1>2. m \in Messages /\ m.sender \in Senders /\ Len(ids) = Len(m.rcpts) /\ call[h].saver \in Savers
    BY <1>1 DEF CallOK
<1>3. save[call[h].saver].msg = m /\ save[call[h].saver].ids = ids
    BY <1>1 DEF Shapes, CallTypes, SavesOwn
<1>4. \A i \in 1 .. Len(m.rcpts) : Row(m, ids, i) \in rows
    BY <1>1, <1>2, <1>3, AllStored DEF DbInv
<1>5. \A i \in 1 .. Len(m.rcpts) : Holds(m.rcpts[i], m)
    BY <1>2, <1>4, OwnRowIsFirst DEF Holds
<1>6. 1 \in 1 .. Len(m.rcpts) /\ m.rcpts[1] = m.sender
    BY <1>2, MessageFacts
<1>7. OwnRow(m, ids[1]) \in rows
    BY <1>4, <1>6 DEF Row, OwnRow
<1> QED  BY <1>2, <1>4, <1>5, <1>6, <1>7 DEF StoredEverywhere, Settled

(* The query finds the current message exactly when it is stored. *)
LEMMA FoundIsStored ==
    ASSUME DbInv, Shapes, UniqueKey, ClientsInv, NEW h \in Handlers,
           call[h].stage # "free", Waiting(h), NEW m, m = call[h].msg,
           StoredLast(m.sender).time = m.time
    PROVE  OwnRow(m, StoredLast(m.sender).id) \in rows /\ Settled(m)
<1> DEFINE u == m.sender
<1>1. u \in Senders /\ client[u].msg = m /\ client[u].stage = "calling"
    BY DEF Waiting, Shapes, CallTypes, CallOK
<1>2. ClientOK(client[u], u) /\ ClientInv(u)
    BY <1>1 DEF Shapes, ClientTypes, ClientsInv
<1>3. client[u].sent # 0 /\ m.time = client[u].lastTime /\ m.time # 0 /\ m.time \in Nat
      /\ client[u].lastTime \in Nat
    BY <1>1, <1>2 DEF ClientOK, Shapes, ClientTypes, Programs
<1>4. PICK r \in OwnRows(u) : /\ \A s \in OwnRows(u) : s.time <= r.time
                              /\ StoredLast(u) = [time |-> r.time, id |-> r.id]
    BY <1>1, <1>3, LastIs DEF NoLast
<1>5. r \in Rows /\ r \in rows /\ r.user = u /\ r.sender = u /\ r.time = m.time
    BY <1>4 DEF OwnRows, DbInv, DbTypeOK
<1>6. Holds(u, m)
  <2>1. ASSUME Fresh(u) PROVE FALSE
      BY <1>3, <1>4, <1>5, <2>1 DEF Fresh, Rows
  <2>2. ASSUME Doomed(u) PROVE FALSE
    <3>1. PICK s \in OwnRows(u) : s.time > m.time
        BY <1>3, <2>2 DEF Doomed
    <3>2. s.time <= r.time /\ s.time \in Nat
        BY <1>4, <3>1 DEF OwnRows, DbInv, DbTypeOK, Rows
    <3> QED  BY <1>3, <1>5, <3>1, <3>2
  <2> QED  BY <1>1, <1>2, <1>3, <2>1, <2>2 DEF ClientInv, LastMessage
<1>7. PICK s \in rows : /\ s.user = u /\ s.sender = m.sender /\ s.time = m.time
                        /\ s.no = m.no /\ s.kind = m.kind
    BY <1>6 DEF Holds
<1>8. r = s
    BY <1>5, <1>7 DEF UniqueKey, SameKey
<1>9. r = OwnRow(m, r.id)
    BY <1>5, <1>7, <1>8 DEF Rows, OwnRow
<1>10. Settled(m)
    BY <1>1, <1>2, <1>3, <1>6 DEF ClientInv, LastMessage
<1> QED  BY <1>4, <1>5, <1>9, <1>10

(* Through the Redis key nothing is ever taken for a retransmission.       *)
LEMMA NeverParsed ==
    ASSUME Shapes, NEW h \in Handlers, call[h].stage # "free", Waiting(h), NEW key
    PROVE  ParsedLast(key).time # call[h].msg.time
<1> DEFINE u == call[h].msg.sender
<1>1. u \in Senders /\ client[u].msg = call[h].msg /\ client[u].stage = "calling"
    BY DEF Waiting, Shapes, CallTypes, CallOK
<1>2. ClientOK(client[u], u) /\ client[u].lastTime \in Nat
    BY <1>1 DEF Shapes, ClientTypes, Programs
<1> QED  BY <1>1, <1>2 DEF ClientOK, ParsedLast, NoLast

--------------------------------------------------------------------------------
(* A client goes on only when its message is stored and confirmed.         *)
GoesOn(u) == client'[u].stage = "idle" =>
                \/ client[u].stage = "idle"
                \/ /\ Settled(client[u].msg)
                   /\ \E k \in acked' : k.msg = client[u].msg

(* What a reply says, and to whom. *)
ReplyStep(h) ==
    /\ \A u \in Senders : SameSend(u) /\ GoesOn(u)
    /\ \/ acked' = acked
       \/ \E id : /\ acked' = acked \union {[msg |-> call[h].msg, id |-> id]}
                  /\ OwnRow(call[h].msg, id) \in rows /\ Settled(call[h].msg)
                  /\ Waiting(h)

LEMMA MsgIdReplied ==
    ASSUME Shapes, NEW h \in Handlers, call[h].stage # "free", NEW id, ReplyMsgId(h, id),
           Waiting(h) => OwnRow(call[h].msg, id) \in rows /\ Settled(call[h].msg)
    PROVE  ReplyStep(h)
<1>1. \A u \in Senders :
         /\ SameSend(u)
         /\ client'[u].stage = client[u].stage
              \/ (client'[u].stage = "idle" /\ Waiting(h) /\ client[u].msg = call[h].msg)
    BY Finished DEF ReplyMsgId
<1>2. \A u \in Senders : GoesOn(u)
  <2>1. Waiting(h) => Settled(call[h].msg) /\ \E k \in acked' : k.msg = call[h].msg
    <3> PICK k : k = [msg |-> call[h].msg, id |-> id]
        OBVIOUS
    <3>1. k.msg = call[h].msg /\ (Waiting(h) => k \in acked')
        BY DEF ReplyMsgId
    <3> QED  BY <3>1
  <2> QED  BY <1>1, <2>1 DEF GoesOn
<1> QED  BY <1>1, <1>2 DEF ReplyMsgId, ReplyStep

LEMMA FailureReplied ==
    ASSUME Shapes, NEW h \in Handlers, call[h].stage # "free", ReplyFailure(h)
    PROVE  ReplyStep(h)
<1>1. \A u \in Senders :
         SameSend(u) /\ (client'[u].stage = client[u].stage \/ client'[u].stage = "failed")
    BY Finished DEF ReplyFailure
<1> QED  BY <1>1 DEF ReplyFailure, ReplyStep, GoesOn

LEMMA NothingReplied ==
    ASSUME NEW h, UNCHANGED <<client, acked>>
    PROVE  ReplyStep(h)
BY DEF ReplyStep, SameSend, GoesOn

LEMMA ReplySteps ==
    ASSUME DbInv, Shapes, UniqueKey, ClientsInv, NEW h \in Handlers, LogicStep(h)
    PROVE  ReplyStep(h)
<1>1. CASE Deliver(h) \/ IdGenerate(h) \/ CallSave(h)
    BY <1>1, NothingReplied DEF Deliver, IdGenerate, CallSave
<1>2. CASE CallFails(h) \/ SaveFails(h) \/ SaveTimeout(h)
    BY <1>2, FailureReplied DEF CallFails, SaveFails, SaveTimeout
<1>3. CASE SaveSucceeds(h)
  <2>1. OwnRow(call[h].msg, call[h].ids[1]) \in rows /\ Settled(call[h].msg)
      BY <1>3, SavedIsStored DEF SaveSucceeds
  <2> QED  BY <1>3, <2>1, MsgIdReplied DEF SaveSucceeds, SaveDone
<1>4. CASE CheckStore(h)
  <2> DEFINE last == StoredLast(call[h].msg.sender)
  <2>1. call[h].stage = "store" /\ CheckDuplicate(h, last)
      BY <1>4 DEF CheckStore
  <2>2. CASE last.time = call[h].msg.time
    <3>1. Waiting(h) => OwnRow(call[h].msg, last.id) \in rows /\ Settled(call[h].msg)
        BY <2>1, <2>2, FoundIsStored
    <3> QED  BY <2>1, <2>2, <3>1, MsgIdReplied DEF CheckDuplicate
  <2>3. CASE last.time # call[h].msg.time
      BY <2>1, <2>3, NothingReplied DEF CheckDuplicate
  <2> QED  BY <2>2, <2>3
<1>5. CASE CheckCache(h)
  <2> DEFINE last == ParsedLast(lastSend[call[h].msg.sender])
  <2>1. call[h].stage = "cache"
        /\ (CheckDuplicate(h, last) \/ UNCHANGED <<client, acked>>)
      BY <1>5 DEF CheckCache
  <2>2. CASE CheckDuplicate(h, last) /\ last.time = call[h].msg.time
    <3>1. ~Waiting(h)
        BY <2>1, <2>2, NeverParsed
    <3> QED  BY <2>1, <2>2, <3>1, MsgIdReplied DEF CheckDuplicate
  <2>3. CASE CheckDuplicate(h, last) /\ last.time # call[h].msg.time
      BY <2>3, NothingReplied DEF CheckDuplicate
  <2> QED  BY <2>1, <2>2, <2>3, NothingReplied
<1> QED  BY <1>1, <1>2, <1>3, <1>4, <1>5 DEF LogicStep

(* In every step a client keeps its message, or is idle and sends the next. *)
LEMMA ClientSteps ==
    ASSUME DbInv, Shapes, UniqueKey, ClientsInv, [Next]_allVars, NEW u \in Senders
    PROVE  \/ ClientSend(u)
           \/ SameSend(u) /\ clock' \in {clock, clock + 1} /\ GoesOn(u)
<1>0. client \in [Senders -> Programs]
    BY DEF Shapes, ClientTypes
<1>1. CASE Tick \/ UNCHANGED allVars
    BY <1>1 DEF Tick, allVars, sendVars, SameSend, GoesOn
<1>2. ASSUME NEW v \in Senders, ClientSend(v), v # u
      PROVE  client'[u] = client[u] /\ clock' = clock
    BY <1>0, <1>2 DEF ClientSend
<1>3. ASSUME NEW v \in Senders, ClientTimeout(v) \/ ClientQuit(v)
      PROVE  /\ SameSend(u) /\ clock' = clock
             /\ client'[u].stage # "idle" \/ client'[u] = client[u]
    BY <1>0, <1>3 DEF ClientTimeout, ClientQuit, SameSend, Programs
<1>4. ASSUME NEW h \in Handlers, LogicStep(h)
      PROVE  SameSend(u) /\ clock' = clock /\ GoesOn(u)
  <2>1. clock' = clock
      BY <1>4 DEF LogicStep, Deliver, CheckCache, CheckStore, IdGenerate, CallFails, CallSave,
                  SaveSucceeds, SaveFails, SaveTimeout
  <2> QED  BY <1>4, <2>1, ReplySteps DEF ReplyStep
<1>5. ASSUME NEW w \in Savers, DbproxyStep(w) PROVE client' = client /\ clock' = clock
    BY <1>5 DEF DbproxyStep, sendVars
<1>6. ASSUME NEW v \in Users, KeyExpires(v) PROVE client' = client /\ clock' = clock
    BY <1>6 DEF KeyExpires, sendVars
<1> QED  BY <1>1, <1>2, <1>3, <1>4, <1>5, <1>6 DEF Next, SameSend, GoesOn

--------------------------------------------------------------------------------
(* A message on its way, in a handler or in a save.  Whichever of them is  *)
(* not its client's current one is settled: the client sends the next only *)
(* when the last is stored.                                                *)
Live(m) == \/ m \in net
           \/ \E h \in Handlers : call[h].stage # "free" /\ call[h].msg = m
           \/ \E w \in Savers : save[w].stage # "free" /\ save[w].msg = m

KnownLive == \A m \in Messages : Live(m) => m = client[m.sender].msg \/ Settled(m)

(* What ClientInv needs of a client with a message. *)
LEMMA OwnHolds ==
    ASSUME Shapes, NEW u \in Senders, client[u].sent # 0, NEW m, m = client[u].msg
    PROVE  /\ m \in Messages /\ m.sender = u /\ m.no = client[u].sent
           /\ m.time = client[u].lastTime
           /\ Holds(u, m) <=> \E r \in OwnRows(u) : /\ r.time = m.time /\ r.no = m.no
                                                   /\ r.kind = m.kind
           /\ Holds(u, m)' <=> \E r \in OwnRows(u)' : /\ r.time = m.time /\ r.no = m.no
                                                     /\ r.kind = m.kind
<1>1. m \in Messages /\ m.sender = u /\ m.no = client[u].sent /\ m.time = client[u].lastTime
    BY DEF Shapes, ClientTypes, ClientOK
<1> QED  BY <1>1 DEF Holds, OwnRows

LEMMA NumbersOf ==
    ASSUME DbInv, Shapes, NEW u \in Senders
    PROVE  /\ client[u].sent \in Nat /\ client[u].lastTime \in Nat /\ clock \in Nat \ {0}
           /\ \A r \in OwnRows(u) : r.no \in Nat /\ r.time \in Nat
BY DEF DbInv, DbTypeOK, Rows, OwnRows, Shapes, ClientTypes, Programs

LEMMA LastMessageNext ==
    ASSUME NEW u, NEW m, m = client'[u].msg,
           client'[u].sent # 0 =>
              IF Holds(u, m)' THEN Settled(m)'
              ELSE client'[u].stage # "idle" /\ (Fresh(u)' \/ Doomed(u)')
    PROVE  LastMessage(u)'
BY DEF LastMessage, Holds, Settled, StoredEverywhere

(* A step in which the client keeps its message. *)
LEMMA QuietClient ==
    ASSUME DbInv, Shapes, NEW u \in Senders, ClientInv(u), UNCHANGED rows, SameSend(u),
           clock' \in {clock, clock + 1},
           client'[u].stage = "idle" => client[u].stage = "idle" \/ Settled(client[u].msg)
    PROVE  ClientInv(u)'
<1>0. /\ client'[u].msg = client[u].msg /\ client'[u].sent = client[u].sent
      /\ client'[u].lastTime = client[u].lastTime
      /\ OwnRows(u)' = OwnRows(u)
    BY DEF SameSend, OwnRows
<1>1. RowsOfSent(u)'
    BY <1>0, NumbersOf DEF ClientInv, RowsOfSent
<1>2. LastTimeIsOwn(u)'
    BY <1>0, NumbersOf DEF ClientInv, LastTimeIsOwn
<1>3. (Fresh(u) => Fresh(u)') /\ (Doomed(u) => Doomed(u)')
    BY <1>0 DEF Fresh, Doomed
<1>4. PICK m : m = client[u].msg
    OBVIOUS
<1>5. (Holds(u, m)' <=> Holds(u, m)) /\ (Settled(m)' <=> Settled(m))
    BY DEF Holds, Settled, StoredEverywhere
<1>6. client[u].sent # 0 /\ Settled(m) => Holds(u, m)
    BY <1>4, OwnHolds DEF Settled
<1>7. client[u].sent # 0 =>
         IF Holds(u, m) THEN Settled(m) ELSE client[u].stage # "idle" /\ (Fresh(u) \/ Doomed(u))
    BY <1>4 DEF ClientInv, LastMessage
<1>8. LastMessage(u)'
    BY <1>0, <1>3, <1>4, <1>5, <1>6, <1>7, LastMessageNext
<1> QED  BY <1>1, <1>2, <1>8 DEF ClientInv

(* The client's next message: later than all its rows, or doomed. *)
LEMMA SendingClient ==
    ASSUME DbInv, Shapes, NEW u \in Senders, ClientInv(u), ClientSend(u)
    PROVE  ClientInv(u)'
<1> PICK m \in Messages :
        /\ m.sender = u /\ m.no = client[u].sent + 1 /\ m.time = ClientTime(u)
        /\ client' = [client EXCEPT ![u] =
                        [stage |-> "calling", msg |-> m,
                         sent |-> m.no, lastTime |-> m.time]]
        /\ m.time \in Nat \ {0} /\ m.no \in Nat \ {0}
    BY NextMessageIs
<1>0. /\ client'[u].msg = m /\ client'[u].sent = m.no /\ client'[u].lastTime = m.time
      /\ client'[u].stage = "calling"
    BY DEF Shapes, ClientTypes
<1>1. /\ client[u].stage = "idle" /\ rows' = rows /\ clock' = clock /\ OwnRows(u)' = OwnRows(u)
    BY DEF ClientSend, vars, OwnRows
<1>2. /\ client[u].sent \in Nat /\ client[u].lastTime \in Nat /\ clock \in Nat \ {0}
      /\ \A r \in OwnRows(u) : r.no \in Nat /\ r.time \in Nat
    BY NumbersOf
<1>3. \/ client[u].sent = 0 /\ client[u].lastTime = 0 /\ OwnRows(u) = {}
      \/ /\ \E r \in OwnRows(u) : r.time = client[u].lastTime
         /\ \A r \in OwnRows(u) : r.time <= client[u].lastTime
  <2>1. CASE client[u].sent = 0
      BY <1>2, <2>1 DEF ClientInv, RowsOfSent, Shapes, ClientTypes, ClientOK
  <2>2. CASE client[u].sent # 0
    <3>1. Holds(u, client[u].msg)
        BY <1>1, <2>2 DEF ClientInv, LastMessage
    <3>2. PICK s \in OwnRows(u) : s.time = client[u].lastTime /\ s.no = client[u].sent
        BY <2>2, <3>1, OwnHolds
    <3>3. ASSUME NEW r \in OwnRows(u) PROVE r.time <= client[u].lastTime
      <4>1. r.no <= client[u].sent /\ (r.no < s.no => r.time < s.time) /\ (r.no = s.no => r = s)
          BY DEF ClientInv, RowsOfSent
      <4> QED  BY <1>2, <3>2, <4>1
    <3> QED  BY <3>2, <3>3
  <2> QED  BY <2>1, <2>2
<1>4. RowsOfSent(u)'
  <2>1. \A r \in OwnRows(u) : r.no # 0 /\ r.no < m.no /\ r.time <= clock + 1
      BY <1>2 DEF ClientInv, RowsOfSent
  <2> QED  BY <1>0, <1>1, <1>2, <2>1 DEF ClientInv, RowsOfSent
<1>5. LastTimeIsOwn(u)'
  <2>1. CASE clock = client[u].lastTime
      BY <1>0, <1>1, <1>2, <1>3, <2>1 DEF LastTimeIsOwn, ClientTime
  <2>2. CASE clock # client[u].lastTime
      BY <1>0, <1>1, <1>2, <2>2 DEF LastTimeIsOwn, ClientTime
  <2> QED  BY <2>1, <2>2
<1>6. ~Holds(u, m)'
  <2>1. \A r \in OwnRows(u) : r.no # m.no
      BY <1>2 DEF ClientInv, RowsOfSent
  <2> QED  BY <1>1, <2>1 DEF Holds, OwnRows
<1>7. Fresh(u)' \/ Doomed(u)'
  <2>1. CASE OwnRows(u) = {}
      BY <1>1, <2>1 DEF Fresh
  <2>2. CASE OwnRows(u) # {} /\ clock >= client[u].lastTime
    <3>1. m.time > client[u].lastTime
        BY <1>2, <2>2 DEF ClientTime
    <3> QED  BY <1>0, <1>1, <1>2, <1>3, <2>2, <3>1 DEF Fresh
  <2>3. CASE OwnRows(u) # {} /\ clock < client[u].lastTime
    <3>1. m.time = clock /\ client[u].lastTime > clock
        BY <1>2, <2>3 DEF ClientTime
    <3>2. \E r \in OwnRows(u) : r.time = clock
        BY <3>1 DEF ClientInv, LastTimeIsOwn
    <3>3. \E r \in OwnRows(u) : r.time = client[u].lastTime
        BY <1>3, <2>3
    <3> QED  BY <1>0, <1>1, <3>1, <3>2, <3>3 DEF Doomed
  <2> QED  BY <1>2, <2>1, <2>2, <2>3
<1>8. LastMessage(u)'
    BY <1>0, <1>6, <1>7, LastMessageNext
<1> QED  BY <1>4, <1>5, <1>8 DEF ClientInv

(* Only the client's current message can still be stored, and only if it   *)
(* is later than all that are.                                             *)
LEMMA FirstStatement ==
    ASSUME DbInv, Shapes, ClientsInv, KnownLive, NEW w \in Savers, Grows(w), save[w].done = 0,
           NEW m, m = save[w].msg, NEW u, u = m.sender,
           \A r \in OwnRows(u) : r.time # m.time
    PROVE  /\ m \in Messages /\ u \in Senders /\ client[u].msg = m /\ client[u].sent # 0
           /\ Fresh(u) /\ ~Holds(u, m)
<1>1. m \in Messages /\ u \in Senders /\ save[w].stage = "insert"
    BY StatementIs DEF Grows, Shapes, SaveTypes
<1>2. ~Holds(u, m)
    BY DEF Holds, OwnRows
<1>3. client[u].msg = m
    BY <1>1, <1>2 DEF KnownLive, Live, Settled
<1>4. client[u].sent # 0
    BY <1>1, <1>3, DbproxyAssumption DEF Shapes, ClientTypes, ClientOK
<1>5. client[u].lastTime = m.time
    BY <1>1, <1>3, <1>4, OwnHolds
<1>6. Fresh(u) \/ Doomed(u)
    BY <1>1, <1>2, <1>3, <1>4 DEF ClientsInv, ClientInv, LastMessage
<1>7. ~Doomed(u)
    BY <1>5 DEF Doomed
<1> QED  BY <1>1, <1>2, <1>3, <1>4, <1>6, <1>7

(* A message of the client is stored, or another's, or a further row. *)
LEMMA GrowingClient ==
    ASSUME DbInv, Shapes, ClientsInv, KnownLive, NEW u \in Senders,
           NEW w \in Savers, Grows(w), UNCHANGED sendVars
    PROVE  ClientInv(u)'
<1>0. ClientInv(u) /\ client' = client /\ clock' = clock /\ rows \subseteq rows'
    BY DEF ClientsInv, sendVars, Grows
<1> PICK m : m = save[w].msg
    OBVIOUS
<1> PICK ids : ids = save[w].ids
    OBVIOUS
<1> PICK c : c = client[u].msg
    OBVIOUS
<1>1. /\ client[u].sent \in Nat /\ client[u].lastTime \in Nat /\ clock \in Nat \ {0}
      /\ \A r \in OwnRows(u) : r.no \in Nat /\ r.time \in Nat
    BY NumbersOf
<1>2. CASE OwnRows(u)' = OwnRows(u)
  <2>1. RowsOfSent(u)' /\ LastTimeIsOwn(u)'
      BY <1>0, <1>2 DEF ClientInv, RowsOfSent, LastTimeIsOwn
  <2>2. (Fresh(u)' <=> Fresh(u)) /\ (Doomed(u)' <=> Doomed(u))
      BY <1>0, <1>2 DEF Fresh, Doomed
  <2>3. client[u].sent # 0 => (Holds(u, c)' <=> Holds(u, c))
      BY <1>2, OwnHolds
  <2>4. Settled(c) => Settled(c)'
      BY <1>0, SettledStays
  <2>5. client[u].sent # 0 =>
           IF Holds(u, c) THEN Settled(c) ELSE client[u].stage # "idle" /\ (Fresh(u) \/ Doomed(u))
      BY <1>0 DEF ClientInv, LastMessage
  <2>6. LastMessage(u)'
      BY <1>0, <2>2, <2>3, <2>4, <2>5, LastMessageNext
  <2> QED  BY <2>1, <2>6 DEF ClientInv
<1>3. CASE u = m.sender /\ save[w].done = 0 /\ m \in Messages
           /\ OwnRows(u)' = OwnRows(u) \union {Row(m, ids, 1)}
           /\ \A r \in OwnRows(u) : r.time # m.time
  <2>1. client[u].msg = m /\ client[u].sent # 0 /\ Fresh(u)
      BY <1>3, FirstStatement
  <2>2. m.time = client[u].lastTime /\ m.no = client[u].sent
      BY <2>1, OwnHolds
  <2> PICK q : q = Row(m, ids, 1)
      OBVIOUS
  <2>3. q.no = m.no /\ q.time = m.time /\ q.kind = m.kind /\ q.user = u /\ q.sender = u
      BY <1>3, MessageFacts DEF Row
  <2>4. m.time <= clock + 1
      BY <1>0, <1>1, <2>2 DEF ClientInv, LastTimeIsOwn
  <2>5. \A r \in OwnRows(u) : r.no < q.no /\ r.time < q.time
    <3> SUFFICES ASSUME NEW r \in OwnRows(u) PROVE r.no < q.no /\ r.time < q.time
        OBVIOUS
    <3>1. r.no <= client[u].sent /\ (r.no = client[u].sent => r.time = m.time) /\ r.time # m.time
        BY <1>0, <1>3, <2>1 DEF ClientInv, RowsOfSent
    <3>2. r.time < m.time
        BY <2>1, <2>2 DEF Fresh
    <3> QED  BY <1>1, <2>2, <2>3, <3>1, <3>2
  <2>6. OwnRows(u)' = OwnRows(u) \union {q}
      BY <1>3
  <2>7. RowsOfSent(u)'
    <3>1. \A r \in OwnRows(u)' :
             /\ r.no # 0 /\ r.no <= client[u].sent /\ r.time <= clock + 1
             /\ r.no = client[u].sent => r.time = m.time /\ r.kind = m.kind
        BY <1>0, <1>1, <2>1, <2>2, <2>3, <2>4, <2>6 DEF ClientInv, RowsOfSent
    <3>2. \A r, s \in OwnRows(u)' : (r.no < s.no => r.time < s.time) /\ (r.no = s.no => r = s)
      <4> SUFFICES ASSUME NEW r \in OwnRows(u)', NEW s \in OwnRows(u)'
                   PROVE  (r.no < s.no => r.time < s.time) /\ (r.no = s.no => r = s)
          OBVIOUS
      <4>1. CASE r \in OwnRows(u) /\ s \in OwnRows(u)
          BY <1>0, <4>1 DEF ClientInv, RowsOfSent
      <4>2. q.no \in Nat /\ q.time \in Nat
          BY <1>1, <2>2, <2>3
      <4>3. CASE r = q /\ s = q
          BY <4>2, <4>3
      <4>4. CASE r = q /\ s \in OwnRows(u)
        <5>1. s.no < q.no /\ s.no \in Nat
            BY <1>1, <2>5, <4>4
        <5> QED  BY <4>2, <4>4, <5>1
      <4>5. CASE r \in OwnRows(u) /\ s = q
        <5>1. r.no < q.no /\ r.time < q.time /\ r.no \in Nat
            BY <1>1, <2>5, <4>5
        <5> QED  BY <4>2, <4>5, <5>1
      <4> QED  BY <2>6, <4>1, <4>3, <4>4, <4>5
    <3> QED  BY <1>0, <2>1, <3>1, <3>2 DEF RowsOfSent
  <2>8. LastTimeIsOwn(u)'
      BY <1>0, <2>6 DEF ClientInv, LastTimeIsOwn
  <2>9. Holds(u, m)' /\ (m.kind = "private" => StoredEverywhere(m)')
    <3>1. q \in rows' /\ m.sender = u
        BY <1>3, <2>6 DEF OwnRows
    <3>2. Holds(u, m)'
        BY <2>3, <3>1 DEF Holds
    <3>3. ASSUME m.kind = "private" PROVE StoredEverywhere(m)'
      <4>1. \A i \in 1 .. Len(m.rcpts) : Row(m, ids, i) \in rows'
          BY <1>3, <3>3, StatementIs DEF Grows
      <4> QED  BY <1>3, <4>1, OwnRowIsFirst DEF StoredEverywhere, Holds
    <3> QED  BY <3>2, <3>3
  <2>10. LastMessage(u)'
      BY <1>0, <1>3, <2>1, <2>9, LastMessageNext DEF Settled
  <2> QED  BY <2>7, <2>8, <2>10 DEF ClientInv
<1> QED  BY <1>2, <1>3, OwnRowsGrow

LEMMA ClientsStep ==
    ASSUME DbInv, Shapes, UniqueKey, ClientsInv, KnownLive, [Next]_allVars
    PROVE  ClientsInv'
<1> SUFFICES ASSUME NEW u \in Senders PROVE ClientInv(u)'
    BY DEF ClientsInv
<1>0. ClientInv(u)
    BY DEF ClientsInv
<1>1. CASE rows' = rows
    BY <1>0, <1>1, ClientSteps, SendingClient, QuietClient DEF GoesOn
<1>2. CASE \E w \in Savers : Grows(w) /\ UNCHANGED sendVars
    BY <1>2, GrowingClient
<1> QED  BY <1>1, <1>2, RowSteps

(* New on its way is only the client's current message. *)
LEMMA LiveSteps ==
    ASSUME DbInv, Shapes, [Next]_allVars, NEW m \in Messages, Live(m)'
    PROVE  Live(m) \/ m = client'[m.sender].msg
<1>1. CASE UNCHANGED <<net, call>> /\ save' = save
    BY <1>1 DEF Live
<1>2. ASSUME NEW u \in Senders, ClientSend(u) PROVE Live(m) \/ m = client'[m.sender].msg
  <2> PICK k \in Messages :
        /\ k.sender = u
        /\ client' = [client EXCEPT ![u] =
                        [stage |-> "calling", msg |-> k,
                         sent |-> k.no, lastTime |-> k.time]]
        /\ net' = net \union {k}
      BY <1>2, NextMessageIs
  <2>1. client'[u].msg = k /\ UNCHANGED <<call, save>>
      BY <1>2 DEF Shapes, ClientTypes, ClientSend, vars
  <2> QED  BY <2>1 DEF Live
<1>3. ASSUME NEW u \in Senders, ClientTimeout(u) PROVE UNCHANGED <<net, call, save>>
    BY <1>3 DEF ClientTimeout, dbVars
<1>4. ASSUME NEW u \in Senders, ClientQuit(u) PROVE UNCHANGED <<net, call, save>>
    BY <1>4 DEF ClientQuit, vars
<1>5. ASSUME NEW h \in Handlers, Deliver(h) PROVE Live(m)
  <2> PICK x \in net :
        /\ call' = [call EXCEPT ![h] = [stage |-> "cache", msg |-> x,
                                        ids |-> << >>, saver |-> NoSaver]]
        /\ net' \subseteq net
      BY <1>5 DEF Deliver
  <2>1. UNCHANGED save /\ \A g \in Handlers :
            call'[g] = call[g] \/ call'[g].msg = x
      BY <1>5 DEF Deliver, dbVars, Shapes, CallTypes
  <2> QED  BY <2>1 DEF Live
<1>6. ASSUME NEW h \in Handlers, CallSave(h) PROVE Live(m)
  <2> PICK w \in Savers, c \in Calls :
        /\ c.msg = call[h].msg /\ call' = [call EXCEPT ![h] = c] /\ call[h].stage = "save"
        /\ save' = [save EXCEPT ![w] = [stage |-> "insert", msg |-> call[h].msg,
                                        ids |-> call[h].ids, done |-> 0]]
      BY <1>6, CallSaveIs
  <2>1. /\ \A g \in Handlers : call'[g] = call[g] \/ (g = h /\ call'[g].msg = call[h].msg)
        /\ \A v \in Savers : save'[v] = save[v] \/ save'[v].msg = call[h].msg
        /\ net' = net
    <3>1. call \in [Handlers -> Calls] /\ save \in [Savers -> Handler]
        BY HandlersOK DEF Shapes, CallTypes, DbInv, HandlerOK
    <3> QED  BY <1>6, <3>1 DEF CallSave
  <2> QED  BY <2>1 DEF Live
<1>7. ASSUME NEW h \in Handlers, LogicStep(h), ~Deliver(h), ~CallSave(h) PROVE Live(m)
  <2>1. UNCHANGED save /\ UNCHANGED net
      BY <1>7 DEF LogicStep, CheckCache, CheckStore, IdGenerate, CallFails, SaveSucceeds,
                  SaveFails, SaveTimeout, vars, dbVars
  <2>2. \A g \in Handlers : call'[g] = call[g] \/ call'[g] = FreeCall
                              \/ (call'[g].msg = call[g].msg /\ call[g].stage # "free")
    <3>1. call \in [Handlers -> Calls]
        BY DEF Shapes, CallTypes
    <3>2. CASE IdGenerate(h)
      <4>1. \E c \in Calls : /\ c.msg = call[h].msg /\ call' = [call EXCEPT ![h] = c]
                             /\ call[h].stage = "ids"
          BY <3>2, NextIdGiven
      <4> QED  BY <3>1, <4>1
    <3>3. CASE CheckCache(h) \/ CheckStore(h)
        BY <3>1, <3>3 DEF CheckCache, CheckStore, CheckDuplicate, ReplyMsgId, Finish, Calls
    <3>4. CASE CallFails(h) \/ SaveSucceeds(h) \/ SaveFails(h) \/ SaveTimeout(h)
        BY <3>1, <3>4 DEF CallFails, SaveSucceeds, SaveFails, SaveTimeout, ReplyFailure,
                          ReplyMsgId, Finish
    <3> QED  BY <1>7, <3>2, <3>3, <3>4 DEF LogicStep
  <2> QED  BY <2>1, <2>2, FreeCallOK DEF Live
<1>8. ASSUME NEW w \in Savers, DbproxyStep(w) PROVE Live(m)
  <2>1. \A v \in Savers : save'[v] = save[v] \/ (v = w /\ save'[v].msg = save[v].msg)
    <3>1. save' = [save EXCEPT ![w] = save'[w]] /\ save'[w].msg = save[w].msg
          /\ save \in [Savers -> Handler]
        BY <1>8, SaveChange, HandlersOK DEF DbproxyStep, DbInv, HandlerOK
    <3> QED  BY <3>1
  <2>2. save[w].stage # "free"
      BY <1>8 DEF DbproxyStep, SaveStep, Insert, InsertRejected, InsertFails,
                  SetUserLastSendData, SetUserLastSendDataFails
  <2> QED  BY <1>8, <2>1, <2>2 DEF Live, DbproxyStep, sendVars
<1>9. CASE Tick \/ (\E u \in Users : KeyExpires(u)) \/ UNCHANGED allVars
    BY <1>1, <1>9 DEF Tick, KeyExpires, Expire, allVars, vars, sendVars
<1> QED  BY <1>1, <1>2, <1>3, <1>4, <1>5, <1>6, <1>7, <1>8, <1>9 DEF Next

LEMMA KnownLiveStep ==
    ASSUME DbInv, Shapes, UniqueKey, ClientsInv, KnownLive, [Next]_allVars
    PROVE  KnownLive'
<1>0. rows \subseteq rows'
    BY RowSteps DEF Grows
<1> SUFFICES ASSUME NEW m \in Messages, Live(m)'
             PROVE  m = client'[m.sender].msg \/ Settled(m)'
    BY DEF KnownLive, Live, Settled, Holds, StoredEverywhere
<1>1. CASE Live(m)
  <2>1. m.sender \in Senders
      BY <1>1 DEF Live, Shapes, NetTypes, CallTypes, CallOK, SaveTypes
  <2>2. CASE Settled(m)
      BY <1>0, <2>2, SettledStays
  <2>3. CASE m = client[m.sender].msg /\ ClientSend(m.sender)
    <3>1. client[m.sender].stage = "idle" /\ client[m.sender].sent # 0
        BY <2>1, <2>3, DbproxyAssumption DEF ClientSend, Shapes, ClientTypes, ClientOK
    <3>2. Settled(m)
        BY <2>1, <2>3, <3>1 DEF ClientsInv, ClientInv, LastMessage
    <3> QED  BY <1>0, <3>2, SettledStays
  <2>4. CASE m = client[m.sender].msg /\ SameSend(m.sender)
      BY <2>4 DEF SameSend
  <2> QED  BY <1>1, <2>1, <2>2, <2>3, <2>4, ClientSteps DEF KnownLive
<1> QED  BY <1>1, LiveSteps


--------------------------------------------------------------------------------
(* Replies and pushes. *)
LEMMA AckedStep ==
    ASSUME DbInv, Shapes, UniqueKey, ClientsInv, AckedIsStored, [Next]_allVars
    PROVE  AckedIsStored'
<1>0. rows \subseteq rows'
    BY RowSteps DEF Grows
<1>1. \A k \in acked : OwnRow(k.msg, k.id) \in rows'
                       /\ (k.msg.kind = "private" => StoredEverywhere(k.msg)')
    BY <1>0, SettledStays DEF AckedIsStored
<1>2. CASE acked' = acked
    BY <1>1, <1>2 DEF AckedIsStored, StoredEverywhere, Holds
<1>3. ASSUME NEW h \in Handlers, LogicStep(h), acked' # acked PROVE AckedIsStored'
  <2> PICK m : m = call[h].msg
      OBVIOUS
  <2>1. PICK id : /\ acked' = acked \union {[msg |-> m, id |-> id]}
                  /\ OwnRow(m, id) \in rows /\ Settled(m)
      BY <1>3, ReplySteps DEF ReplyStep
  <2> PICK k : k = [msg |-> m, id |-> id]
      OBVIOUS
  <2>2. OwnRow(k.msg, k.id) \in rows' /\ (k.msg.kind = "private" => StoredEverywhere(k.msg)')
      BY <1>0, <2>1, SettledStays DEF Settled
  <2>3. \A x \in acked' : x \in acked \/ x = k
      BY <2>1
  <2> QED  BY <1>1, <2>2, <2>3 DEF AckedIsStored, StoredEverywhere, Holds
<1>4. CASE ~\E h \in Handlers : LogicStep(h)
  <2>1. acked' = acked
      BY <1>4 DEF Next, Tick, ClientSend, ClientTimeout, ClientQuit, DbproxyStep, KeyExpires,
                  sendVars, allVars
  <2> QED  BY <1>2, <2>1
<1> QED  BY <1>2, <1>3, <1>4

LEMMA PushedSteps ==
    ASSUME [Next]_allVars
    PROVE  pushes' = pushes \/ \E h \in Handlers : SaveSucceeds(h)
BY DEF Next, Tick, ClientSend, ClientTimeout, ClientQuit, DbproxyStep, KeyExpires, sendVars,
       allVars, LogicStep, Deliver, CheckCache, CheckStore, IdGenerate, CallFails, CallSave,
       SaveFails, SaveTimeout

LEMMA PushedStep ==
    ASSUME DbInv, Shapes, PushedIsStored, [Next]_allVars
    PROVE  PushedIsStored'
<1>0. rows \subseteq rows'
    BY RowSteps DEF Grows
<1>1. CASE pushes' = pushes
    BY <1>0, <1>1 DEF PushedIsStored
<1>2. ASSUME NEW h \in Handlers, SaveSucceeds(h) PROVE PushedIsStored'
  <2> PICK m : m = call[h].msg
      OBVIOUS
  <2> PICK ids : ids = call[h].ids
      OBVIOUS
  <2>1. \A i \in 1 .. Len(m.rcpts) : Row(m, ids, i) \in rows'
      BY <1>0, <1>2, SavedIsStored DEF SaveSucceeds
  <2> PICK p : p = [msg |-> m, ids |-> ids]
      OBVIOUS
  <2>2. \A x \in pushes' : x \in pushes \/ x = p
      BY <1>2 DEF SaveSucceeds
  <2>3. p.msg = m /\ p.ids = ids
      OBVIOUS
  <2> QED  BY <1>0, <2>1, <2>2, <2>3 DEF PushedIsStored
<1> QED  BY <1>1, <1>2, PushedSteps

--------------------------------------------------------------------------------
(* The inductive invariant. *)
Inv == /\ DbInv /\ Shapes /\ UniqueKey /\ ClientsInv /\ KnownLive
       /\ AckedIsStored /\ PushedIsStored

LEMMA InitInv == Init => Inv
<1> SUFFICES ASSUME Init PROVE Inv
    OBVIOUS
<1>1. rows = {} /\ acked = {} /\ pushes = {} /\ net = {}
    BY DEF Init, DbInit, SendInit
<1>2. ClientsInv
  <2> SUFFICES ASSUME NEW u \in Senders PROVE ClientInv(u)
      BY DEF ClientsInv
  <2>1. client[u].lastTime = 0 /\ client[u].sent = 0 /\ clock = 1 /\ OwnRows(u) = {}
      BY <1>1 DEF Init, SendInit, OwnRows
  <2> QED  BY <2>1 DEF ClientInv, RowsOfSent, LastTimeIsOwn, LastMessage
<1>3. KnownLive
    BY <1>1 DEF Init, DbInit, SendInit, KnownLive, Live, FreeCall
<1> QED  BY <1>1, <1>2, <1>3, InitShapes DEF Inv, UniqueKey, AckedIsStored, PushedIsStored

LEMMA NextInv == Inv /\ [Next]_allVars => Inv'
BY DbInvStep, ShapesStep, UniqueKeyStep, ClientsStep, KnownLiveStep, AckedStep, PushedStep DEF Inv

LEMMA Invariance == Spec => []Inv
BY InitInv, NextInv, PTL DEF Spec

(* The records of clients, handlers and calls keep their shapes, through   *)
(* LogicServiceImpl::SendMsg (logic_service.cc:72-250) and the send loop   *)
(* (client.cc:424-471).                                                    *)
THEOREM SendTyped == Spec => []TypeOK
<1>1. Inv => TypeOK
    BY TypesAre DEF Inv, DbInv
<1> QED  BY <1>1, Invariance, PTL

(* What is proved of dbproxy alone holds below logic, which gives up on    *)
(* saves that go on (logic_service.cc:193-197) and may ask for one message *)
(* twice: types, the Redis key behind the rows, one save per client_time.  *)
THEOREM StoreKept == Spec => [](DbTypeOK /\ CacheBehindStore /\ SavedOnce)
<1>1. Inv => DbTypeOK /\ CacheBehindStore /\ SavedOnce
    BY SavesOnce DEF Inv, DbInv
<1> QED  BY <1>1, Invariance, PTL

(* What a client was told is sent (client.cc:454-459), by the handler that *)
(* saved it or by a later duplicate check (logic_service.cc:103-107), is   *)
(* stored under the id it was told.                                        *)
THEOREM AckedStored == Spec => []AckedIsStored
<1>1. Inv => AckedIsStored
    BY DEF Inv
<1> QED  BY <1>1, Invariance, PTL

(* What SendtoPeers is started for (logic_service.cc:243-249) is stored in *)
(* every mailbox under the ids it pushes.                                  *)
THEOREM PushedStored == Spec => []PushedIsStored
<1>1. Inv => PushedIsStored
    BY DEF Inv
<1> QED  BY <1>1, Invariance, PTL

--------------------------------------------------------------------------------
(* The order of the mailboxes.  The rows of a message are decided with its *)
(* first statement: those that a group's save has yet to insert are counted *)
(* with those that are there.                                              *)
Pending(w) == {Row(save[w].msg, save[w].ids, i) : i \in 1 .. Len(save[w].msg.rcpts)}
Committed  == rows \union UNION {Pending(w) : w \in {v \in Savers : Ahead(v)}}

CommittedOrder ==
    \A r, s \in Committed :
        r.user = s.user /\ r.sender = s.sender /\ r.no < s.no => r.id < s.id

CommittedOwned ==
    \A r \in Committed :
       /\ r.sender \in Senders /\ r.user \in Users
       /\ r.id \in Nat /\ r.id <= nextId[r.user]
       /\ \E s \in OwnRows(r.sender) : s.no = r.no /\ s.time = r.time /\ s.kind = r.kind

(* The ids of a message that is not stored yet are above those of the      *)
(* messages before it.                                                     *)
IdsAbove(m, ids) ==
    \A i \in 1 .. Len(ids) :
        /\ ids[i] <= nextId[m.rcpts[i]]
        /\ ~Holds(m.sender, m) =>
              \A r \in Committed : r.user = m.rcpts[i] /\ r.sender = m.sender /\ r.no < m.no
                                     => r.id < ids[i]

CallIdsAbove == \A h \in Handlers : call[h].stage # "free" => IdsAbove(call[h].msg, call[h].ids)
SaveIdsAbove == \A w \in Savers : save[w].stage # "free" => IdsAbove(save[w].msg, save[w].ids)

OrderInv == CommittedOrder /\ CommittedOwned /\ CallIdsAbove /\ SaveIdsAbove

(* What a first statement decides. *)
FirstStep(w) == /\ Grows(w) /\ save[w].done = 0 /\ UNCHANGED sendVars
                /\ \A v \in Savers : save'[v].msg = save[v].msg /\ save'[v].ids = save[v].ids
                /\ \A v \in Savers : save'[v].stage # "free" => save[v].stage # "free"
                /\ Committed' \subseteq Committed \union Pending(w)

LEMMA CommittedSteps ==
    ASSUME DbInv, Shapes, [Next]_allVars
    PROVE  Committed' \subseteq Committed \/ \E w \in Savers : FirstStep(w)
<1>0. save \in [Savers -> Handler]
    BY HandlersOK DEF DbInv, HandlerOK
<1>1. CASE rows' = rows /\ save' = save
  <2>1. \A v \in Savers : Ahead(v)' => Ahead(v) /\ save'[v] = save[v]
      BY <1>1 DEF Ahead
  <2> QED  BY <1>1, <2>1 DEF Committed, Pending
<1>2. ASSUME NEW h \in Handlers, CallSave(h) PROVE Committed' \subseteq Committed
  <2>1. PICK w \in Savers :
           save' = [save EXCEPT ![w] = [stage |-> "insert", msg |-> call[h].msg,
                                        ids |-> call[h].ids, done |-> 0]]
      BY <1>2, CallSaveIs
  <2>2. \A v \in Savers : Ahead(v)' => Ahead(v) /\ save'[v] = save[v]
      BY <1>0, <2>1 DEF Ahead
  <2>3. rows' = rows
      BY <1>2 DEF CallSave, Save
  <2> QED  BY <2>2, <2>3 DEF Committed, Pending
<1>3. ASSUME NEW w \in Savers, DbproxyStep(w)
      PROVE  Committed' \subseteq Committed \/ FirstStep(w)
  <2>0. UNCHANGED sendVars /\ SaveStep(w)
      BY <1>3 DEF DbproxyStep
  <2>1. /\ save' = [save EXCEPT ![w] = save'[w]]
        /\ save'[w].msg = save[w].msg /\ save'[w].ids = save[w].ids
        /\ HandlerOK(save[w])
      BY <2>0, SaveChange, HandlersOK DEF DbInv
  <2>2. /\ \A v \in Savers : save'[v].msg = save[v].msg /\ save'[v].ids = save[v].ids
        /\ \A v \in Savers \ {w} : save'[v] = save[v]
      BY <1>0, <2>1
  <2>3. save[w].stage # "free"
      BY <2>0 DEF SaveStep, Insert, InsertRejected, InsertFails, SetUserLastSendData,
                  SetUserLastSendDataFails
  <2>4. \A v \in Savers : Ahead(v)' => v = w \/ Ahead(v)
      BY <2>2 DEF Ahead
  <2>5. rows' = rows \/ Grows(w)
      BY <2>0 DEF SaveStep, Insert, InsertRejected, InsertFails, SetUserLastSendData,
                  SetUserLastSendDataFails, Grows
  <2>6. Grows(w) => Statement(w) \subseteq Pending(w)
      BY StatementIs DEF Grows, Pending
  <2>7. CASE Ahead(w)
      BY <2>2, <2>4, <2>5, <2>6, <2>7 DEF Committed, Pending, Grows
  <2>8. CASE ~Ahead(w) /\ Grows(w)
    <3>1. save[w].done = 0
        BY <2>1, <2>8 DEF Ahead, Grows, HandlerOK, Handler
    <3>2. Committed' \subseteq Committed \union Pending(w)
        BY <2>2, <2>4, <2>6, <2>8 DEF Committed, Pending, Grows
    <3>3. \A v \in Savers : save'[v].stage # "free" => save[v].stage # "free"
        BY <2>2, <2>3
    <3> QED  BY <2>0, <2>2, <2>8, <3>1, <3>2, <3>3 DEF FirstStep
  <2>9. CASE ~Ahead(w) /\ ~Grows(w)
    <3>1. save[w].stage \in {"cache", "saved"} => Ahead(w)
        BY <2>1, MessageFacts DEF HandlerOK, Ahead
    <3>2. ~Insert(w)
        BY <2>9 DEF Insert, Grows
    <3>3. InsertRejected(w) \/ InsertFails(w)
        BY <2>0, <2>9, <3>1, <3>2 DEF SaveStep, SetUserLastSendData, SetUserLastSendDataFails
    <3>4. save'[w].stage = "failed"
        BY <1>0, <3>3 DEF InsertRejected, InsertFails, Handler
    <3>5. ~Ahead(w)'
        BY <3>4 DEF Ahead
    <3> QED  BY <2>2, <2>4, <2>5, <2>9, <3>5 DEF Committed, Pending
  <2> QED  BY <2>7, <2>8, <2>9
<1>4. ASSUME NEW h \in Handlers, LogicStep(h), ~CallSave(h) PROVE rows' = rows /\ save' = save
    BY <1>4 DEF LogicStep, Deliver, CheckCache, CheckStore, IdGenerate, CallFails,
                SaveSucceeds, SaveFails, SaveTimeout, vars, dbVars
<1>5. ASSUME NEW u \in Senders, ClientSend(u) \/ ClientTimeout(u) \/ ClientQuit(u)
      PROVE  rows' = rows /\ save' = save
    BY <1>5 DEF ClientSend, ClientTimeout, ClientQuit, vars, dbVars
<1>6. CASE Tick \/ (\E u \in Users : KeyExpires(u)) \/ UNCHANGED allVars
  <2>1. rows' = rows /\ save' = save
      BY <1>6 DEF Tick, KeyExpires, Expire, allVars, vars
  <2> QED  BY <1>1, <2>1
<1> QED  BY <1>1, <1>2, <1>3, <1>4, <1>5, <1>6 DEF Next


(* What the first statement of w decides is later than what was decided,   *)
(* of the same sender, with its own row among it.                          *)
LEMMA FirstStepIs ==
    ASSUME Inv, OrderInv, NEW w \in Savers, FirstStep(w),
           NEW m, m = save[w].msg, NEW ids, ids = save[w].ids
    PROVE  /\ m \in Messages /\ m.sender \in Senders /\ client[m.sender].msg = m
           /\ ~Holds(m.sender, m) /\ Len(ids) = Len(m.rcpts) /\ IdsAbove(m, ids)
           /\ \A r \in Pending(w) : \E i \in 1 .. Len(ids) : r = Row(m, ids, i)
           /\ \A r \in Committed : r.sender = m.sender => r.no < m.no
           /\ Row(m, ids, 1) \in OwnRows(m.sender)'
           /\ \A v : OwnRows(v) \subseteq OwnRows(v)'
<1> DEFINE u == m.sender
<1>0. HandlerOK(save[w]) /\ save[w].stage = "insert"
    BY HandlersOK DEF Inv, DbInv, FirstStep, Grows
<1>1. m \in Messages /\ u \in Senders /\ Len(ids) = Len(m.rcpts)
    BY <1>0 DEF Inv, Shapes, SaveTypes, HandlerOK
<1>2. \A r \in OwnRows(u) : r.time # m.time
  <2>1. Row(m, ids, 1) \in Statement(w)
      BY <1>0, StatementIs DEF Inv, FirstStep
  <2>2. Row(m, ids, 1).user = u /\ Row(m, ids, 1).sender = u /\ Row(m, ids, 1).time = m.time
      BY <1>1, MessageFacts DEF Row
  <2> QED  BY <2>1, <2>2 DEF FirstStep, Grows, Conflicts, SameKey, OwnRows
<1>3. client[u].msg = m /\ client[u].sent # 0 /\ ~Holds(u, m)
    BY <1>2, FirstStatement DEF Inv, FirstStep
<1>4. m.no = client[u].sent /\ m.time = client[u].lastTime
    BY <1>1, <1>3, OwnHolds DEF Inv
<1>5. IdsAbove(m, ids)
    BY <1>0 DEF OrderInv, SaveIdsAbove
<1>6. \A r \in Pending(w) : \E i \in 1 .. Len(ids) : r = Row(m, ids, i)
    BY <1>1 DEF Pending
<1>7. ASSUME NEW r \in Committed, r.sender = u PROVE r.no < m.no
  <2>1. PICK s \in OwnRows(u) : s.no = r.no /\ s.time = r.time
      BY <1>7 DEF OrderInv, CommittedOwned
  <2>2. s.no <= client[u].sent /\ (s.no = client[u].sent => s.time = m.time) /\ s.time # m.time
      BY <1>1, <1>2, <1>3, <2>1 DEF Inv, ClientsInv, ClientInv, RowsOfSent
  <2>3. s.no \in Nat /\ client[u].sent \in Nat
      BY <1>1, <2>1, NumbersOf DEF Inv
  <2> QED  BY <1>4, <2>1, <2>2, <2>3
<1>8. Row(m, ids, 1) \in OwnRows(u)'
  <2>1. Row(m, ids, 1) \in Statement(w)
      BY <1>0, StatementIs DEF Inv, FirstStep
  <2>2. Row(m, ids, 1).user = u /\ Row(m, ids, 1).sender = u
      BY <1>1, MessageFacts DEF Row
  <2> QED  BY <2>1, <2>2 DEF FirstStep, Grows, OwnRows
<1>9. \A v : OwnRows(v) \subseteq OwnRows(v)'
    BY DEF FirstStep, Grows, OwnRows
<1> QED  BY <1>1, <1>3, <1>5, <1>6, <1>7, <1>8, <1>9

LEMMA CommittedOrderStep ==
    ASSUME Inv, OrderInv, [Next]_allVars
    PROVE  CommittedOrder'
<1>1. CASE Committed' \subseteq Committed
    BY <1>1 DEF OrderInv, CommittedOrder
<1>2. ASSUME NEW w \in Savers, FirstStep(w) PROVE CommittedOrder'
  <2> PICK m : m = save[w].msg
      OBVIOUS
  <2> PICK ids : ids = save[w].ids
      OBVIOUS
  <2>1. /\ m \in Messages /\ ~Holds(m.sender, m) /\ Len(ids) = Len(m.rcpts) /\ IdsAbove(m, ids)
        /\ \A r \in Pending(w) : \E i \in 1 .. Len(ids) : r = Row(m, ids, i)
        /\ \A r \in Committed : r.sender = m.sender => r.no < m.no
      BY <1>2, FirstStepIs
  <2>2. ASSUME NEW s \in Pending(w), NEW r \in Committed, r.user = s.user, r.sender = s.sender
        PROVE  r.no < s.no /\ r.id < s.id /\ r.no \in Nat /\ s.no \in Nat
    <3>1. PICK i \in 1 .. Len(ids) : s = Row(m, ids, i)
        BY <2>1, <2>2
    <3>2. s.user = m.rcpts[i] /\ s.sender = m.sender /\ s.no = m.no /\ s.id = ids[i]
        BY <2>1, <3>1, OwnRowIsFirst
    <3>3. r.no < m.no
        BY <2>1, <2>2, <3>2
    <3>4. r.id < ids[i]
        BY <2>1, <2>2, <3>2, <3>3 DEF IdsAbove
    <3>5. r.no \in Nat /\ m.no \in Nat
      <4>1. \E t \in OwnRows(r.sender) : t.no = r.no
          BY <2>2 DEF OrderInv, CommittedOwned
      <4> QED  BY <2>1, <4>1, MessageFacts DEF OwnRows, Inv, DbInv, DbTypeOK, Rows
    <3> QED  BY <3>2, <3>3, <3>4, <3>5
  <2>3. ASSUME NEW r \in Pending(w), NEW s \in Pending(w) PROVE r.no = s.no /\ r.no \in Nat
    <3>1. \A t \in Pending(w) : t.no = m.no
        BY <2>1, OwnRowIsFirst
    <3> QED  BY <2>1, <3>1, MessageFacts
  <2> SUFFICES ASSUME NEW r \in Committed', NEW s \in Committed',
                      r.user = s.user, r.sender = s.sender, r.no < s.no
               PROVE  r.id < s.id
      BY DEF CommittedOrder
  <2>4. CASE r \in Committed /\ s \in Committed
      BY <2>4 DEF OrderInv, CommittedOrder
  <2>5. CASE r \in Committed /\ s \in Pending(w)
      BY <2>2, <2>5
  <2>6. CASE r \in Pending(w) /\ s \in Committed
    <3>1. s.no < r.no /\ s.no \in Nat /\ r.no \in Nat
        BY <2>2, <2>6
    <3> QED  BY <3>1
  <2>7. CASE r \in Pending(w) /\ s \in Pending(w)
    <3>1. s.no = r.no /\ r.no \in Nat
        BY <2>3, <2>7
    <3> QED  BY <3>1
  <2> QED  BY <1>2, <2>4, <2>5, <2>6, <2>7 DEF FirstStep
<1> QED  BY <1>1, <1>2, CommittedSteps DEF Inv


(* Ids only grow. *)
LEMMA NextIdGrows ==
    ASSUME Shapes, [Next]_allVars
    PROVE  /\ nextId \in [Users -> Nat] /\ nextId' \in [Users -> Nat]
           /\ \A v \in Users : nextId[v] <= nextId'[v]
           /\ nextId' = nextId \/ \E h \in Handlers : IdGenerate(h)
<1>1. nextId' = nextId \/ \E h \in Handlers : IdGenerate(h)
    BY DEF Next, Tick, ClientSend, ClientTimeout, ClientQuit, DbproxyStep, KeyExpires, sendVars,
           allVars, LogicStep, Deliver, CheckCache, CheckStore, CallFails, CallSave,
           SaveSucceeds, SaveFails, SaveTimeout
<1>2. nextId \in [Users -> Nat]
    BY DEF Shapes
<1>3. CASE nextId' = nextId
    BY <1>2, <1>3
<1>4. ASSUME NEW h \in Handlers, IdGenerate(h)
      PROVE  nextId' \in [Users -> Nat] /\ \A v \in Users : nextId[v] <= nextId'[v]
  <2>1. PICK v \in Users, n \in Nat :
           nextId' = [nextId EXCEPT ![v] = n] /\ n = nextId[v] + 1 /\ nextId[v] \in Nat
      BY <1>4, NextIdGiven
  <2> QED  BY <1>2, <2>1
<1> QED  BY <1>1, <1>2, <1>3, <1>4

LEMMA CommittedOwnedStep ==
    ASSUME Inv, OrderInv, [Next]_allVars
    PROVE  CommittedOwned'
<1>0. /\ \A v \in Users : nextId[v] \in Nat /\ nextId'[v] \in Nat /\ nextId[v] <= nextId'[v]
      /\ \A v : OwnRows(v) \subseteq OwnRows(v)'
    BY NextIdGrows, RowSteps DEF Inv, OwnRows, Grows
<1>1. ASSUME NEW r \in Committed
      PROVE  /\ r.sender \in Senders /\ r.user \in Users
             /\ r.id \in Nat /\ r.id <= nextId'[r.user]
             /\ \E s \in OwnRows(r.sender)' : s.no = r.no /\ s.time = r.time /\ s.kind = r.kind
  <2>1. /\ r.sender \in Senders /\ r.user \in Users
        /\ r.id \in Nat /\ r.id <= nextId[r.user]
        /\ \E s \in OwnRows(r.sender) : s.no = r.no /\ s.time = r.time /\ s.kind = r.kind
      BY <1>1 DEF OrderInv, CommittedOwned
  <2> QED  BY <1>0, <2>1
<1>2. CASE Committed' \subseteq Committed
    BY <1>1, <1>2 DEF CommittedOwned, OwnRows
<1>3. ASSUME NEW w \in Savers, FirstStep(w) PROVE CommittedOwned'
  <2> PICK m : m = save[w].msg
      OBVIOUS
  <2> PICK ids : ids = save[w].ids
      OBVIOUS
  <2>1. /\ m \in Messages /\ m.sender \in Senders /\ Len(ids) = Len(m.rcpts) /\ IdsAbove(m, ids)
        /\ \A r \in Pending(w) : \E i \in 1 .. Len(ids) : r = Row(m, ids, i)
        /\ Row(m, ids, 1) \in OwnRows(m.sender)'
      BY <1>3, FirstStepIs
  <2>2. ids \in Seq(Nat)
      BY HandlersOK DEF Inv, DbInv, HandlerOK, Handler
  <2>3. ASSUME NEW r \in Pending(w)
        PROVE  /\ r.sender \in Senders /\ r.user \in Users
               /\ r.id \in Nat /\ r.id <= nextId'[r.user]
               /\ \E s \in OwnRows(r.sender)' : s.no = r.no /\ s.time = r.time /\ s.kind = r.kind
    <3>1. PICK i \in 1 .. Len(ids) : r = Row(m, ids, i)
        BY <2>1, <2>3
    <3>2. /\ r.user = m.rcpts[i] /\ r.sender = m.sender /\ r.no = m.no /\ r.id = ids[i]
          /\ r.time = m.time /\ r.kind = m.kind
        BY <2>1, <3>1, OwnRowIsFirst
    <3>3. m.rcpts[i] \in Users /\ ids[i] \in Nat /\ ids[i] <= nextId[m.rcpts[i]]
      <4>1. m.rcpts \in Seq(Users) /\ i \in 1 .. Len(m.rcpts)
          BY <2>1, MessageFacts
      <4>2. m.rcpts[i] \in Users /\ ids[i] \in Nat
          BY <2>2, <4>1
      <4> QED  BY <2>1, <4>2 DEF IdsAbove
    <3>4. 1 \in 1 .. Len(m.rcpts)
        BY <2>1, MessageFacts
    <3> PICK s : s = Row(m, ids, 1)
        OBVIOUS
    <3>5. s.no = r.no /\ s.time = r.time /\ s.kind = r.kind /\ s \in OwnRows(r.sender)'
        BY <2>1, <3>2, <3>4, OwnRowIsFirst
    <3>6. r.id <= nextId'[r.user]
        BY <1>0, <3>2, <3>3
    <3> QED  BY <2>1, <3>2, <3>3, <3>5, <3>6
  <2>4. \A r \in Committed' : r \in Committed \/ r \in Pending(w)
      BY <1>3 DEF FirstStep
  <2> QED  BY <1>1, <2>3, <2>4 DEF CommittedOwned, OwnRows
<1> QED  BY <1>2, <1>3, CommittedSteps DEF Inv

(* Ids that are above stay above: until their message is stored its sender *)
(* sends no other.                                                         *)
LEMMA IdsAboveStays ==
    ASSUME Inv, OrderInv, [Next]_allVars, NEW m \in Messages, Live(m), NEW ids,
           \A i \in 1 .. Len(ids) : ids[i] \in Nat /\ m.rcpts[i] \in Users,
           IdsAbove(m, ids)
    PROVE  IdsAbove(m, ids)'
<1>0. \A v \in Users : nextId[v] \in Nat /\ nextId'[v] \in Nat /\ nextId[v] <= nextId'[v]
    BY NextIdGrows DEF Inv
<1>1. \A i \in 1 .. Len(ids) : ids[i] <= nextId'[m.rcpts[i]]
    BY <1>0 DEF IdsAbove
<1>2. rows \subseteq rows'
    BY RowSteps DEF Grows
<1>3. CASE Holds(m.sender, m)
  <2>1. Holds(m.sender, m)'
      BY <1>2, <1>3, SettledStays
  <2> QED  BY <1>1, <2>1 DEF IdsAbove
<1>4. CASE ~Holds(m.sender, m)
  <2>1. ASSUME NEW r \in Committed', r.sender = m.sender, r.no < m.no PROVE r \in Committed
    <3>1. CASE Committed' \subseteq Committed
        BY <3>1
    <3>2. ASSUME NEW w \in Savers, FirstStep(w), r \in Pending(w) PROVE FALSE
      <4> PICK k : k = save[w].msg
          OBVIOUS
      <4> PICK ks : ks = save[w].ids
          OBVIOUS
      <4>1. /\ k \in Messages /\ client[k.sender].msg = k /\ Len(ks) = Len(k.rcpts)
            /\ \A q \in Pending(w) : \E i \in 1 .. Len(ks) : q = Row(k, ks, i)
          BY <3>2, FirstStepIs
      <4>2. r.sender = k.sender /\ r.no = k.no
          BY <3>2, <4>1, OwnRowIsFirst
      <4>3. m = client[m.sender].msg
          BY <1>4 DEF Inv, KnownLive, Settled
      <4>4. r.no = m.no /\ m.no \in Nat
          BY <2>1, <4>1, <4>2, <4>3, MessageFacts
      <4> QED  BY <2>1, <4>4
    <3> QED  BY <3>1, <3>2, CommittedSteps DEF Inv, FirstStep
  <2>2. \A i \in 1 .. Len(ids) : \A r \in Committed' :
           r.user = m.rcpts[i] /\ r.sender = m.sender /\ r.no < m.no => r.id < ids[i]
      BY <1>4, <2>1 DEF IdsAbove
  <2> QED  BY <1>1, <2>2 DEF IdsAbove
<1> QED  BY <1>3, <1>4


(* Whose ids a handler and a save have after a step. *)
LEMMA CallSteps ==
    ASSUME Inv, [Next]_allVars, NEW h \in Handlers, call'[h].stage # "free"
    PROVE  \/ /\ call[h].stage # "free"
              /\ call'[h].msg = call[h].msg /\ call'[h].ids = call[h].ids
           \/ call'[h].ids = << >>
           \/ IdGenerate(h)
<1>0. call \in [Handlers -> Calls]
    BY DEF Inv, Shapes, CallTypes
<1>1. CASE call' = call
    BY <1>1
<1>2. ASSUME NEW g \in Handlers, LogicStep(g), call' # call
      PROVE  \/ /\ call[h].stage # "free"
                /\ call'[h].msg = call[h].msg /\ call'[h].ids = call[h].ids
             \/ call'[h].ids = << >>
             \/ IdGenerate(h)
  <2>1. CASE Deliver(g)
      BY <1>0, <2>1 DEF Deliver
  <2>2. CASE IdGenerate(g)
    <3>1. \E c \in Calls : call' = [call EXCEPT ![g] = c]
        BY <2>2, NextIdGiven DEF Inv
    <3> QED  BY <1>0, <2>2, <3>1
  <2>3. CASE CallSave(g)
    <3>1. \E c \in Calls : /\ c.msg = call[g].msg /\ c.ids = call[g].ids /\ call[g].stage = "save"
                           /\ call' = [call EXCEPT ![g] = c]
        BY <2>3, CallSaveIs DEF Inv
    <3> QED  BY <1>0, <3>1
  <2>4. CASE CheckCache(g) \/ CheckStore(g)
    <3>1. /\ call[g].stage # "free"
          /\ \/ call' = [call EXCEPT ![g] = FreeCall]
             \/ \E st \in {"store", "ids"} : call' = [call EXCEPT ![g].stage = st]
        BY <2>4 DEF CheckCache, CheckStore, CheckDuplicate, ReplyMsgId, Finish
    <3>2. CASE call' = [call EXCEPT ![g] = FreeCall]
        BY <1>0, <3>2, FreeCallOK
    <3>3. ASSUME NEW st \in {"store", "ids"}, call' = [call EXCEPT ![g].stage = st]
          PROVE  call'[h].msg = call[h].msg /\ call'[h].ids = call[h].ids
                 /\ call[h].stage # "free"
      <4>1. CASE h = g
          BY <1>0, <3>1, <3>3, <4>1 DEF Calls
      <4>2. CASE h # g
          BY <1>0, <3>3, <4>2
      <4> QED  BY <4>1, <4>2
    <3> QED  BY <3>1, <3>2, <3>3
  <2>5. CASE CallFails(g) \/ SaveSucceeds(g) \/ SaveFails(g) \/ SaveTimeout(g)
      BY <1>0, <2>5, FreeCallOK DEF CallFails, SaveSucceeds, SaveFails, SaveTimeout, ReplyFailure,
                        ReplyMsgId, Finish
  <2> QED  BY <1>2, <2>1, <2>2, <2>3, <2>4, <2>5 DEF LogicStep
<1>3. CASE ~\E g \in Handlers : LogicStep(g)
  <2>1. call' = call
      BY <1>3 DEF Next, Tick, ClientSend, ClientTimeout, ClientQuit, DbproxyStep, KeyExpires,
                  sendVars, allVars
  <2> QED  BY <1>1, <2>1
<1> QED  BY <1>1, <1>2, <1>3

LEMMA SaveSteps ==
    ASSUME Inv, [Next]_allVars, NEW w \in Savers, save'[w].stage # "free"
    PROVE  \/ /\ save[w].stage # "free"
              /\ save'[w].msg = save[w].msg /\ save'[w].ids = save[w].ids
           \/ \E h \in Handlers : /\ call[h].stage = "save"
                                  /\ save'[w].msg = call[h].msg /\ save'[w].ids = call[h].ids
<1>0. save \in [Savers -> Handler]
    BY HandlersOK DEF Inv, DbInv, HandlerOK
<1>1. CASE save' = save
    BY <1>1
<1>2. ASSUME NEW h \in Handlers, CallSave(h)
      PROVE  save'[w] = save[w] \/ (/\ call[h].stage = "save" /\ save'[w].msg = call[h].msg
                                    /\ save'[w].ids = call[h].ids)
  <2>1. PICK v \in Savers :
           /\ save' = [save EXCEPT ![v] = [stage |-> "insert", msg |-> call[h].msg,
                                           ids |-> call[h].ids, done |-> 0]]
           /\ call[h].stage = "save"
      BY <1>2, CallSaveIs DEF Inv
  <2> QED  BY <1>0, <2>1
<1>3. ASSUME NEW v \in Savers, DbproxyStep(v)
      PROVE  /\ save'[w].msg = save[w].msg /\ save'[w].ids = save[w].ids
             /\ save[w].stage # "free"
  <2>1. /\ save' = [save EXCEPT ![v] = save'[v]]
        /\ save'[v].msg = save[v].msg /\ save'[v].ids = save[v].ids
      BY <1>3, SaveChange DEF Inv, DbInv, DbproxyStep
  <2>2. save[v].stage # "free"
      BY <1>3 DEF DbproxyStep, SaveStep, Insert, InsertRejected, InsertFails, SetUserLastSendData,
                  SetUserLastSendDataFails
  <2> QED  BY <1>0, <2>1, <2>2
<1>4. CASE ~(\E h \in Handlers : CallSave(h)) /\ ~(\E v \in Savers : DbproxyStep(v))
  <2>1. save' = save
      BY <1>4 DEF Next, Tick, ClientSend, ClientTimeout, ClientQuit, KeyExpires, Expire,
                  allVars, LogicStep, Deliver, CheckCache, CheckStore, IdGenerate, CallFails,
                  SaveSucceeds, SaveFails, SaveTimeout, vars, dbVars
  <2> QED  BY <1>1, <2>1
<1> QED  BY <1>1, <1>2, <1>3, <1>4

(* The ids a handler or a save has. *)
LEMMA IdsHeld ==
    ASSUME Inv
    PROVE  /\ \A h \in Handlers : call[h].stage # "free" =>
                 /\ call[h].msg \in Messages
                 /\ \A i \in 1 .. Len(call[h].ids) :
                       call[h].ids[i] \in Nat /\ call[h].msg.rcpts[i] \in Users
           /\ \A w \in Savers : save[w].stage # "free" =>
                 /\ save[w].msg \in Messages
                 /\ \A i \in 1 .. Len(save[w].ids) :
                       save[w].ids[i] \in Nat /\ save[w].msg.rcpts[i] \in Users
<1>1. ASSUME NEW m \in Messages, NEW ids \in Seq(Nat), Len(ids) <= Len(m.rcpts),
             NEW i \in 1 .. Len(ids)
      PROVE  ids[i] \in Nat /\ m.rcpts[i] \in Users
  <2>1. m.rcpts \in Seq(Users)
      BY MessageFacts
  <2>2. i \in 1 .. Len(m.rcpts)
      BY <1>1, <2>1
  <2> QED  BY <1>1, <2>1, <2>2
<1>2. ASSUME NEW h \in Handlers, call[h].stage # "free"
      PROVE  call[h].msg \in Messages /\ call[h].ids \in Seq(Nat)
             /\ Len(call[h].ids) <= Len(call[h].msg.rcpts)
  <2>1. call[h] \in Calls /\ CallOK(call[h])
      BY DEF Inv, Shapes, CallTypes
  <2>2. call[h].msg \in Messages /\ call[h].ids \in Seq(Nat)
      BY <1>2, <2>1, IdsAreNumbers DEF CallOK, Calls
  <2>3. Len(call[h].ids) \in Nat /\ Len(call[h].msg.rcpts) \in Nat \ {0}
      BY <2>2, MessageFacts
  <2>4. call[h].ids = << >> => Len(call[h].ids) = 0
      OBVIOUS
  <2> QED  BY <1>2, <2>1, <2>2, <2>3, <2>4 DEF CallOK, Calls, CallStages
<1>3. ASSUME NEW w \in Savers, save[w].stage # "free"
      PROVE  save[w].msg \in Messages /\ save[w].ids \in Seq(Nat)
             /\ Len(save[w].ids) <= Len(save[w].msg.rcpts)
  <2>1. HandlerOK(save[w])
      BY HandlersOK DEF Inv, DbInv
  <2>2. save[w].msg \in Messages /\ save[w].ids \in Seq(Nat)
        /\ Len(save[w].ids) = Len(save[w].msg.rcpts)
      BY <1>3, <2>1 DEF HandlerOK, Handler
  <2>3. Len(save[w].ids) \in Nat
      BY <2>2
  <2> QED  BY <2>2, <2>3
<1> QED  BY <1>1, <1>2, <1>3


(* A new id is above every id decided for its mailbox. *)
LEMMA NextIdAbove ==
    ASSUME Inv, OrderInv, NEW h \in Handlers, IdGenerate(h), NEW v \in Users, NEW n \in Nat,
           nextId' = [nextId EXCEPT ![v] = n], n = nextId[v] + 1, nextId[v] \in Nat
    PROVE  n <= nextId'[v] /\ \A r \in Committed' : r.user = v => r.id < n
<1>1. nextId'[v] = n
    BY DEF Inv, Shapes
<1>2. Committed' = Committed
  <2>1. rows' = rows /\ save' = save
      BY DEF IdGenerate, vars
  <2> QED  BY <2>1 DEF Committed, Pending, Ahead
<1>3. \A r \in Committed : r.user = v => r.id \in Nat /\ r.id <= nextId[v]
    BY DEF OrderInv, CommittedOwned
<1>4. ASSUME NEW r \in Committed, r.user = v PROVE r.id < n
  <2>1. r.id \in Nat /\ r.id <= nextId[v]
      BY <1>3, <1>4
  <2> QED  BY <2>1
<1> QED  BY <1>1, <1>2, <1>4

(* One id more. *)
Extended(old, n, ids) ==
    \A i \in 1 .. Len(ids) : \/ i \in 1 .. Len(old) /\ ids[i] = old[i]
                             \/ i = Len(old) + 1 /\ ids[i] = n

LEMMA AppendIs == \A old \in Seq(Ids), n \in Nat : Extended(old, n, Append(old, n))
<1> SUFFICES ASSUME NEW old \in Seq(Ids), NEW n \in Nat, NEW ids, ids = Append(old, n)
             PROVE  Extended(old, n, ids)
    OBVIOUS
<1>1. Len(old) \in Nat /\ Len(ids) = Len(old) + 1
    OBVIOUS
<1>2. \A i \in 1 .. Len(old) : ids[i] = old[i]
    OBVIOUS
<1>3. ids[Len(old) + 1] = n
    OBVIOUS
<1>4. ASSUME NEW k \in Nat, NEW i \in 1 .. k + 1  PROVE i \in 1 .. k \/ i = k + 1
    OBVIOUS
<1> QED  BY <1>1, <1>2, <1>3, <1>4 DEF Extended

(* So a handler's ids are all above, the new one too. *)
LEMMA NewIdAbove ==
    ASSUME Inv, OrderInv, [Next]_allVars, NEW h \in Handlers, IdGenerate(h),
           NEW m, m = call[h].msg, NEW ids, ids = call'[h].ids
    PROVE  IdsAbove(m, ids)'
<1> PICK old : old = call[h].ids
    OBVIOUS
<1> PICK c \in Calls, v \in Users, n \in Nat :
        /\ c.msg = m /\ c.ids = Append(old, n) /\ c.stage # "free"
        /\ call' = [call EXCEPT ![h] = c]
        /\ nextId' = [nextId EXCEPT ![v] = n]
        /\ n = nextId[v] + 1 /\ nextId[v] \in Nat
        /\ Len(old) + 1 \in 1 .. Len(m.rcpts)
        /\ v = m.rcpts[Len(old) + 1]
        /\ m \in Messages /\ call[h].stage = "ids"
    BY NextIdGiven DEF Inv
<1>1. ids = Append(old, n)
    BY DEF Inv, Shapes, CallTypes
<1>2. old \in Seq(Ids)
  <2>1. call[h] \in Calls
      BY DEF Inv, Shapes, CallTypes
  <2> QED  BY <2>1 DEF Calls
<1>3. \A i \in 1 .. Len(ids) : \/ i \in 1 .. Len(old) /\ ids[i] = old[i]
                               \/ ids[i] = n /\ m.rcpts[i] = v
  <2>1. v = m.rcpts[Len(old) + 1]
      OBVIOUS
  <2>2. Extended(old, n, Append(old, n))
      BY <1>2, AppendIs, Zenon
  <2>3. Extended(old, n, ids)
      BY <1>1, <2>2, Zenon
  <2> QED  BY <2>1, <2>3, Zenon DEF Extended
<1>4. IdsAbove(m, old)'
  <2>1. IdsAbove(m, old) /\ Live(m)
      BY DEF OrderInv, CallIdsAbove, Live
  <2>2. \A i \in 1 .. Len(old) : old[i] \in Nat /\ m.rcpts[i] \in Users
      BY IdsHeld
  <2> QED  BY <2>1, <2>2, IdsAboveStays
<1>5. n <= nextId'[v] /\ \A r \in Committed' : r.user = v => r.id < n
    BY NextIdAbove
<1>6. \A i \in 1 .. Len(ids) :
         /\ ids[i] <= nextId'[m.rcpts[i]]
         /\ ~Holds(m.sender, m)' =>
               \A r \in Committed' : r.user = m.rcpts[i] /\ r.sender = m.sender /\ r.no < m.no
                                       => r.id < ids[i]
    BY <1>3, <1>4, <1>5 DEF IdsAbove
<1> QED  BY <1>6 DEF IdsAbove

LEMMA OrderStep ==
    ASSUME Inv, OrderInv, [Next]_allVars
    PROVE  OrderInv'
<1>1. ASSUME NEW h \in Handlers, call'[h].stage # "free",
             NEW m, m = call'[h].msg, NEW ids, ids = call'[h].ids
      PROVE  IdsAbove(m, ids)'
  <2>1. CASE call[h].stage # "free" /\ call'[h].msg = call[h].msg /\ call'[h].ids = call[h].ids
    <3>1. IdsAbove(m, ids) /\ Live(m)
        BY <1>1, <2>1 DEF OrderInv, CallIdsAbove, Live
    <3>2. m \in Messages /\ \A i \in 1 .. Len(ids) : ids[i] \in Nat /\ m.rcpts[i] \in Users
        BY <1>1, <2>1, IdsHeld
    <3> QED  BY <3>1, <3>2, IdsAboveStays
  <2>2. CASE ids = << >>
      BY <2>2 DEF IdsAbove
  <2>3. CASE IdGenerate(h)
    <3>1. call'[h].msg = call[h].msg
        BY <2>3, NextIdGiven DEF Inv, Shapes, CallTypes
    <3> QED  BY <1>1, <2>3, <3>1, NewIdAbove
  <2> QED  BY <1>1, <2>1, <2>2, <2>3, CallSteps
<1>2. ASSUME NEW w \in Savers, save'[w].stage # "free",
             NEW m, m = save'[w].msg, NEW ids, ids = save'[w].ids
      PROVE  IdsAbove(m, ids)'
  <2>1. IdsAbove(m, ids) /\ Live(m) /\ m \in Messages
        /\ \A i \in 1 .. Len(ids) : ids[i] \in Nat /\ m.rcpts[i] \in Users
    <3>1. CASE save[w].stage # "free" /\ save'[w].msg = save[w].msg /\ save'[w].ids = save[w].ids
        BY <1>2, <3>1, IdsHeld DEF OrderInv, SaveIdsAbove, Live
    <3>2. ASSUME NEW h \in Handlers, call[h].stage = "save",
                 save'[w].msg = call[h].msg, save'[w].ids = call[h].ids
          PROVE  IdsAbove(m, ids) /\ Live(m) /\ m \in Messages
                 /\ \A i \in 1 .. Len(ids) : ids[i] \in Nat /\ m.rcpts[i] \in Users
        BY <1>2, <3>2, IdsHeld DEF OrderInv, CallIdsAbove, Live
    <3> QED  BY <1>2, <3>1, <3>2, SaveSteps
  <2> QED  BY <2>1, IdsAboveStays
<1>3. CallIdsAbove'
    BY <1>1, Zenon DEF CallIdsAbove
<1>4. SaveIdsAbove'
    BY <1>2, Zenon DEF SaveIdsAbove
<1> QED  BY <1>3, <1>4, CommittedOrderStep, CommittedOwnedStep DEF OrderInv

LEMMA InitOrder == Init => OrderInv
<1> SUFFICES ASSUME Init PROVE OrderInv
    OBVIOUS
<1>1. rows = {} /\ (\A w \in Savers : save[w].stage = "free") /\ (\A h \in Handlers : call[h].stage = "free")
    BY DEF Init, DbInit, SendInit, FreeCall
<1>2. Committed = {}
    BY <1>1 DEF Committed, Ahead
<1> QED  BY <1>1, <1>2 DEF OrderInv, CommittedOrder, CommittedOwned, CallIdsAbove, SaveIdsAbove

(* In a mailbox the messages of a sender have ids in the order he sent     *)
(* them (logic_service.cc:110-163, client.cc:447-471).                     *)
THEOREM InOrder == Spec => []MailboxOrder
<1>1. Init => Inv /\ OrderInv
    BY InitInv, InitOrder
<1>2. (Inv /\ OrderInv) /\ [Next]_allVars => (Inv /\ OrderInv)'
    BY NextInv, OrderStep
<1>3. OrderInv => MailboxOrder
    BY DEF OrderInv, CommittedOrder, Committed, MailboxOrder
<1> QED  BY <1>1, <1>2, <1>3, PTL DEF Spec


--------------------------------------------------------------------------------
(* No second push: an id of a sender's mailbox is given to one handler.    *)
FirstId(h)   == call[h].ids[1]
HasFirst(h)  == call[h].ids # << >>
SenderOf(h)  == call[h].msg.sender

FirstIds ==
    /\ \A g, h \in Handlers :
          g # h /\ HasFirst(g) /\ HasFirst(h) /\ SenderOf(g) = SenderOf(h)
            => FirstId(g) # FirstId(h)
    /\ \A h \in Handlers : HasFirst(h) =>
          \A p \in pushes : p.msg.sender = SenderOf(h) => p.ids[1] # FirstId(h)
    /\ \A p \in pushes : p.ids[1] \in Nat /\ p.ids[1] <= nextId[p.msg.sender]

(* The first ids that handlers have are given. *)
LEMMA FirstIdGiven ==
    ASSUME Inv, OrderInv, NEW h \in Handlers, HasFirst(h)
    PROVE  /\ call[h].msg \in Messages /\ SenderOf(h) \in Users
           /\ FirstId(h) \in Nat /\ FirstId(h) <= nextId[SenderOf(h)]
<1>1. call[h] \in Calls /\ CallOK(call[h])
    BY DEF Inv, Shapes, CallTypes
<1>2. call[h].stage # "free" /\ call[h].ids \in Seq(Ids) /\ call[h].ids # << >>
    BY <1>1 DEF HasFirst, CallOK, Calls
<1>3. 1 \in 1 .. Len(call[h].ids)
    BY <1>2
<1>4. /\ call[h].msg \in Messages /\ call[h].ids[1] \in Nat
      /\ call[h].ids[1] <= nextId[call[h].msg.rcpts[1]]
    BY <1>2, <1>3, IdsHeld DEF OrderInv, CallIdsAbove, IdsAbove
<1> QED  BY <1>4, MessageFacts DEF FirstId, SenderOf

(* A handler's first id stays, or is new. *)
LEMMA FirstIdSteps ==
    ASSUME Inv, OrderInv, [Next]_allVars, NEW h \in Handlers, HasFirst(h)'
    PROVE  \/ HasFirst(h) /\ FirstId(h)' = FirstId(h) /\ SenderOf(h)' = SenderOf(h)
           \/ /\ FirstId(h)' = nextId[SenderOf(h)'] + 1 /\ SenderOf(h)' \in Users
              /\ \A g \in Handlers \ {h} : call'[g] = call[g]
              /\ pushes' = pushes
<1>1. call \in [Handlers -> Calls]
    BY DEF Inv, Shapes, CallTypes
<1>2. CallOK(call'[h])
    BY NextInv DEF Inv, Shapes, CallTypes
<1>3. call'[h].stage # "free" /\ call'[h].ids # << >>
    BY <1>2 DEF HasFirst, CallOK
<1>4. CASE call'[h].msg = call[h].msg /\ call'[h].ids = call[h].ids
    BY <1>3, <1>4 DEF HasFirst, FirstId, SenderOf
<1>5. CASE IdGenerate(h)
  <2> PICK old : old = call[h].ids
      OBVIOUS
  <2> PICK m : m = call[h].msg
      OBVIOUS
  <2> PICK c \in Calls, v \in Users, n \in Nat :
        /\ c.msg = m /\ c.ids = Append(old, n)
        /\ call' = [call EXCEPT ![h] = c]
        /\ n = nextId[v] + 1
        /\ v = m.rcpts[Len(old) + 1] /\ m \in Messages
      BY <1>5, NextIdGiven DEF Inv
  <2>1. call'[h].ids = Append(old, n) /\ call'[h].msg = m /\ old \in Seq(Ids)
      BY <1>1 DEF Calls
  <2>2. CASE old = << >>
    <3>1. Len(old) + 1 = 1 /\ Append(old, n)[1] = n
        BY <2>2
    <3>2. v = m.sender
        BY <3>1, MessageFacts
    <3>3. pushes' = pushes /\ \A g \in Handlers \ {h} : call'[g] = call[g]
        BY <1>1, <1>5 DEF IdGenerate
    <3> QED  BY <2>1, <3>1, <3>2, <3>3 DEF FirstId, SenderOf
  <2>3. CASE old # << >>
    <3>1. Append(old, n)[1] = old[1]
        BY <2>1, <2>3
    <3> QED  BY <2>1, <2>3, <3>1 DEF HasFirst, FirstId, SenderOf
  <2> QED  BY <2>2, <2>3
<1> QED  BY <1>3, <1>4, <1>5, CallSteps

(* Whose a new push is. *)
LEMMA NewPush ==
    ASSUME Inv, [Next]_allVars, NEW p \in pushes', p \notin pushes
    PROVE  \E g \in Handlers : /\ SaveSucceeds(g) /\ HasFirst(g)
                               /\ p.msg = call[g].msg /\ p.ids = call[g].ids
<1>1. PICK g \in Handlers : SaveSucceeds(g) /\ p = [msg |-> call[g].msg, ids |-> call[g].ids]
    BY PushedSteps DEF SaveSucceeds
<1>2. CallOK(call[g]) /\ call[g].stage = "saving"
    BY <1>1 DEF Inv, Shapes, CallTypes, SaveSucceeds, SaveDone
<1>3. Len(call[g].ids) = Len(call[g].msg.rcpts) /\ call[g].msg \in Messages
    BY <1>2 DEF CallOK
<1>4. Len(call[g].ids) # 0
    BY <1>3, MessageFacts
<1> QED  BY <1>1, <1>4 DEF HasFirst

LEMMA FirstIdsStep ==
    ASSUME Inv, OrderInv, FirstIds, [Next]_allVars
    PROVE  FirstIds'
<1>0. \A v \in Users : nextId[v] \in Nat /\ nextId'[v] \in Nat /\ nextId[v] <= nextId'[v]
    BY NextIdGrows DEF Inv
<1>1. ASSUME NEW g \in Handlers, NEW h \in Handlers, g # h, HasFirst(g)', HasFirst(h)',
             SenderOf(g)' = SenderOf(h)'
      PROVE  FirstId(g)' # FirstId(h)'
  <2>1. ASSUME NEW i \in Handlers, NEW j \in Handlers, i # j, HasFirst(j)',
               SenderOf(i)' = SenderOf(j)', SenderOf(i)' \in Users,
               FirstId(i)' = nextId[SenderOf(i)'] + 1,
               \A k \in Handlers \ {i} : call'[k] = call[k]
        PROVE  FirstId(i)' # FirstId(j)'
    <3>1. call'[j] = call[j]
        BY <2>1
    <3>2. HasFirst(j) /\ FirstId(j)' = FirstId(j) /\ SenderOf(j)' = SenderOf(j)
        BY <2>1, <3>1 DEF HasFirst, FirstId, SenderOf
    <3>3. FirstId(j) \in Nat /\ FirstId(j) <= nextId[SenderOf(j)]
        BY <3>2, FirstIdGiven
    <3> QED  BY <1>0, <2>1, <3>2, <3>3
  <2>2. CASE /\ HasFirst(g) /\ FirstId(g)' = FirstId(g) /\ SenderOf(g)' = SenderOf(g)
             /\ HasFirst(h) /\ FirstId(h)' = FirstId(h) /\ SenderOf(h)' = SenderOf(h)
      BY <1>1, <2>2 DEF FirstIds
  <2> QED  BY <1>1, <2>1, <2>2, FirstIdSteps
<1>2. ASSUME NEW h \in Handlers, HasFirst(h)', NEW p \in pushes', p.msg.sender = SenderOf(h)'
      PROVE  p.ids[1] # FirstId(h)'
  <2>1. CASE HasFirst(h) /\ FirstId(h)' = FirstId(h) /\ SenderOf(h)' = SenderOf(h) /\ p \in pushes
      BY <1>2, <2>1 DEF FirstIds
  <2>2. CASE /\ FirstId(h)' = nextId[SenderOf(h)'] + 1 /\ SenderOf(h)' \in Users
             /\ pushes' = pushes
    <3>1. p.ids[1] \in Nat /\ p.ids[1] <= nextId[SenderOf(h)']
        BY <1>2, <2>2 DEF FirstIds
    <3> QED  BY <1>0, <2>2, <3>1
  <2>3. ASSUME HasFirst(h), FirstId(h)' = FirstId(h), SenderOf(h)' = SenderOf(h), p \notin pushes
        PROVE  p.ids[1] # FirstId(h)'
    <3>1. PICK g \in Handlers : /\ SaveSucceeds(g) /\ HasFirst(g)
                                /\ p.msg = call[g].msg /\ p.ids = call[g].ids
        BY <1>2, <2>3, NewPush
    <3>2. h # g
      <4>1. call'[g].ids = << >>
          BY <3>1 DEF SaveSucceeds, ReplyMsgId, Finish, FreeCall, Inv, Shapes, CallTypes
      <4> QED  BY <1>2, <4>1 DEF HasFirst
    <3> QED  BY <1>2, <2>3, <3>1, <3>2 DEF FirstIds, FirstId, SenderOf
  <2> QED  BY <1>2, <2>1, <2>2, <2>3, FirstIdSteps
<1>3. ASSUME NEW p \in pushes' PROVE p.ids[1] \in Nat /\ p.ids[1] <= nextId'[p.msg.sender]
  <2>1. p.ids[1] \in Nat /\ p.ids[1] <= nextId[p.msg.sender] /\ p.msg.sender \in Users
    <3>1. CASE p \in pushes
      <4>1. p.msg \in Messages
          BY <3>1 DEF Inv, Shapes, ReplyTypes
      <4> QED  BY <3>1, <4>1, MessageFacts DEF FirstIds
    <3>2. CASE p \notin pushes
      <4>1. PICK g \in Handlers : HasFirst(g) /\ p.msg = call[g].msg /\ p.ids = call[g].ids
          BY <1>3, <3>2, NewPush
      <4> QED  BY <4>1, FirstIdGiven DEF FirstId, SenderOf
    <3> QED  BY <3>1, <3>2
  <2> QED  BY <1>0, <2>1
<1> QED  BY <1>1, <1>2, <1>3 DEF FirstIds, HasFirst, FirstId, SenderOf

(* Two pushes of a message would be two ids in one mailbox. *)
LEMMA PushedOnce ==
    ASSUME Inv, OrderInv, FirstIds
    PROVE  OnePushPerMessage
<1>0. ASSUME NEW h \in Handlers, SaveDone(h), NEW p \in pushes, p.msg = call[h].msg
      PROVE  FALSE
  <2> PICK m : m = call[h].msg
      OBVIOUS
  <2> PICK ids : ids = call[h].ids
      OBVIOUS
  <2>1. m \in Messages /\ OwnRow(m, ids[1]) \in rows /\ Len(ids) = Len(m.rcpts)
      BY <1>0, SavedIsStored DEF Inv
  <2>2. 1 \in 1 .. Len(m.rcpts) /\ m.rcpts[1] = m.sender
      BY <2>1, MessageFacts
  <2>3. Row(m, p.ids, 1) \in rows
      BY <1>0, <2>2 DEF Inv, PushedIsStored
  <2>4. Row(m, p.ids, 1) = OwnRow(m, p.ids[1])
      BY <2>2 DEF Row, OwnRow
  <2>5. p.ids[1] = ids[1]
    <3> PICK r, s : r = OwnRow(m, p.ids[1]) /\ s = OwnRow(m, ids[1])
        OBVIOUS
    <3>1. r.id = p.ids[1] /\ s.id = ids[1] /\ SameKey(r, s)
        BY DEF OwnRow, SameKey
    <3>2. r = s
        BY <2>1, <2>3, <2>4, <3>1 DEF Inv, UniqueKey
    <3> QED  BY <3>1, <3>2
  <2>6. HasFirst(h)
    <3>1. Len(ids) # 0
        BY <2>1, MessageFacts
    <3> QED  BY <3>1 DEF HasFirst
  <2> QED  BY <1>0, <2>5, <2>6 DEF FirstIds, FirstId, SenderOf
<1> SUFFICES ASSUME NEW p \in pushes, NEW q \in pushes, p.msg = q.msg PROVE p = q
    BY <1>0 DEF OnePushPerMessage
<1>1. /\ p \in [msg : Messages, ids : Seq(Nat)] /\ Len(p.ids) = Len(p.msg.rcpts)
      /\ q \in [msg : Messages, ids : Seq(Nat)] /\ Len(q.ids) = Len(p.msg.rcpts)
    BY DEF Inv, Shapes, ReplyTypes
<1>2. ASSUME NEW i \in 1 .. Len(p.ids) PROVE p.ids[i] = q.ids[i]
  <2>1. Row(p.msg, p.ids, i) \in rows /\ Row(p.msg, q.ids, i) \in rows
      BY <1>1, <1>2 DEF Inv, PushedIsStored
  <2>2. Row(p.msg, p.ids, i) = Row(p.msg, q.ids, i)
      BY <2>1 DEF Inv, UniqueKey, SameKey, Row
  <2> QED  BY <2>2 DEF Row
<1>3. p.ids = q.ids
  <2> PICK n, a, b : n = Len(p.ids) /\ a = p.ids /\ b = q.ids
      OBVIOUS
  <2>1. a \in [1 .. n -> Nat] /\ b \in [1 .. n -> Nat]
    <3>1. a \in Seq(Nat) /\ b \in Seq(Nat) /\ Len(a) = n /\ Len(b) = n
        BY <1>1
    <3> QED  BY <3>1
  <2>2. \A i \in 1 .. n : a[i] = b[i]
      BY <1>2
  <2> QED  BY <2>1, <2>2
<1> QED  BY <1>1, <1>3

(* However often a message is sent again, SendtoPeers is started at most   *)
(* once for it (logic_service.cc:88-108, 243-249, db.sql:94).              *)
THEOREM OnePush == Spec => []OnePushPerMessage
<1>1. Init => Inv /\ OrderInv /\ FirstIds
    BY InitInv, InitOrder DEF Init, SendInit, FirstIds, HasFirst, FreeCall
<1>2. (Inv /\ OrderInv /\ FirstIds) /\ [Next]_allVars => (Inv /\ OrderInv /\ FirstIds)'
    BY NextInv, OrderStep, FirstIdsStep
<1>3. Inv /\ OrderInv /\ FirstIds => OnePushPerMessage
    BY PushedOnce
<1> QED  BY <1>1, <1>2, <1>3, PTL DEF Spec

--------------------------------------------------------------------------------
(* Client, logic and storage keep the promise of Delivery.  A client sends *)
(* its next message when the one before is confirmed.                      *)
Confirmed(r) == \E k \in acked : Key(k.msg) = Key(r)

OwnConfirmed ==
    \A u \in Senders : \A r \in OwnRows(u) :
        r.no < client[u].sent \/ client[u].stage = "idle" => Confirmed(r)

LEMMA AckedGrows == [Next]_allVars => acked \subseteq acked'
BY DEF Next, Tick, ClientSend, ClientTimeout, ClientQuit, DbproxyStep, KeyExpires, sendVars,
       allVars, LogicStep, Deliver, CheckCache, CheckStore, CheckDuplicate, IdGenerate, CallFails,
       CallSave, SaveSucceeds, SaveFails, SaveTimeout, ReplyMsgId, ReplyFailure

LEMMA OwnConfirmedStep ==
    ASSUME Inv, OrderInv, OwnConfirmed, [Next]_allVars
    PROVE  OwnConfirmed'
<1>0. \A r : Confirmed(r) => Confirmed(r)'
    BY AckedGrows DEF Confirmed
<1> SUFFICES ASSUME NEW u \in Senders, NEW r \in OwnRows(u)',
                    r.no < client'[u].sent \/ client'[u].stage = "idle"
             PROVE  Confirmed(r)'
    BY DEF OwnConfirmed, OwnRows, Confirmed
<1>1. ASSUME NEW w \in Savers, Grows(w), UNCHANGED sendVars, r \notin OwnRows(u) PROVE FALSE
  <2> PICK m : m = save[w].msg
      OBVIOUS
  <2> PICK ids : ids = save[w].ids
      OBVIOUS
  <2>1. /\ u = m.sender /\ save[w].done = 0 /\ m \in Messages /\ r = Row(m, ids, 1)
        /\ \A q \in OwnRows(u) : q.time # m.time
      BY <1>1, OwnRowsGrow DEF Inv
  <2>2. client[u].msg = m /\ client[u].sent # 0 /\ ~Holds(u, m)
      BY <1>1, <2>1, FirstStatement DEF Inv
  <2>3. client[u].sent = m.no /\ client[u].stage # "idle"
      BY <2>2, OwnHolds DEF Inv, ClientsInv, ClientInv, LastMessage
  <2>4. 1 \in 1 .. Len(m.rcpts) /\ m.no \in Nat
      BY <2>1, MessageFacts
  <2>5. r.no = m.no
      BY <2>1, <2>4, OwnRowIsFirst
  <2>6. client' = client
      BY <1>1 DEF sendVars
  <2> QED  BY <2>3, <2>4, <2>5, <2>6
<1>2. r \in OwnRows(u)
    BY <1>1, RowSteps DEF OwnRows
<1>3. CASE ClientSend(u)
    BY <1>0, <1>2, <1>3 DEF ClientSend, OwnConfirmed
<1>4. CASE SameSend(u) /\ GoesOn(u)
  <2>1. CASE r.no < client[u].sent \/ client[u].stage = "idle"
      BY <1>0, <1>2, <2>1 DEF OwnConfirmed
  <2>2. CASE ~(r.no < client[u].sent) /\ client[u].stage # "idle"
    <3>1. PICK k \in acked' : k.msg = client[u].msg
        BY <1>4, <2>2 DEF SameSend, GoesOn
    <3>2. /\ r.no # 0 /\ r.no <= client[u].sent /\ r.no \in Nat /\ client[u].sent \in Nat
          /\ r.no = client[u].sent => r.kind = client[u].msg.kind
        BY <1>2, NumbersOf DEF Inv, ClientsInv, ClientInv, RowsOfSent
    <3>3. r.no = client[u].sent /\ client[u].sent # 0
        BY <2>2, <3>2
    <3>4. k.msg.sender = u /\ k.msg.no = r.no /\ k.msg.kind = r.kind /\ r.sender = u
        BY <1>2, <3>1, <3>2, <3>3, OwnHolds DEF Inv, OwnRows
    <3> QED  BY <3>1, <3>4 DEF Confirmed, Key
  <2> QED  BY <2>1, <2>2
<1> QED  BY <1>3, <1>4, ClientSteps DEF Inv

(* What Promise's variables are. *)
Stored    == {Key(r) : r \in SendersRows}
Complete  == {Key(r) : r \in {s \in SendersRows :
                \E m \in Messages :
                    /\ m.no = s.no /\ m.time = s.time /\ m.kind = s.kind
                    /\ m.sender = s.sender /\ StoredEverywhere(m)}}
Confirmeds == {Key(k.msg) : k \in acked}
Pushed    == {Key(p.msg) : p \in pushes}

LEMMA Stutters ==
    ASSUME UNCHANGED <<Stored, Complete, Confirmeds, Pushed>>
    PROVE  UNCHANGED Promise!vars
BY DEF Promise!vars, Stored, Complete, Confirmeds, Pushed

LEMMA PromiseStores ==
    ASSUME NEW m \in Messages, Key(m) \notin Stored,
           \A e \in Stored : e.sender = m.sender => e.no < m.no /\ e \in Confirmeds,
           Stored' = Stored \union {Key(m)},
           Complete' = Complete \union {Key(m)} \/ (m.kind = "group" /\ Complete' = Complete),
           UNCHANGED <<Confirmeds, Pushed>>
    PROVE  Promise!Next
<1> PICK K \in Keys : K = Key(m) /\ K.sender = m.sender /\ K.no = m.no /\ K.kind = m.kind
    BY DEF Keys, Key
<1>1. Promise!Store(K)
    BY DEF Promise!Store, Stored, Complete, Confirmeds, Pushed
<1> QED  BY <1>1 DEF Promise!Next

LEMMA PromiseCompletes ==
    ASSUME NEW m \in Messages, Key(m) \in Stored, Complete' = Complete \union {Key(m)},
           UNCHANGED <<Stored, Confirmeds, Pushed>>
    PROVE  Promise!Next
<1> PICK K \in Keys : K = Key(m)
    BY DEF Keys
<1>1. Promise!Complete(K)
    BY DEF Promise!Complete, Stored, Complete, Confirmeds, Pushed
<1> QED  BY <1>1 DEF Promise!Next

LEMMA PromiseReports ==
    ASSUME NEW m \in Messages, UNCHANGED <<Stored, Complete>>,
           \/ Confirmeds' = Confirmeds
           \/ Key(m) \in Stored /\ Confirmeds' = Confirmeds \union {Key(m)},
           \/ Pushed' = Pushed
           \/ Key(m) \in Complete \ Pushed /\ Pushed' = Pushed \union {Key(m)}
    PROVE  [Promise!Next]_(Promise!vars)
<1> PICK K \in Keys : K = Key(m)
    BY DEF Keys
<1>1. CASE Confirmeds' = Confirmeds /\ Pushed' = Pushed
    BY <1>1, Stutters
<1>2. CASE Confirmeds' # Confirmeds \/ Pushed' # Pushed
  <2>1. Promise!Report(K)
      BY <1>2 DEF Promise!Report, Promise!Push, Promise!Confirm, Stored, Complete, Confirmeds, Pushed
  <2> QED  BY <2>1 DEF Promise!Next
<1> QED  BY <1>1, <1>2


(* The rows of a statement carry its message. *)
LEMMA StatementOf ==
    ASSUME DbInv, NEW w \in Savers, Grows(w), NEW m, m = save[w].msg
    PROVE  \A r \in Statement(w) : /\ r.sender = m.sender /\ r.time = m.time
                                   /\ r.no = m.no /\ r.kind = m.kind
<1> PICK ids : ids = save[w].ids
    OBVIOUS
<1>1. m \in Messages /\ \A r \in Statement(w) : \E i \in 1 .. Len(m.rcpts) : r = Row(m, ids, i)
    BY StatementIs DEF Grows
<1> QED  BY <1>1, OwnRowIsFirst

(* A statement completes no message but its own. *)
LEMMA CompleteGrows ==
    ASSUME DbInv, NEW w \in Savers, Grows(w), NEW m, m = save[w].msg
    PROVE  Complete \subseteq Complete' /\ Complete' \subseteq Complete \union {Key(m)}
<1>0. rows \subseteq rows' /\ rows' = rows \union Statement(w)
    BY DEF Grows
<1>1. Complete \subseteq Complete'
    BY <1>0, SettledStays DEF Complete, SendersRows, StoredEverywhere, Holds
<1>2. ASSUME NEW s \in rows', s.user = s.sender, Key(s) # Key(m),
             NEW k \in Messages, k.no = s.no, k.time = s.time, k.kind = s.kind,
             k.sender = s.sender, StoredEverywhere(k)'
      PROVE  s \in rows /\ StoredEverywhere(k)
  <2>1. \A r \in Statement(w) : Key(r) = Key(m)
      BY StatementOf DEF Key
  <2>2. s \in rows
      BY <1>0, <1>2, <2>1
  <2>3. ASSUME NEW v, Holds(v, k)' PROVE Holds(v, k)
    <3>1. PICK r \in rows' : /\ r.user = v /\ r.sender = k.sender
                             /\ r.time = k.time /\ r.no = k.no /\ r.kind = k.kind
        BY <2>3 DEF Holds
    <3>2. Key(r) = Key(s)
        BY <1>2, <3>1 DEF Key
    <3>3. r \in rows
        BY <1>0, <1>2, <2>1, <3>1, <3>2
    <3> QED  BY <3>1, <3>3 DEF Holds
  <2> QED  BY <1>2, <2>2, <2>3 DEF StoredEverywhere
<1>3. ASSUME NEW x \in Complete', x # Key(m) PROVE x \in Complete
  <2>1. PICK s \in rows' :
           /\ s.user = s.sender /\ x = Key(s)
           /\ \E k \in Messages : /\ k.no = s.no /\ k.time = s.time /\ k.kind = s.kind
                                  /\ k.sender = s.sender /\ StoredEverywhere(k)'
      BY <1>3 DEF Complete, SendersRows, StoredEverywhere, Holds
  <2>2. PICK k \in Messages : /\ k.no = s.no /\ k.time = s.time /\ k.kind = s.kind
                              /\ k.sender = s.sender /\ StoredEverywhere(k)'
      BY <2>1
  <2>3. s \in rows /\ StoredEverywhere(k)
      BY <1>2, <1>3, <2>1, <2>2
  <2> QED  BY <2>1, <2>2, <2>3 DEF Complete, SendersRows
<1> QED  BY <1>1, <1>3

LEMMA GrowsKeeps ==
    ASSUME DbInv, Shapes, ClientsInv, KnownLive, OrderInv, OwnConfirmed,
           NEW w \in Savers, Grows(w), UNCHANGED sendVars
    PROVE  [Promise!Next]_(Promise!vars)
<1> PICK m : m = save[w].msg
    OBVIOUS
<1> PICK ids : ids = save[w].ids
    OBVIOUS
<1>0. /\ m \in Messages /\ 1 \in 1 .. Len(m.rcpts) /\ m.rcpts[1] = m.sender
      /\ m.kind \in {"private", "group"} /\ m.no \in Nat
      /\ rows \subseteq rows' /\ rows' = rows \union Statement(w)
    BY StatementIs, MessageFacts DEF Grows
<1>1. UNCHANGED <<Confirmeds, Pushed>>
    BY DEF sendVars, Confirmeds, Pushed
<1>2. Complete' = Complete \/ Complete' = Complete \union {Key(m)}
    BY CompleteGrows
<1>3. CASE save[w].done # 0
  <2>1. Row(m, ids, 1) \in rows /\ \A r \in Statement(w) : r.user # m.sender
      BY <1>3, StatementIs DEF Grows
  <2>2. SendersRows' = SendersRows
    <3>1. \A r \in Statement(w) : r.sender = m.sender
        BY StatementOf
    <3> QED  BY <1>0, <2>1, <3>1 DEF SendersRows
  <2>3. Stored' = Stored
      BY <2>2 DEF Stored
  <2>4. Key(m) \in Stored
    <3> PICK r : r = Row(m, ids, 1)
        OBVIOUS
    <3>1. r \in SendersRows /\ Key(r) = Key(m)
        BY <1>0, <2>1, OwnRowIsFirst DEF SendersRows, Key
    <3> QED  BY <3>1 DEF Stored
  <2> QED  BY <1>0, <1>1, <1>2, <2>3, <2>4, PromiseCompletes, Stutters
<1>4. CASE save[w].done = 0
  <2> PICK u : u = m.sender
      OBVIOUS
  <2> PICK q : q = Row(m, ids, 1)
      OBVIOUS
  <2>1. /\ q \in Statement(w) /\ q.user = u /\ q.sender = u /\ Key(q) = Key(m) /\ q.time = m.time
        /\ \A r \in Statement(w) : r.user = u => r = q
    <3>1. /\ q \in Statement(w)
          /\ \A r \in Statement(w) : \E i \in 1 .. Len(m.rcpts) : r = Row(m, ids, i)
        BY <1>4, StatementIs DEF Grows
    <3> QED  BY <1>0, <3>1, OwnRowIsFirst DEF Key
  <2>2. \A r \in OwnRows(u) : r.time # m.time
      BY <2>1 DEF Grows, Conflicts, SameKey, OwnRows
  <2>3. /\ u \in Senders /\ client[u].msg = m /\ client[u].sent # 0
      BY <1>4, <2>2, FirstStatement
  <2>4. m.no = client[u].sent
      BY <2>3, OwnHolds
  <2>5. ASSUME NEW r \in OwnRows(u) PROVE r.no < m.no /\ Key(r) \in Confirmeds
    <3>1. /\ r.no <= client[u].sent /\ r.no \in Nat
          /\ r.no = client[u].sent => r.time = m.time
        BY <2>3, NumbersOf DEF ClientsInv, ClientInv, RowsOfSent
    <3>2. r.no < m.no
        BY <1>0, <2>2, <2>4, <3>1
    <3>3. Confirmed(r)
        BY <2>3, <2>4, <3>2 DEF OwnConfirmed
    <3> QED  BY <3>2, <3>3 DEF Confirmed, Confirmeds
  <2>6. ASSUME NEW e \in Stored, e.sender = m.sender PROVE e.no < m.no /\ e \in Confirmeds
    <3>1. PICK r \in SendersRows : e = Key(r)
        BY DEF Stored
    <3>2. r \in OwnRows(u) /\ e.no = r.no
        BY <2>6, <3>1 DEF SendersRows, OwnRows, Key
    <3> QED  BY <2>5, <3>1, <3>2
  <2>7. Key(m) \notin Stored
      BY <1>0, <2>6 DEF Key
  <2>8. Stored' = Stored \union {Key(m)}
    <3>1. \A r \in Statement(w) : r.sender = u
        BY StatementOf
    <3>2. SendersRows' = SendersRows \union {q}
        BY <1>0, <2>1, <3>1 DEF SendersRows
    <3> QED  BY <2>1, <3>2 DEF Stored
  <2>9. ASSUME m.kind = "private" PROVE Complete' = Complete \union {Key(m)}
    <3>1. \A i \in 1 .. Len(m.rcpts) : Row(m, ids, i) \in rows'
        BY <1>0, <1>4, <2>9, StatementIs DEF Grows
    <3>2. StoredEverywhere(m)'
        BY <1>0, <3>1, OwnRowIsFirst DEF StoredEverywhere, Holds
    <3>3. q \in SendersRows' /\ q.no = m.no /\ q.kind = m.kind /\ q.sender = m.sender
        BY <1>0, <2>1, OwnRowIsFirst DEF SendersRows
    <3>4. Key(q) \in Complete'
        BY <1>0, <2>1, <3>2, <3>3 DEF Complete, StoredEverywhere, Holds
    <3> QED  BY <1>2, <2>1, <3>4
  <2>10. Complete' = Complete \union {Key(m)} \/ (m.kind = "group" /\ Complete' = Complete)
      BY <1>0, <1>2, <2>9
  <2> QED  BY <1>0, <1>1, <2>6, <2>7, <2>8, <2>10, PromiseStores
<1> QED  BY <1>3, <1>4


(* A reply confirms what is stored, a push announces what is complete.     *)
LEMMA ReplyKeeps ==
    ASSUME DbInv, Shapes, UniqueKey, ClientsInv, [Next]_allVars, NEW h \in Handlers, LogicStep(h)
    PROVE  [Promise!Next]_(Promise!vars)
<1> PICK m : m = call[h].msg
    OBVIOUS
<1>1. UNCHANGED <<Stored, Complete>>
  <2>1. rows' = rows
      BY DEF LogicStep, Deliver, CheckCache, CheckStore, IdGenerate, CallFails, CallSave,
             SaveSucceeds, SaveFails, SaveTimeout, Save, vars, dbVars
  <2> QED  BY <2>1 DEF Stored, Complete, SendersRows, StoredEverywhere, Holds
<1>2. \A id : OwnRow(m, id) \in rows => Key(m) \in Stored
  <2> SUFFICES ASSUME NEW id, OwnRow(m, id) \in rows PROVE Key(m) \in Stored
      OBVIOUS
  <2> PICK r : r = OwnRow(m, id)
      OBVIOUS
  <2>1. r \in SendersRows /\ Key(r) = Key(m)
      BY DEF SendersRows, OwnRow, Key
  <2> QED  BY <2>1 DEF Stored
<1>3. \/ Confirmeds' = Confirmeds
      \/ Key(m) \in Stored /\ Confirmeds' = Confirmeds \union {Key(m)}
  <2>1. CASE acked' = acked
      BY <2>1 DEF Confirmeds
  <2>2. ASSUME NEW id, acked' = acked \union {[msg |-> m, id |-> id]}, OwnRow(m, id) \in rows
        PROVE  Key(m) \in Stored /\ Confirmeds' = Confirmeds \union {Key(m)}
    <3> PICK k : k = [msg |-> m, id |-> id]
        OBVIOUS
    <3>1. acked' = acked \union {k} /\ k.msg = m
        BY <2>2
    <3> QED  BY <1>2, <2>2, <3>1 DEF Confirmeds
  <2> QED  BY <2>1, <2>2, ReplySteps DEF ReplyStep
<1>4. CASE SaveSucceeds(h)
  <2> PICK ids : ids = call[h].ids
      OBVIOUS
  <2>1. m \in Messages /\ StoredEverywhere(m) /\ OwnRow(m, ids[1]) \in rows
      BY <1>4, SavedIsStored DEF SaveSucceeds
  <2>2. Key(m) \in Complete
    <3> PICK r : r = OwnRow(m, ids[1])
        OBVIOUS
    <3>1. /\ r \in SendersRows /\ Key(r) = Key(m) /\ r.no = m.no /\ r.time = m.time
          /\ r.kind = m.kind /\ r.sender = m.sender
        BY <2>1 DEF SendersRows, OwnRow, Key
    <3> QED  BY <2>1, <3>1 DEF Complete
  <2>3. Pushed' = Pushed \union {Key(m)}
    <3> PICK p : p = [msg |-> m, ids |-> ids]
        OBVIOUS
    <3>1. pushes' = pushes \union {p} /\ p.msg = m
        BY <1>4 DEF SaveSucceeds
    <3> QED  BY <3>1 DEF Pushed
  <2>4. Pushed' = Pushed \/ (Key(m) \in Complete \ Pushed /\ Pushed' = Pushed \union {Key(m)})
      BY <2>2, <2>3
  <2> QED  BY <1>1, <1>3, <2>1, <2>4, PromiseReports
<1>5. CASE ~SaveSucceeds(h)
  <2>1. Pushed' = Pushed
      BY <1>5 DEF Pushed, LogicStep, Deliver, CheckCache, CheckStore, IdGenerate, CallFails,
                  CallSave, SaveFails, SaveTimeout
  <2>2. CASE m \in Messages
      BY <1>1, <1>3, <2>1, <2>2, PromiseReports
  <2>3. CASE Confirmeds' = Confirmeds
      BY <1>1, <2>1, <2>3, Stutters
  <2>4. CASE call[h].stage = "free"
    <3>1. Deliver(h)
        BY <1>5, <2>4 DEF LogicStep, CheckCache, CheckStore, IdGenerate, CallFails, CallSave,
                          SaveSucceeds, SaveFails, SaveTimeout
    <3>2. Confirmeds' = Confirmeds
        BY <3>1 DEF Deliver, Confirmeds
    <3> QED  BY <2>3, <3>2
  <2>5. call[h].stage # "free" => m \in Messages
      BY DEF Shapes, CallTypes, CallOK
  <2> QED  BY <2>2, <2>4, <2>5
<1> QED  BY <1>4, <1>5

(* The three together implement the abstract delivery: a message is stored *)
(* once and in order, only what is stored is confirmed, and only what is   *)
(* in every mailbox is pushed (logic_service.cc:72-250,                    *)
(* dbproxy_service.cc:153-311, client.cc:424-471).                         *)
THEOREM Implements == Spec => ImplementsDelivery
<1>1. Init => Promise!Init
    BY DEF Init, DbInit, SendInit, Promise!Init, SendersRows
<1>2. Init => Inv /\ OrderInv /\ OwnConfirmed
    BY InitInv, InitOrder DEF Init, DbInit, OwnConfirmed, OwnRows
<1>3. (Inv /\ OrderInv /\ OwnConfirmed) /\ [Next]_allVars => (Inv /\ OrderInv /\ OwnConfirmed)'
    BY NextInv, OrderStep, OwnConfirmedStep
<1>4. Inv /\ OrderInv /\ OwnConfirmed /\ [Next]_allVars => [Promise!Next]_(Promise!vars)
  <2> SUFFICES ASSUME Inv, OrderInv, OwnConfirmed, [Next]_allVars
               PROVE  [Promise!Next]_(Promise!vars)
      OBVIOUS
  <2>1. ASSUME NEW w \in Savers, Grows(w), UNCHANGED sendVars PROVE [Promise!Next]_(Promise!vars)
      BY <2>1, GrowsKeeps DEF Inv
  <2>2. ASSUME NEW h \in Handlers, LogicStep(h) PROVE [Promise!Next]_(Promise!vars)
      BY <2>2, ReplyKeeps DEF Inv
  <2>3. CASE rows' = rows /\ ~\E h \in Handlers : LogicStep(h)
    <3>1. acked' = acked /\ pushes' = pushes
        BY <2>3 DEF Next, Tick, ClientSend, ClientTimeout, ClientQuit, DbproxyStep, KeyExpires,
                    sendVars, allVars
    <3>2. UNCHANGED <<Stored, Complete, Confirmeds, Pushed>>
        BY <2>3, <3>1 DEF Stored, Complete, Confirmeds, Pushed, SendersRows, StoredEverywhere, Holds
    <3> QED  BY <3>2, Stutters
  <2> QED  BY <2>1, <2>2, <2>3, RowSteps
<1> QED  BY <1>1, <1>2, <1>3, <1>4, PTL DEF Spec, ImplementsDelivery, Promise!Spec
================================================================================
