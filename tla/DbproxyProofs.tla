----------------------------- MODULE DbproxyProofs -----------------------------
(***************************************************************************)
(* What Dbproxy promises for every set of users, messages and handlers and *)
(* every number of faults.                                                 *)
(***************************************************************************)
EXTENDS Dbproxy, SequenceTheorems, TLAPS

(* A message goes to its sender first, and is saved by at least one        *)
(* statement and by no more than it has mailboxes.                         *)
LEMMA MessageFacts ==
    ASSUME NEW m \in Messages
    PROVE  /\ m.sender \in Users /\ m.time \in Nat /\ m.no \in Nat
           /\ m.kind \in {"private", "group"}
           /\ m.rcpts \in Seq(Users) /\ Len(m.rcpts) \in Nat \ {0}
           /\ m.rcpts[1] = m.sender
           /\ Statements(m) \in Nat \ {0} /\ Statements(m) <= Len(m.rcpts)
<1>1. m \in Message
    BY DbproxyAssumption
<1>2. m.sender \in Users /\ m.time \in Nat /\ m.no \in Nat
      /\ m.rcpts \in Seq(Users)
      /\ m.kind \in {"private", "group"}
    BY <1>1 DEF Message
<1>3. m.rcpts # << >> /\ m.rcpts[1] = m.sender
    BY DbproxyAssumption
<1>4. Len(m.rcpts) \in Nat \ {0}
    BY <1>2, <1>3
<1>5. Statements(m) \in Nat \ {0} /\ Statements(m) <= Len(m.rcpts)
    BY <1>4 DEF Statements
<1> QED  BY <1>2, <1>3, <1>4, <1>5

(* A handler has as many ids as its message has mailboxes. *)
IdsMatch ==
    \A w \in Savers : save[w].stage # "free" =>
        Len(save[w].ids) = Len(save[w].msg.rcpts)

Stages == {"free", "insert", "cache", "saved", "failed"}
Handler == [stage : Stages, msg : Messages \union {NoMsg}, ids : Seq(Nat), done : Nat]

(* What DbTypeOK says of one handler. *)
HandlerOK(s) ==
    /\ s \in Handler
    /\ s.stage # "free" => s.msg \in Messages /\ Len(s.ids) = Len(s.msg.rcpts)
    /\ s.stage = "insert" => s.done < Statements(s.msg)
    /\ s.stage \in {"cache", "saved"} => s.done = Statements(s.msg)

(* The type invariant, handler by handler. *)
LEMMA HandlersOK ==
    DbTypeOK /\ IdsMatch
      <=> /\ rows \in SUBSET Rows
          /\ lastSend \in [Users -> [time : Nat, id : Nat] \union {NoKey}]
          /\ faults \in Nat
          /\ save = [w \in Savers |-> save[w]]
          /\ \A w \in Savers : HandlerOK(save[w])
<1>1. DbTypeOK => save = [w \in Savers |-> save[w]]
    BY DEF DbTypeOK
<1>2. ASSUME save = [w \in Savers |-> save[w]], \A w \in Savers : HandlerOK(save[w])
      PROVE  save \in [Savers -> Handler]
    BY <1>2 DEF HandlerOK
<1>3. ASSUME DbTypeOK, IdsMatch PROVE \A w \in Savers : HandlerOK(save[w])
    BY <1>3 DEF DbTypeOK, IdsMatch, HandlerOK, Handler, Stages
<1> QED  BY <1>1, <1>2, <1>3 DEF DbTypeOK, IdsMatch, HandlerOK, Handler, Stages

(* The database starts empty and every handler free. *)
LEMMA TypeInit == DbInit => DbTypeOK /\ IdsMatch
<1> SUFFICES ASSUME DbInit PROVE DbTypeOK /\ IdsMatch
    OBVIOUS
<1>1. \A w \in Savers : HandlerOK(save[w])
    BY DEF DbInit, HandlerOK, Handler, Stages
<1> QED  BY <1>1, HandlersOK DEF DbInit

(* The rows of a statement are rows. *)
LEMMA StatementRows ==
    ASSUME DbTypeOK, IdsMatch, NEW w \in Savers, save[w].stage = "insert"
    PROVE  Statement(w) \subseteq Rows
<1> DEFINE m == save[w].msg
           ids == save[w].ids
<1>1. HandlerOK(save[w])
    BY HandlersOK
<1>2. m \in Messages /\ ids \in Seq(Nat) /\ Len(ids) = Len(m.rcpts)
      /\ save[w].done \in Nat /\ save[w].done < Statements(m)
    BY <1>1 DEF HandlerOK, Handler
<1> HIDE DEF m, ids
<1>3. ASSUME NEW i \in 1 .. Len(m.rcpts) PROVE Row(m, ids, i) \in Rows
  <2>1. m.rcpts[i] \in Users /\ ids[i] \in Nat
      BY <1>2, <1>3, MessageFacts
  <2> QED  BY <1>2, <2>1, MessageFacts DEF Row, Rows
<1>4. save[w].done + 1 \in 1 .. Len(m.rcpts)
    BY <1>2, MessageFacts
<1> QED  BY <1>3, <1>4 DEF Statement, Inserted, m, ids

(* Ids as many as mailboxes are a sequence. *)
LEMMA IdsSeq ==
    ASSUME NEW m \in Messages, NEW ids \in [1 .. Len(m.rcpts) -> Ids]
    PROVE  ids \in Seq(Nat) /\ Len(ids) = Len(m.rcpts)
<1>1. Len(m.rcpts) \in Nat /\ Ids \subseteq Nat
    BY MessageFacts, DbproxyAssumption
<1>2. ids \in [1 .. Len(m.rcpts) -> Nat]
    BY <1>1
<1>3. ids \in Seq(Nat)
    BY <1>1, <1>2, SeqDef
<1>4. DOMAIN ids = 1 .. Len(m.rcpts)
    BY <1>2
<1> QED  BY <1>1, <1>3, <1>4, LenProperties

(* What a step does to the handlers. *)
LEMMA SaveChange ==
    ASSUME DbTypeOK, IdsMatch, NEW w \in Savers, SaveStep(w)
    PROVE  /\ save' = [save EXCEPT ![w] = save'[w]]
           /\ save'[w].msg = save[w].msg /\ save'[w].ids = save[w].ids
           /\ HandlerOK(save'[w])
<1>0. HandlerOK(save[w]) /\ save \in [Savers -> Handler]
    BY HandlersOK DEF HandlerOK
<1>1. CASE Insert(w)
  <2> DEFINE n == save[w].done + 1
             st == IF n = Statements(save[w].msg) THEN "cache" ELSE "insert"
  <2>1. save' = [save EXCEPT ![w] = [stage |-> st, msg |-> save[w].msg,
                                    ids |-> save[w].ids, done |-> n]]
      BY <1>0, <1>1 DEF Insert, Handler
  <2>2. save[w].msg \in Messages /\ save[w].done \in Nat
        /\ save[w].done < Statements(save[w].msg)
        /\ Statements(save[w].msg) \in Nat
      BY <1>0, <1>1, MessageFacts DEF Insert, HandlerOK, Handler
  <2>3. n \in Nat /\ n <= Statements(save[w].msg)
      BY <2>2
  <2> HIDE DEF n
  <2> QED  BY <1>0, <1>1, <2>1, <2>2, <2>3 DEF HandlerOK, Handler, Stages, Insert
<1>2. CASE InsertRejected(w) \/ InsertFails(w) \/ SetUserLastSendDataFails(w)
  <2>1. save' = [save EXCEPT ![w].stage = "failed"] /\ save[w].stage # "free"
      BY <1>2 DEF InsertRejected, InsertFails, SetUserLastSendDataFails
  <2> QED  BY <1>0, <2>1 DEF HandlerOK, Handler, Stages
<1>3. CASE SetUserLastSendData(w)
  <2>1. save' = [save EXCEPT ![w].stage = "saved"] /\ save[w].stage = "cache"
      BY <1>3 DEF SetUserLastSendData
  <2> QED  BY <1>0, <2>1 DEF HandlerOK, Handler, Stages
<1> QED  BY <1>1, <1>2, <1>3 DEF SaveStep

(* What an INSERT that MySQL accepts changes. *)
LEMMA AcceptChange ==
    ASSUME DbTypeOK, IdsMatch, NEW w \in Savers, NEW m \in Messages,
           NEW ids \in [1 .. Len(m.rcpts) -> Ids], Save(w, m, ids)
    PROVE  /\ save' = [save EXCEPT ![w] = save'[w]]
           /\ save'[w] = [stage |-> "insert", msg |-> m, ids |-> ids, done |-> 0]
           /\ HandlerOK(save'[w])
<1>0. save \in [Savers -> Handler]
    BY HandlersOK DEF HandlerOK
<1>1. save' = [save EXCEPT ![w] =
                 [stage |-> "insert", msg |-> m, ids |-> ids, done |-> 0]]
    BY DEF Save
<1>2. ids \in Seq(Nat) /\ Len(ids) = Len(m.rcpts) /\ 0 < Statements(m)
    BY IdsSeq, MessageFacts
<1> QED  BY <1>0, <1>1, <1>2 DEF HandlerOK, Handler, Stages

(* What a step does to the Redis key. *)
LEMMA SetLastSendTypes ==
    ASSUME DbTypeOK, IdsMatch, NEW w \in Savers, save[w].stage = "cache", SetLastSend(w)
    PROVE  lastSend' \in [Users -> [time : Nat, id : Nat] \union {NoKey}]
<1>1. HandlerOK(save[w])
    BY HandlersOK
<1>2. save[w].msg \in Messages /\ save[w].ids \in Seq(Nat)
      /\ Len(save[w].ids) = Len(save[w].msg.rcpts)
    BY <1>1 DEF HandlerOK, Handler
<1>3. save[w].msg.sender \in Users /\ save[w].msg.time \in Nat /\ save[w].ids[1] \in Nat
    BY <1>2, MessageFacts
<1>4. lastSend \in [Users -> [time : Nat, id : Nat] \union {NoKey}]
    BY DEF DbTypeOK
<1> QED  BY <1>3, <1>4 DEF SetLastSend

(* Every value has its type, and a handler never runs past its statements. *)
LEMMA TypeStep == DbTypeOK /\ IdsMatch /\ [DbNext]_vars => DbTypeOK' /\ IdsMatch'
<1> SUFFICES ASSUME DbTypeOK, IdsMatch, [DbNext]_vars
             PROVE  DbTypeOK' /\ IdsMatch'
    OBVIOUS
<1>0. /\ rows \in SUBSET Rows
      /\ lastSend \in [Users -> [time : Nat, id : Nat] \union {NoKey}]
      /\ faults \in Nat
      /\ save \in [Savers -> Handler] /\ \A w \in Savers : HandlerOK(save[w])
    BY HandlersOK DEF HandlerOK
<1> DEFINE New == /\ rows' \in SUBSET Rows
                  /\ lastSend' \in [Users -> [time : Nat, id : Nat] \union {NoKey}]
                  /\ faults' \in Nat
<1>1. ASSUME New, NEW w \in Savers, save' = [save EXCEPT ![w] = save'[w]],
             HandlerOK(save'[w])
      PROVE  DbTypeOK' /\ IdsMatch'
  <2>1. save' \in [Savers -> Handler] /\ \A v \in Savers : HandlerOK(save'[v])
      BY <1>0, <1>1 DEF HandlerOK
  <2> QED  BY <1>1, <2>1 DEF DbTypeOK, IdsMatch, HandlerOK, Handler, Stages
<1>2. ASSUME NEW w \in Savers, NEW m \in Messages,
             NEW ids \in [1 .. Len(m.rcpts) -> Ids],
             Save(w, m, ids), UNCHANGED faults
      PROVE  DbTypeOK' /\ IdsMatch'
    BY <1>0, <1>1, <1>2, AcceptChange DEF Save
<1>3. ASSUME NEW w \in Savers, SaveStep(w) PROVE DbTypeOK' /\ IdsMatch'
  <2>1. rows' \in SUBSET Rows
      BY <1>0, <1>3, StatementRows
         DEF SaveStep, Insert, InsertRejected, InsertFails, SetUserLastSendData,
             SetUserLastSendDataFails
  <2>2. lastSend' \in [Users -> [time : Nat, id : Nat] \union {NoKey}]
      BY <1>0, <1>3, SetLastSendTypes
         DEF SaveStep, Insert, InsertRejected, InsertFails, SetUserLastSendData,
             SetUserLastSendDataFails
  <2>3. faults' = faults \/ faults' = faults + 1
      BY <1>3 DEF SaveStep, Insert, InsertRejected, InsertFails,
                  SetUserLastSendData, SetUserLastSendDataFails
  <2>4. faults' \in Nat
      BY <1>0, <2>3
  <2> QED  BY <1>1, <1>3, <2>1, <2>2, <2>4, SaveChange
<1>4. ASSUME NEW u \in Users, Expire(u) PROVE DbTypeOK' /\ IdsMatch'
  <2>1. lastSend' \in [Users -> [time : Nat, id : Nat] \union {NoKey}]
      BY <1>0, <1>4 DEF Expire
  <2> QED  BY <1>4, <2>1 DEF DbTypeOK, IdsMatch, Expire, Statements
<1>5. CASE UNCHANGED vars
    BY <1>5 DEF vars, DbTypeOK, IdsMatch, Statements
<1> QED  BY <1>2, <1>3, <1>4, <1>5 DEF DbNext

(* Every reachable state has its types, and no handler runs past the       *)
(* statements of its message (dbproxy_service.cc:248).                     *)
THEOREM DbTyped == DbSpec => []DbTypeOK
BY TypeInit, TypeStep, PTL DEF DbSpec

--------------------------------------------------------------------------------
(* Rows are never removed, and the rows of the statements a handler has    *)
(* done are there.                                                         *)
RowsOfDone ==
    \A w \in Savers : save[w].stage \in {"insert", "cache", "saved"} =>
        \A k \in 1 .. save[w].done : Inserted(save[w].msg, save[w].ids, k) \subseteq rows

(* No step deletes a row. *)
LEMMA RowsGrow == [DbNext]_vars => rows \subseteq rows'
BY DEF DbNext, vars, Save, SaveStep, Insert, InsertRejected, InsertFails,
       SetUserLastSendData, SetUserLastSendDataFails, Expire

(* Which handler a step is of; the others stay where they are. *)
LEMMA WhoSteps ==
    ASSUME DbTypeOK, IdsMatch, [DbNext]_vars
    PROVE  \/ save' = save
           \/ \E w \in Savers :
                /\ \A v \in Savers \ {w} : save'[v] = save[v]
                /\ \/ SaveStep(w)
                   \/ save'[w].stage = "insert" /\ save'[w].done = 0
<1>1. ASSUME NEW w \in Savers, NEW m \in Messages,
             NEW ids \in [1 .. Len(m.rcpts) -> Ids], Save(w, m, ids)
      PROVE  /\ \A v \in Savers \ {w} : save'[v] = save[v]
             /\ save'[w].stage = "insert" /\ save'[w].done = 0
  <2>1. save' = [save EXCEPT ![w] = save'[w]]
        /\ save'[w] = [stage |-> "insert", msg |-> m, ids |-> ids, done |-> 0]
      BY <1>1, AcceptChange
  <2>2. save \in [Savers -> Handler]
      BY HandlersOK DEF HandlerOK
  <2> QED  BY <2>1, <2>2
<1>2. ASSUME NEW w \in Savers, SaveStep(w)
      PROVE  \A v \in Savers \ {w} : save'[v] = save[v]
  <2>1. save' = [save EXCEPT ![w] = save'[w]]
      BY <1>2, SaveChange
  <2>2. save \in [Savers -> Handler]
      BY HandlersOK DEF HandlerOK
  <2> QED  BY <2>1, <2>2
<1>3. CASE \E u \in Users : Expire(u)
    BY <1>3 DEF Expire
<1>4. CASE UNCHANGED vars
    BY <1>4 DEF vars
<1> QED  BY <1>1, <1>2, <1>3, <1>4 DEF DbNext

(* Every step keeps the rows of the statements already done. *)
LEMMA RowsOfDoneStep ==
    DbTypeOK /\ IdsMatch /\ RowsOfDone /\ [DbNext]_vars => RowsOfDone'
<1> SUFFICES ASSUME DbTypeOK, IdsMatch, RowsOfDone, [DbNext]_vars,
                    NEW v \in Savers,
                    save'[v].stage \in {"insert", "cache", "saved"},
                    NEW k \in 1 .. save'[v].done
             PROVE  Inserted(save'[v].msg, save'[v].ids, k) \subseteq rows'
    BY DEF RowsOfDone, Inserted, Row
<1>0. rows \subseteq rows'
    BY RowsGrow
<1>1. CASE save'[v] = save[v]
    BY <1>0, <1>1 DEF RowsOfDone
<1>2. CASE SaveStep(v)
  <2>1. save'[v].msg = save[v].msg /\ save'[v].ids = save[v].ids
      BY <1>2, SaveChange
  <2>2. CASE Insert(v)
    <3>1. save'[v].done = save[v].done + 1 /\ rows' = rows \union Statement(v)
          /\ save[v].stage = "insert" /\ save[v].done \in Nat
        BY <2>2, HandlersOK DEF Insert, HandlerOK, Handler
    <3>2. CASE k \in 1 .. save[v].done
        BY <1>0, <2>1, <3>1, <3>2 DEF RowsOfDone
    <3>3. CASE k = save[v].done + 1
        BY <2>1, <3>1, <3>3 DEF Statement
    <3> QED  BY <3>1, <3>2, <3>3
  <2>3. CASE SetUserLastSendData(v)
    <3>1. save'[v].done = save[v].done /\ save[v].stage = "cache"
        BY <2>3, HandlersOK DEF SetUserLastSendData, HandlerOK, Handler
    <3> QED  BY <1>0, <2>1, <3>1 DEF RowsOfDone
  <2>4. CASE InsertRejected(v) \/ InsertFails(v) \/ SetUserLastSendDataFails(v)
    <3>1. save'[v].stage = "failed"
        BY <2>4, HandlersOK DEF InsertRejected, InsertFails,
                                SetUserLastSendDataFails, HandlerOK, Handler
    <3> QED  BY <3>1
  <2> QED  BY <1>2, <2>2, <2>3, <2>4 DEF SaveStep
<1>3. CASE save'[v].done = 0
    BY <1>3
<1> QED  BY <1>1, <1>2, <1>3, WhoSteps

(* Past its first statement, a handler is the only one for its key: it has *)
(* put the sender's own row there.                                         *)
Ahead(w) == save[w].stage \in {"insert", "cache", "saved"} /\ save[w].done > 0

SameMessageKey(v, w) == /\ save[v].msg.sender = save[w].msg.sender
                        /\ save[v].msg.time = save[w].msg.time

OneAhead ==
    \A v, w \in Savers : v # w /\ Ahead(v) /\ Ahead(w) => ~SameMessageKey(v, w)

(* The first statement of a message inserts the sender's own row. *)
LEMMA OwnRowFirst ==
    ASSUME NEW m \in Messages, NEW ids
    PROVE  /\ Row(m, ids, 1) \in Inserted(m, ids, 1)
           /\ Row(m, ids, 1) = [user |-> m.sender, sender |-> m.sender,
                                time |-> m.time, no |-> m.no, kind |-> m.kind, id |-> ids[1]]
BY MessageFacts DEF Row, Inserted

(* The INSERT of a second handler meets the unique key. *)
LEMMA SecondMeetsKey ==
    ASSUME DbTypeOK, IdsMatch, RowsOfDone, OneAhead,
           NEW w \in Savers, Insert(w), NEW v \in Savers \ {w}, Ahead(v)
    PROVE  ~SameMessageKey(v, w)
<1>0. HandlerOK(save[v]) /\ HandlerOK(save[w]) /\ save[w].stage = "insert"
    BY HandlersOK DEF Insert
<1>1. save[v].msg \in Messages /\ save[w].msg \in Messages
      /\ save[v].done \in Nat /\ save[w].done \in Nat
    BY <1>0 DEF HandlerOK, Handler, Ahead
<1>2. CASE save[w].done > 0
    BY <1>0, <1>2 DEF OneAhead, Ahead
<1>3. CASE save[w].done = 0
  <2> DEFINE r == Row(save[v].msg, save[v].ids, 1)
             s == Row(save[w].msg, save[w].ids, 1)
  <2>1. r \in rows
    <3>1. 1 \in 1 .. save[v].done
        BY <1>1 DEF Ahead
    <3> QED  BY <1>1, <3>1, OwnRowFirst DEF RowsOfDone, Ahead
  <2>2. s \in Statement(w)
    <3>1. Statement(w) = Inserted(save[w].msg, save[w].ids, 1)
        BY <1>3 DEF Statement
    <3> QED  BY <1>1, <3>1, OwnRowFirst
  <2>3. ~SameKey(r, s)
      BY <2>1, <2>2 DEF Insert, Conflicts
  <2>4. /\ r.user = save[v].msg.sender /\ r.sender = save[v].msg.sender
        /\ r.time = save[v].msg.time
        /\ s.user = save[w].msg.sender /\ s.sender = save[w].msg.sender
        /\ s.time = save[w].msg.time
      BY <1>1, MessageFacts DEF Row
  <2> HIDE DEF r, s
  <2> QED  BY <2>3, <2>4 DEF SameKey, SameMessageKey
<1> QED  BY <1>1, <1>2, <1>3

(* Every step keeps a second handler of a key behind the first. *)
LEMMA OneAheadStep ==
    DbTypeOK /\ IdsMatch /\ RowsOfDone /\ OneAhead /\ [DbNext]_vars => OneAhead'
<1> SUFFICES ASSUME DbTypeOK, IdsMatch, RowsOfDone, OneAhead, [DbNext]_vars,
                    NEW v \in Savers, NEW w \in Savers, v # w,
                    Ahead(v)', Ahead(w)'
             PROVE  ~SameMessageKey(v, w)'
    BY DEF OneAhead
<1>1. ASSUME NEW x \in Savers, SaveStep(x), Ahead(x)'
      PROVE  /\ save'[x].msg = save[x].msg
             /\ Insert(x) \/ Ahead(x)
  <2>1. save'[x].msg = save[x].msg
      BY <1>1, SaveChange
  <2>2. CASE SetUserLastSendData(x)
    <3>1. save'[x].done = save[x].done /\ save[x].stage = "cache"
        BY <2>2, HandlersOK DEF SetUserLastSendData, HandlerOK, Handler
    <3> QED  BY <1>1, <2>1, <3>1 DEF Ahead
  <2>3. CASE InsertRejected(x) \/ InsertFails(x) \/ SetUserLastSendDataFails(x)
    <3>1. save'[x].stage = "failed"
        BY <2>3, HandlersOK DEF InsertRejected, InsertFails,
                                SetUserLastSendDataFails, HandlerOK, Handler
    <3> QED  BY <1>1, <3>1 DEF Ahead
  <2> QED  BY <1>1, <2>1, <2>2, <2>3 DEF SaveStep
<1>2. ASSUME NEW x \in Savers, NEW y \in Savers, x # y, SaveStep(x),
             save'[y] = save[y], Ahead(x)', Ahead(y)'
      PROVE  ~SameMessageKey(y, x)'
  <2>1. Ahead(y)
      BY <1>2 DEF Ahead
  <2>2. ~SameMessageKey(y, x)
    <3>1. CASE Insert(x)
        BY <1>2, <2>1, <3>1, SecondMeetsKey
    <3>2. CASE Ahead(x)
        BY <1>2, <2>1, <3>2 DEF OneAhead
    <3> QED  BY <1>1, <1>2, <3>1, <3>2
  <2>3. save'[x].msg = save[x].msg
      BY <1>1, <1>2
  <2> QED  BY <1>2, <2>2, <2>3 DEF SameMessageKey
<1>3. CASE save' = save
    BY <1>3 DEF OneAhead, Ahead, SameMessageKey
<1>4. ASSUME NEW x \in Savers, \A y \in Savers \ {x} : save'[y] = save[y],
             SaveStep(x) \/ (save'[x].stage = "insert" /\ save'[x].done = 0)
      PROVE  ~SameMessageKey(v, w)'
  <2>1. CASE x = v
    <3>1. SaveStep(v)
        BY <1>4, <2>1 DEF Ahead
    <3> QED  BY <1>2, <1>4, <2>1, <3>1 DEF SameMessageKey
  <2>2. CASE x = w
    <3>1. SaveStep(w)
        BY <1>4, <2>2 DEF Ahead
    <3> QED  BY <1>2, <1>4, <2>2, <3>1 DEF SameMessageKey
  <2>3. CASE x # v /\ x # w
    <3>1. save'[v] = save[v] /\ save'[w] = save[w]
        BY <1>4, <2>3
    <3> QED  BY <3>1 DEF OneAhead, Ahead, SameMessageKey
  <2> QED  BY <2>1, <2>2, <2>3
<1> QED  BY <1>3, <1>4, WhoSteps

--------------------------------------------------------------------------------
(* A handler that is past its INSERTs has stored every row of its message. *)
LEMMA AllStored ==
    ASSUME DbTypeOK, IdsMatch, RowsOfDone, NEW w \in Savers, save[w].stage \in {"cache", "saved"}
    PROVE  \A i \in 1 .. Len(save[w].msg.rcpts) :
               Row(save[w].msg, save[w].ids, i) \in rows
<1> DEFINE m == save[w].msg
           ids == save[w].ids
<1>0. HandlerOK(save[w])
    BY HandlersOK
<1>1. m \in Messages /\ save[w].done = Statements(m)
    BY <1>0 DEF HandlerOK, Handler
<1>2. \A k \in 1 .. Statements(m) : Inserted(m, ids, k) \subseteq rows
    BY <1>1 DEF RowsOfDone
<1> HIDE DEF m, ids
<1> SUFFICES ASSUME NEW i \in 1 .. Len(m.rcpts) PROVE Row(m, ids, i) \in rows
    BY DEF m, ids
<1>3. CASE m.kind = "private"
  <2>1. 1 \in 1 .. Statements(m) /\ Row(m, ids, i) \in Inserted(m, ids, 1)
      BY <1>1, <1>3, MessageFacts DEF Statements, Inserted
  <2> QED  BY <1>2, <2>1
<1>4. CASE m.kind # "private"
  <2>1. i \in 1 .. Statements(m) /\ Row(m, ids, i) \in Inserted(m, ids, i)
      BY <1>1, <1>4, MessageFacts DEF Statements, Inserted
  <2> QED  BY <1>2, <2>1
<1> QED  BY <1>3, <1>4

(* What a live key promises of the rows rs. *)
Backed(rs, u, key) ==
    \E m \in Messages :
        /\ m.sender = u /\ m.time = key.time
        /\ \A i \in 1 .. Len(m.rcpts) :
              \E r \in rs : /\ r.user = m.rcpts[i] /\ r.sender = m.sender
                           /\ r.time = m.time /\ r.no = m.no /\ r.kind = m.kind
        /\ [user |-> u, sender |-> u, time |-> m.time, no |-> m.no, kind |-> m.kind,
            id |-> key.id] \in rs

(* CacheBehindStore, user by user. *)
LEMMA BehindIsBacked ==
    CacheBehindStore
      <=> \A u \in Users : lastSend[u] # NoKey => Backed(rows, u, lastSend[u])
BY DEF CacheBehindStore, Backed, StoredEverywhere, Holds

(* More rows back what fewer rows backed. *)
LEMMA BackedGrows ==
    ASSUME NEW rs, NEW qs, rs \subseteq qs, NEW u, NEW key, Backed(rs, u, key)
    PROVE  Backed(qs, u, key)
BY DEF Backed

(* The key of a handler that is past its INSERTs is backed by its rows. *)
LEMMA SetIsBacked ==
    ASSUME DbTypeOK, IdsMatch, RowsOfDone, NEW w \in Savers, save[w].stage = "cache"
    PROVE  Backed(rows, save[w].msg.sender,
                  [time |-> save[w].msg.time, id |-> save[w].ids[1]])
<1> DEFINE m == save[w].msg
           ids == save[w].ids
<1>1. m \in Messages
    BY HandlersOK DEF HandlerOK
<1>2. \A i \in 1 .. Len(m.rcpts) : Row(m, ids, i) \in rows
    BY AllStored
<1> HIDE DEF m, ids
<1>3. ASSUME NEW i \in 1 .. Len(m.rcpts)
      PROVE  \E r \in rows : /\ r.user = m.rcpts[i] /\ r.sender = m.sender
                            /\ r.time = m.time /\ r.no = m.no /\ r.kind = m.kind
  <2>1. Row(m, ids, i) \in rows
      BY <1>2, <1>3
  <2> QED  BY <2>1 DEF Row
<1>4. Row(m, ids, 1) \in rows
    BY <1>1, <1>2, MessageFacts
<1>5. [user |-> m.sender, sender |-> m.sender, time |-> m.time, no |-> m.no, kind |-> m.kind,
       id |-> ids[1]] \in rows
    BY <1>1, <1>4, OwnRowFirst
<1> QED  BY <1>1, <1>3, <1>5 DEF Backed, m, ids

(* Every step keeps the Redis keys behind MySQL. *)
LEMMA BehindStep ==
    DbTypeOK /\ IdsMatch /\ RowsOfDone /\ CacheBehindStore /\ [DbNext]_vars
        => CacheBehindStore'
<1> SUFFICES ASSUME DbTypeOK, IdsMatch, RowsOfDone, CacheBehindStore, [DbNext]_vars
             PROVE  CacheBehindStore'
    OBVIOUS
<1>0. rows \subseteq rows'
    BY RowsGrow
<1>1. ASSUME NEW u \in Users, lastSend'[u] # NoKey
      PROVE  Backed(rows', u, lastSend'[u])
  <2>1. CASE lastSend'[u] = lastSend[u]
      BY <1>0, <1>1, <2>1, BehindIsBacked, BackedGrows
  <2>2. ASSUME NEW w \in Savers, save[w].stage = "cache", SetLastSend(w),
               lastSend'[u] # lastSend[u]
        PROVE  Backed(rows', u, lastSend'[u])
    <3>1. lastSend \in [Users -> [time : Nat, id : Nat] \union {NoKey}]
        BY DEF DbTypeOK
    <3>2. u = save[w].msg.sender
          /\ lastSend'[u] = [time |-> save[w].msg.time, id |-> save[w].ids[1]]
        BY <2>2, <3>1 DEF SetLastSend
    <3> QED  BY <1>0, <2>2, <3>2, SetIsBacked, BackedGrows
  <2>3. ASSUME NEW v \in Users, Expire(v) PROVE lastSend'[u] = lastSend[u]
      BY <1>1, <2>3 DEF Expire, DbTypeOK
  <2> QED  BY <2>1, <2>2, <2>3
           DEF DbNext, vars, Save, SaveStep, Insert, InsertRejected,
               InsertFails, SetUserLastSendData, SetUserLastSendDataFails
<1> QED  BY <1>1 DEF CacheBehindStore, Backed, StoredEverywhere, Holds

--------------------------------------------------------------------------------
(* The inductive invariant. *)
DbInv == DbTypeOK /\ IdsMatch /\ RowsOfDone /\ OneAhead /\ CacheBehindStore

(* The inductive invariant holds at the start ... *)
LEMMA InvInit == DbInit => DbInv
<1> SUFFICES ASSUME DbInit PROVE DbInv
    OBVIOUS
<1>1. RowsOfDone /\ OneAhead
    BY DEF DbInit, RowsOfDone, OneAhead, Ahead
<1>2. CacheBehindStore
    BY DEF DbInit, CacheBehindStore
<1> QED  BY <1>1, <1>2, TypeInit DEF DbInv

(* ... every step keeps it ... *)
LEMMA InvStep == DbInv /\ [DbNext]_vars => DbInv'
BY TypeStep, RowsOfDoneStep, OneAheadStep, BehindStep DEF DbInv

(* ... so it holds for ever. *)
LEMMA Invariant == DbSpec => []DbInv
BY InvInit, InvStep, PTL DEF DbSpec

(* The Redis key never names a message that MySQL does not hold in every   *)
(* mailbox, however save handlers interleave and fail                      *)
(* (dbproxy_service.cc:231-237, 272-311).                                  *)
THEOREM CacheBehind == DbSpec => []CacheBehindStore
BY Invariant, PTL DEF DbInv

(* Handlers past their INSERTs are ahead, so no two of a client_time are. *)
LEMMA SavesOnce ==
    ASSUME DbInv
    PROVE  SavedOnce
<1>1. ASSUME NEW w \in Savers, save[w].stage \in {"cache", "saved"}
      PROVE  Ahead(w)
  <2>1. HandlerOK(save[w])
      BY HandlersOK DEF DbInv
  <2>2. save[w].msg \in Messages /\ save[w].done = Statements(save[w].msg)
      BY <1>1, <2>1 DEF HandlerOK
  <2> QED  BY <1>1, <2>2, MessageFacts DEF Ahead
<1> QED  BY <1>1 DEF DbInv, OneAhead, SameMessageKey, SavedOnce

(* Of the handlers for one client_time of a sender only one gets past the  *)
(* INSERTs (db.sql:94, dbproxy_service.cc:221-229).                        *)
THEOREM OnlyOneSaved == DbSpec => []SavedOnce
<1>1. DbInv => SavedOnce
    BY SavesOnce
<1> QED  BY <1>1, Invariant, PTL
================================================================================
