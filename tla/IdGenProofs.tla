------------------------------ MODULE IdGenProofs ------------------------------
(***************************************************************************)
(* What IdGen promises for every number of handlers, users and buckets,    *)
(* every block size and every mix of requests, failures and restarts.      *)
(***************************************************************************)
EXTENDS IdGen, TLAPS

(* A remainder is smaller than what it is the remainder of. *)
LEMMA ModRange ==
    ASSUME NEW x \in Nat, NEW n \in Nat \ {0}
    PROVE  x % n \in 0 .. n - 1
OBVIOUS

(* Arithmetic of blocks, n ids each. *)
LEMMA DivBounds ==
    ASSUME NEW x \in Nat, NEW n \in Nat \ {0}
    PROVE  /\ x \div n \in Nat
           /\ (x \div n) * n \in Nat
           /\ (x \div n) * n <= x
           /\ x < (x \div n) * n + n
           /\ x = (x \div n) * n + (x % n)
OBVIOUS

(* The end of the block that x falls in is not below x. *)
LEMMA BlockEndFacts ==
    ASSUME NEW x \in Nat
    PROVE  BlockEnd(x) \in Nat /\ BlockEnd(x) >= x
<1>1. BlockSize \in Nat \ {0} /\ x + BlockSize - 1 \in Nat
    BY IdGenAssumption
<1>2. (x + BlockSize - 1) < ((x + BlockSize - 1) \div BlockSize) * BlockSize + BlockSize
      /\ ((x + BlockSize - 1) \div BlockSize) * BlockSize \in Nat
    BY <1>1, DivBounds
<1> QED  BY <1>1, <1>2 DEF BlockEnd

(* A handler that has not finished its request works on one of its items. *)
LEMMA ItemOK ==
    ASSUME TypeOK, NEW t \in Threads, pc[t] \notin {"idle", "reply"}
    PROVE  /\ User(t) \in Users
           /\ Need(t) \in Nat \ {0}
           /\ Bucket(User(t)) \in Buckets
           /\ Len(reply[t]) < Len(request[t])
<1>1. Len(reply[t]) < Len(request[t])
    BY DEF TypeOK, HandlerOK
<1>2. request[t] \in Seq(Items) /\ reply[t] \in Seq(Ranges)
    BY DEF TypeOK
<1>3. Item(t) \in Items
    BY <1>1, <1>2 DEF Item
<1>4. User(t) \in Users /\ Need(t) \in Nat \ {0}
    BY <1>3 DEF User, Need, Items
<1>5. Bucket(User(t)) \in Buckets
  <2>1. User(t) \in Nat /\ BucketNum \in Nat \ {0}
      BY <1>4, IdGenAssumption
  <2> QED  BY <2>1, ModRange DEF Bucket, Buckets
<1> QED  BY <1>1, <1>4, <1>5

(* Every value has its type, and a handler never runs past the end of its  *)
(* request.                                                                *)
LEMMA TypeInit == Init => TypeOK
<1> SUFFICES ASSUME Init PROVE TypeOK
    OBVIOUS
<1> QED  BY IdGenAssumption DEF Init, TypeOK, HandlerOK, Buckets

(* Every step keeps the types. *)
LEMMA TypeStep == TypeOK /\ [Next]_vars => TypeOK'
<1> SUFFICES ASSUME TypeOK, [Next]_vars PROVE TypeOK'
    OBVIOUS
<1>1. ASSUME NEW t \in Threads, Receive(t) PROVE TypeOK'
  <2>1. \A r \in Requests : r \in Seq(Items) /\ Len(r) > 0
      BY IdGenAssumption
  <2> QED  BY <1>1, <2>1 DEF Receive, TypeOK, HandlerOK
<1>2. ASSUME NEW t \in Threads, Load(t) PROVE TypeOK'
  <2>1. User(t) \in Users /\ Bucket(User(t)) \in Buckets
      BY <1>2, ItemOK DEF Load
  <2>2. cache' \in [Users -> Nat]
      BY <1>2, <2>1 DEF Load, Get, TypeOK
  <2>3. holder' \in [Buckets -> Threads \union {NoThread}]
      BY <1>2, <2>1 DEF Load, TypeOK
  <2>4. pc' \in [Threads -> {"idle", "lock", "put", "issue", "advance", "reply"}]
      BY <1>2 DEF Load, TypeOK
  <2>5. \A s \in Threads : HandlerOK(s)'
      BY <1>2 DEF Load, TypeOK, HandlerOK
  <2> QED  BY <1>2, <2>2, <2>3, <2>4, <2>5 DEF Load, TypeOK
<1>3. ASSUME NEW t \in Threads, Fail(t), holder' \in [Buckets -> Threads \union {NoThread}]
      PROVE  TypeOK'
    BY <1>3 DEF Fail, TypeOK, HandlerOK
<1>4. ASSUME NEW t \in Threads, GetFails(t) PROVE TypeOK'
    BY <1>3, <1>4 DEF GetFails, TypeOK
<1>5. ASSUME NEW t \in Threads, PutFails(t) PROVE TypeOK'
  <2>1. Bucket(User(t)) \in Buckets
      BY <1>5, ItemOK DEF PutFails
  <2> QED  BY <1>3, <1>5, <2>1 DEF PutFails, TypeOK
<1>6. ASSUME NEW t \in Threads, Put(t) PROVE TypeOK'
  <2>1. User(t) \in Users /\ Need(t) \in Nat \ {0}
      BY <1>6, ItemOK DEF Put
  <2>2. cache[User(t)] + Need(t) \in Nat
    <3>1. cache \in [Users -> Nat]
        BY DEF TypeOK
    <3> QED  BY <2>1, <3>1
  <2>3. NewEnd(t) \in Nat
      BY <2>2, BlockEndFacts DEF NewEnd
  <2> QED  BY <1>6, <2>1, <2>3 DEF Put, TypeOK, HandlerOK
<1>7. ASSUME NEW t \in Threads, Start(t) PROVE TypeOK'
  <2>1. User(t) \in Users
      BY <1>7, ItemOK DEF Start
  <2>2. cache[User(t)] + 1 \in Nat
      BY <2>1 DEF TypeOK
  <2> QED  BY <1>7, <2>2 DEF Start, TypeOK, HandlerOK
<1>8. ASSUME NEW t \in Threads, Issue(t) PROVE TypeOK'
  <2> DEFINE r == [user |-> User(t), first |-> start[t],
                   last |-> start[t] + Need(t) - 1]
  <2>1. User(t) \in Users /\ Need(t) \in Nat \ {0} /\ Bucket(User(t)) \in Buckets
        /\ Len(reply[t]) < Len(request[t])
      BY <1>8, ItemOK DEF Issue
  <2>2. r \in Ranges /\ start[t] \in Nat /\ start[t] + Need(t) - 1 \in Nat
      BY <2>1 DEF Ranges, TypeOK
  <2>3. cache' \in [Users -> Nat]
    <3>1. cache \in [Users -> Nat]
        BY DEF TypeOK
    <3>2. Advanced(t) \in Nat
        BY <2>1, <3>1 DEF Advanced
    <3> QED  BY <1>8, <2>1, <3>1, <3>2 DEF Issue
  <2>4. grant' \in [Users -> [nth : Nat, first : Nat, last : Nat]]
    <3>0. grant \in [Users -> [nth : Nat, first : Nat, last : Nat]]
        BY DEF TypeOK
    <3>1. grant[User(t)].nth + 1 \in Nat
        BY <2>1, <3>0
    <3>2. [nth |-> grant[User(t)].nth + 1, first |-> start[t],
           last |-> start[t] + Need(t) - 1] \in [nth : Nat, first : Nat, last : Nat]
        BY <2>2, <3>1
    <3> QED  BY <1>8, <2>1, <3>0, <3>2 DEF Issue
  <2>5. reply' = [reply EXCEPT ![t] = Append(reply[t], r)]
      BY <1>8 DEF Issue
  <2>6. reply' \in [Threads -> Seq(Ranges)] /\ Len(reply'[t]) = Len(reply[t]) + 1
        /\ \A s \in Threads \ {t} : reply'[s] = reply[s]
      BY <2>2, <2>5 DEF TypeOK
  <2>7. holder' \in [Buckets -> Threads \union {NoThread}]
      BY <1>8, <2>1 DEF Issue, TypeOK
  <2>8. pc' \in [Threads -> {"idle", "lock", "put", "issue", "advance", "reply"}]
      BY <1>8 DEF Issue, TypeOK
  <2>9. \A s \in Threads : HandlerOK(s)'
      BY <1>8, <2>1, <2>6 DEF Issue, TypeOK, HandlerOK
  <2> QED  BY <1>8, <2>3, <2>4, <2>6, <2>7, <2>8, <2>9 DEF Issue, TypeOK
<1>9. ASSUME NEW t \in Threads, Reply(t) PROVE TypeOK'
    BY <1>9 DEF Reply, TypeOK, HandlerOK
<1>10. ASSUME Crash PROVE TypeOK'
  <2>1. crashes' \in Nat /\ exposed' \in SUBSET Users
    <3>1. crashes \in Nat /\ exposed \in SUBSET Users
        BY DEF TypeOK
    <3>2. crashes' = crashes + 1
          /\ exposed' = exposed \union {u \in Users : cache[u] > db[u]}
        BY <1>10 DEF Crash
    <3> QED  BY <3>1, <3>2
  <2>2. cache' \in [Users -> Nat] /\ holder' \in [Buckets -> Threads \union {NoThread}]
      BY <1>10 DEF Crash
  <2>3. /\ pc' = [t \in Threads |-> "idle"] /\ start' = [t \in Threads |-> 0]
        /\ request' = [t \in Threads |-> << >>] /\ reply' = [t \in Threads |-> << >>]
      BY <1>10 DEF Crash
  <2>4. \A t \in Threads : HandlerOK(t)'
      BY <2>3 DEF HandlerOK
  <2>5. /\ request' \in [Threads -> Seq(Items)] /\ reply' \in [Threads -> Seq(Ranges)]
        /\ start' \in [Threads -> Nat]
        /\ pc' \in [Threads -> {"idle", "lock", "put", "issue", "advance", "reply"}]
      BY <2>3
  <2>6. UNCHANGED <<db, grant, received, faults>>
      BY <1>10 DEF Crash
  <2> QED  BY <2>1, <2>2, <2>4, <2>5, <2>6 DEF TypeOK
<1>11. ASSUME UNCHANGED vars PROVE TypeOK'
    BY <1>11 DEF vars, TypeOK, HandlerOK
<1> QED  BY <1>1, <1>2, <1>4, <1>5, <1>6, <1>7, <1>8, <1>9, <1>10, <1>11 DEF Next, Step

(* Every reachable state has its types, and no handler runs past its       *)
(* request (idgen_server.cc:42).                                           *)
THEOREM Typed == Spec => []TypeOK
<1> QED  BY TypeInit, TypeStep, PTL DEF Spec

--------------------------------------------------------------------------------
(* The mutex: a handler between Load and the end of its turn holds the     *)
(* mutex of its user's bucket.                                             *)
InSection(t) == pc[t] \in {"put", "issue", "advance"}

SectionHeld == \A t \in Threads : InSection(t) => holder[Bucket(User(t))] = t

(* A step of one handler leaves the place of every other one alone, ...    *)
LEMMA Others ==
    ASSUME TypeOK, NEW t \in Threads, Receive(t) \/ Step(t),
           NEW s \in Threads, s # t
    PROVE  /\ pc'[s] = pc[s] /\ start'[s] = start[s]
           /\ request'[s] = request[s] /\ reply'[s] = reply[s]
           /\ User(s)' = User(s) /\ Need(s)' = Need(s)
           /\ InSection(s)' = InSection(s)
<1>1. /\ pc'[s] = pc[s] /\ start'[s] = start[s]
      /\ request'[s] = request[s] /\ reply'[s] = reply[s]
  <2>1. CASE Receive(t)
      BY <2>1 DEF Receive, TypeOK
  <2>2. CASE Load(t)
      BY <2>2 DEF Load, TypeOK
  <2>3. CASE GetFails(t) \/ PutFails(t)
      BY <2>3 DEF GetFails, PutFails, Fail, TypeOK
  <2>4. CASE Put(t) \/ Start(t)
      BY <2>4 DEF Put, Start, TypeOK
  <2>5. CASE Issue(t)
      BY <2>5 DEF Issue, TypeOK
  <2>6. CASE Reply(t)
      BY <2>6 DEF Reply, TypeOK
  <2> QED  BY <2>1, <2>2, <2>3, <2>4, <2>5, <2>6 DEF Step
<1> QED  BY <1>1 DEF InSection, User, Need, Item

(* ... and its own item stays the same until it is done with it. *)
LEMMA SameItem ==
    ASSUME NEW t \in Threads, Load(t) \/ Put(t) \/ Start(t)
    PROVE  User(t)' = User(t) /\ Need(t)' = Need(t)
BY DEF Load, Put, Start, User, Need, Item

(* Two handlers are never between Load and Issue for the same user. *)
LEMMA OneInSection ==
    ASSUME SectionHeld, NEW s \in Threads, NEW t \in Threads,
           InSection(s), InSection(t), User(s) = User(t)
    PROVE  s = t
BY DEF SectionHeld

(* A bucket whose mutex is free has no handler in its section. *)
LEMMA FreeSection ==
    ASSUME SectionHeld, NEW s \in Threads, InSection(s), NEW b, Free(b)
    PROVE  Bucket(User(s)) # b
BY IdGenAssumption DEF SectionHeld, Free

(* Every step keeps the mutex with the handlers inside the section. *)
LEMMA SectionStep == TypeOK /\ SectionHeld /\ [Next]_vars => SectionHeld'
<1> SUFFICES ASSUME TypeOK, SectionHeld, [Next]_vars,
                    NEW s \in Threads, InSection(s)'
             PROVE  holder'[Bucket(User(s)')] = s
    BY DEF SectionHeld, Bucket
<1>1. ASSUME NEW t \in Threads, Receive(t) \/ Step(t)
      PROVE  holder'[Bucket(User(s)')] = s
  <2>1. CASE s # t
    <3>1. User(s)' = User(s) /\ InSection(s)
        BY <1>1, <2>1, Others
    <3>2. holder[Bucket(User(s))] = s
        BY <3>1 DEF SectionHeld
    <3>3. CASE UNCHANGED holder
        BY <3>1, <3>2, <3>3
    <3>4. CASE Load(t)
      <4>1. Bucket(User(s)) # Bucket(User(t))
          BY <3>1, <3>4, FreeSection DEF Load
      <4> QED  BY <3>1, <3>2, <3>4, <4>1 DEF Load, TypeOK
    <3>5. CASE PutFails(t) \/ Issue(t)
      <4>1. holder[Bucket(User(t))] = t
          BY <3>5 DEF SectionHeld, InSection, PutFails, Issue
      <4>2. Bucket(User(s)) # Bucket(User(t))
          BY <2>1, <3>2, <4>1
      <4>3. holder' = [holder EXCEPT ![Bucket(User(t))] = NoThread]
          BY <3>5 DEF PutFails, Issue
      <4>4. Bucket(User(s)) \in Buckets /\ holder \in [Buckets -> Threads \union {NoThread}]
          BY <3>1, ItemOK DEF InSection, TypeOK
      <4> QED  BY <3>1, <3>2, <4>2, <4>3, <4>4
    <3> QED  BY <1>1, <3>3, <3>4, <3>5
             DEF Step, Receive, GetFails, Put, Start, Reply
  <2>2. CASE s = t /\ Load(t)
    <3>1. Bucket(User(t)) \in Buckets /\ User(t)' = User(t)
        BY <2>2, ItemOK, SameItem DEF Load
    <3> QED  BY <2>2, <3>1 DEF Load, TypeOK
  <2>3. CASE s = t /\ (Put(t) \/ Start(t))
    <3>1. User(t)' = User(t) /\ InSection(t)
        BY <2>3, SameItem DEF InSection, Put, Start
    <3> QED  BY <2>3, <3>1 DEF Put, Start, SectionHeld
  <2>4. CASE s = t /\ (Receive(t) \/ GetFails(t) \/ PutFails(t) \/ Issue(t) \/ Reply(t))
    <3>1. pc'[t] \in {"idle", "lock", "reply"}
        BY <2>4 DEF Receive, GetFails, PutFails, Fail, Issue, Reply, TypeOK
    <3> QED  BY <2>4, <3>1 DEF InSection
  <2> QED  BY <1>1, <2>1, <2>2, <2>3, <2>4 DEF Step
<1>2. CASE Crash
    BY <1>2 DEF Crash, InSection
<1>3. CASE UNCHANGED vars
    BY <1>3 DEF vars, SectionHeld, InSection, User, Item
<1> QED  BY <1>1, <1>2, <1>3 DEF Next

--------------------------------------------------------------------------------
(* The counter: a handler that is about to advance it has read it last,    *)
(* and nothing in a response is above it.                                  *)
StartAtCounter ==
    \A t \in Threads : pc[t] = "advance" => start[t] = cache[User(t)] + 1

RepliesBelow ==
    \A t \in Threads : \A i \in 1 .. Len(reply[t]) :
        reply[t][i].last <= cache[reply[t][i].user]

(* What a handler in its section works on is left alone by the others. *)
LEMMA SectionAlone ==
    ASSUME TypeOK, SectionHeld, NEW t \in Threads, Receive(t) \/ Step(t),
           NEW s \in Threads, s # t, InSection(s)
    PROVE  /\ cache'[User(s)] = cache[User(s)]
           /\ db'[User(s)] = db[User(s)]
           /\ grant'[User(s)] = grant[User(s)]
<1>0. User(s) \in Users
    BY ItemOK DEF InSection
<1>1. CASE Load(t)
  <2>1. User(s) # User(t)
      BY <1>1, FreeSection DEF Load
  <2> QED  BY <1>0, <1>1, <2>1 DEF Load, TypeOK
<1>2. CASE Put(t) \/ Issue(t)
  <2>1. User(s) # User(t)
      BY <1>2, OneInSection DEF InSection, Put, Issue
  <2>2. CASE Put(t)
      BY <1>0, <2>1, <2>2 DEF Put, TypeOK
  <2>3. CASE Issue(t)
      BY <1>0, <2>1, <2>3 DEF Issue, TypeOK
  <2> QED  BY <1>2, <2>2, <2>3
<1>3. CASE Receive(t) \/ GetFails(t) \/ PutFails(t) \/ Start(t) \/ Reply(t)
    BY <1>3 DEF Receive, GetFails, PutFails, Fail, Start, Reply
<1> QED  BY <1>1, <1>2, <1>3 DEF Step

(* No step of a handler moves a counter down. *)
LEMMA CounterRises ==
    ASSUME TypeOK, NEW t \in Threads, Receive(t) \/ Step(t), NEW u \in Users
    PROVE  cache'[u] >= cache[u]
<1>0. cache \in [Users -> Nat] /\ db \in [Users -> Nat]
    BY DEF TypeOK
<1>1. CASE Load(t)
    BY <1>0, <1>1 DEF Load, Get
<1>2. CASE Issue(t)
  <2>1. Need(t) \in Nat
      BY <1>2, ItemOK DEF Issue
  <2>2. cache' = [cache EXCEPT ![User(t)] = cache[User(t)] + Need(t)]
      BY <1>2 DEF Issue, Advanced
  <2> QED  BY <1>0, <2>1, <2>2
<1>3. CASE UNCHANGED cache
    BY <1>0, <1>3
<1> QED  BY <1>1, <1>2, <1>3
         DEF Step, Receive, GetFails, PutFails, Fail, Put, Start, Reply

(* Every step keeps a handler's start_id next to the counter. *)
LEMMA StartStep ==
    TypeOK /\ SectionHeld /\ StartAtCounter /\ [Next]_vars => StartAtCounter'
<1> SUFFICES ASSUME TypeOK, SectionHeld, StartAtCounter, [Next]_vars,
                    NEW s \in Threads, pc'[s] = "advance"
             PROVE  start'[s] = cache'[User(s)'] + 1
    BY DEF StartAtCounter
<1>1. ASSUME NEW t \in Threads, Receive(t) \/ Step(t), s # t
      PROVE  start'[s] = cache'[User(s)'] + 1
  <2>1. pc[s] = "advance" /\ start'[s] = start[s] /\ User(s)' = User(s)
      BY <1>1, Others
  <2>2. cache'[User(s)] = cache[User(s)]
      BY <1>1, <2>1, SectionAlone DEF InSection
  <2> QED  BY <2>1, <2>2 DEF StartAtCounter
<1>2. CASE Receive(s) \/ Step(s)
  <2>1. Start(s)
      BY <1>2 DEF Step, Receive, Load, GetFails, PutFails, Fail, Put, Issue,
                  Reply, TypeOK
  <2>2. User(s)' = User(s)
      BY <2>1, SameItem
  <2> QED  BY <2>1, <2>2 DEF Start, TypeOK
<1>3. CASE Crash
    BY <1>3 DEF Crash
<1>4. CASE UNCHANGED vars
    BY <1>4 DEF vars, StartAtCounter, User, Item
<1> QED  BY <1>1, <1>2, <1>3, <1>4 DEF Next

(* What Issue hands out: the next Need(t) ids above the counter. *)
LEMMA IssueFacts ==
    ASSUME TypeOK, StartAtCounter, NEW t \in Threads, Issue(t)
    PROVE  /\ User(t) \in Users /\ Need(t) \in Nat \ {0} /\ cache[User(t)] \in Nat
           /\ cache' = [cache EXCEPT ![User(t)] = cache[User(t)] + Need(t)]
           /\ grant' = [grant EXCEPT ![User(t)] =
                          [nth   |-> grant[User(t)].nth + 1,
                           first |-> cache[User(t)] + 1,
                           last  |-> cache[User(t)] + Need(t)]]
           /\ reply' = [reply EXCEPT ![t] =
                          Append(reply[t], [user  |-> User(t),
                                            first |-> cache[User(t)] + 1,
                                            last  |-> cache[User(t)] + Need(t)])]
           /\ cache'[User(t)] = cache[User(t)] + Need(t)
           /\ grant'[User(t)] = [nth   |-> grant[User(t)].nth + 1,
                                 first |-> cache[User(t)] + 1,
                                 last  |-> cache[User(t)] + Need(t)]
           /\ cache[User(t)] + Need(t) \in Nat
<1>1. User(t) \in Users /\ Need(t) \in Nat \ {0} /\ cache[User(t)] \in Nat
    BY ItemOK DEF Issue, TypeOK
<1>2. start[t] = cache[User(t)] + 1
    BY DEF Issue, StartAtCounter
<1>3. start[t] + Need(t) - 1 = cache[User(t)] + Need(t)
      /\ cache[User(t)] + Need(t) \in Nat
    BY <1>1, <1>2
<1>4. /\ cache' = [cache EXCEPT ![User(t)] = cache[User(t)] + Need(t)]
      /\ grant' = [grant EXCEPT ![User(t)] =
                      [nth   |-> grant[User(t)].nth + 1,
                       first |-> cache[User(t)] + 1,
                       last  |-> cache[User(t)] + Need(t)]]
      /\ reply' = [reply EXCEPT ![t] =
                      Append(reply[t], [user  |-> User(t),
                                        first |-> cache[User(t)] + 1,
                                        last  |-> cache[User(t)] + Need(t)])]
    BY <1>2, <1>3 DEF Issue, Advanced
<1>5. cache \in [Users -> Nat]
      /\ grant \in [Users -> [nth : Nat, first : Nat, last : Nat]]
    BY DEF TypeOK
<1> QED  BY <1>1, <1>3, <1>4, <1>5

(* A response grows in Issue only, and is dropped as a whole. *)
LEMMA ReplyChange ==
    ASSUME TypeOK, NEW t \in Threads, Receive(t) \/ Step(t), NEW s \in Threads
    PROVE  reply'[s] = reply[s] \/ reply'[s] = << >> \/ (s = t /\ Issue(t))
<1>1. CASE s # t
    BY <1>1, Others
<1>2. CASE s = t
    BY <1>2 DEF Step, Receive, Load, GetFails, PutFails, Fail, Put, Start,
                Reply, TypeOK
<1> QED  BY <1>1, <1>2

(* Every step keeps the ranges of the responses at or below the counter. *)
LEMMA RepliesBelowStep ==
    TypeOK /\ StartAtCounter /\ RepliesBelow /\ [Next]_vars => RepliesBelow'
<1> SUFFICES ASSUME TypeOK, StartAtCounter, RepliesBelow, [Next]_vars,
                    NEW s \in Threads, NEW i \in 1 .. Len(reply'[s])
             PROVE  reply'[s][i].last <= cache'[reply'[s][i].user]
    BY DEF RepliesBelow
<1>1. ASSUME NEW t \in Threads, Receive(t) \/ Step(t), i \in 1 .. Len(reply[s]),
             reply'[s][i] = reply[s][i]
      PROVE  reply'[s][i].last <= cache'[reply'[s][i].user]
  <2>1. reply[s][i] \in Ranges
      BY <1>1 DEF TypeOK
  <2>2. reply[s][i].last \in Nat /\ reply[s][i].user \in Users
      BY <2>1 DEF Ranges
  <2>3. reply[s][i].last <= cache[reply[s][i].user]
      BY <1>1 DEF RepliesBelow
  <2>4. cache[reply[s][i].user] <= cache'[reply[s][i].user]
        /\ cache[reply[s][i].user] \in Nat /\ cache'[reply[s][i].user] \in Nat
      BY <1>1, <2>2, CounterRises, TypeStep DEF TypeOK
  <2> QED  BY <1>1, <2>2, <2>3, <2>4
<1>2. ASSUME NEW t \in Threads, Receive(t) \/ Step(t)
      PROVE  reply'[s][i].last <= cache'[reply'[s][i].user]
  <2>1. CASE reply'[s] = reply[s]
      BY <1>1, <1>2, <2>1
  <2>2. CASE reply'[s] = << >>
      BY <2>2
  <2>3. CASE s = t /\ Issue(t)
    <3> DEFINE r == [user  |-> User(t), first |-> cache[User(t)] + 1,
                     last  |-> cache[User(t)] + Need(t)]
    <3>0. User(t) \in Users /\ cache[User(t)] \in Nat /\ Need(t) \in Nat
        BY <2>3, IssueFacts
    <3>1. /\ reply'[s] = Append(reply[s], r)
          /\ cache'[User(t)] = cache[User(t)] + Need(t)
        BY <2>3, <3>0, IssueFacts DEF TypeOK
    <3>2. reply[s] \in Seq(Ranges)
        BY DEF TypeOK
    <3>3. CASE i \in 1 .. Len(reply[s])
      <4>1. reply'[s][i] = reply[s][i]
          BY <3>1, <3>2, <3>3
      <4> QED  BY <1>1, <1>2, <3>3, <4>1
    <3>4. CASE i = Len(reply[s]) + 1
      <4>1. reply'[s][i] = r
          BY <3>1, <3>2, <3>4
      <4> QED  BY <3>0, <3>1, <4>1
    <3>5. i \in 1 .. Len(reply[s]) \/ i = Len(reply[s]) + 1
        BY <3>1, <3>2
    <3> QED  BY <3>3, <3>4, <3>5
  <2>4. reply'[s] = reply[s] \/ reply'[s] = << >> \/ (s = t /\ Issue(t))
      BY <1>2, ReplyChange
  <2> QED  BY <2>1, <2>2, <2>3, <2>4
<1>3. CASE Crash
    BY <1>3 DEF Crash
<1>4. CASE UNCHANGED vars
    BY <1>4 DEF vars, RepliesBelow
<1> QED  BY <1>2, <1>3, <1>4 DEF Next

(* Ids already in a response are below the ones that Issue hands out. *)
LEMMA DisjointStep ==
    TypeOK /\ StartAtCounter /\ RepliesBelow /\ RepliesDisjoint /\ [Next]_vars
        => RepliesDisjoint'
<1> SUFFICES ASSUME TypeOK, StartAtCounter, RepliesBelow, RepliesDisjoint,
                    [Next]_vars,
                    NEW t1 \in Threads, NEW t2 \in Threads,
                    NEW i \in 1 .. Len(reply'[t1]), NEW j \in 1 .. Len(reply'[t2]),
                    <<t1, i>> # <<t2, j>>
             PROVE  ~Overlap(reply'[t1][i], reply'[t2][j])
    BY DEF RepliesDisjoint, Overlap
<1> DEFINE Old(s, k) == k \in 1 .. Len(reply[s]) /\ reply'[s][k] = reply[s][k]
<1>1. CASE Old(t1, i) /\ Old(t2, j)
    BY <1>1 DEF RepliesDisjoint
<1>2. ASSUME NEW t \in Threads, Receive(t) \/ Step(t)
      PROVE  ~Overlap(reply'[t1][i], reply'[t2][j])
  <2> DEFINE r == [user  |-> User(t), first |-> cache[User(t)] + 1,
                   last  |-> cache[User(t)] + Need(t)]
             New(s, k) == /\ s = t /\ Issue(t) /\ k = Len(reply[s]) + 1
                          /\ reply'[s][k] = r
  <2>1. ASSUME NEW s \in Threads, NEW k \in 1 .. Len(reply'[s])
        PROVE  Old(s, k) \/ New(s, k)
    <3>1. CASE reply'[s] = reply[s]
        BY <2>1, <3>1
    <3>2. CASE reply'[s] = << >>
        BY <2>1, <3>2
    <3>3. CASE s = t /\ Issue(t)
      <4>1. reply \in [Threads -> Seq(Ranges)]
          BY DEF TypeOK
      <4>2. reply' = [reply EXCEPT ![t] = Append(reply[t], r)]
          BY <3>3, IssueFacts
      <4>3. reply'[s] = Append(reply[s], r) /\ reply[s] \in Seq(Ranges)
          BY <3>3, <4>1, <4>2
      <4> QED  BY <2>1, <3>3, <4>3
    <3> QED  BY <1>2, <3>1, <3>2, <3>3, ReplyChange
  <2>2. ASSUME NEW s \in Threads, NEW k, Old(s, k), Issue(t)
        PROVE  ~Overlap(reply'[s][k], r) /\ ~Overlap(r, reply'[s][k])
    <3>1. reply[s][k] \in Ranges
        BY <2>2 DEF TypeOK
    <3>2. reply[s][k].last <= cache[reply[s][k].user]
        BY <2>2 DEF RepliesBelow
    <3>3. cache[User(t)] \in Nat
        BY <2>2, IssueFacts
    <3> QED  BY <2>2, <3>1, <3>2, <3>3 DEF Overlap, Ranges
  <2>3. ~(New(t1, i) /\ New(t2, j))
      OBVIOUS
  <2>4. CASE New(t1, i) /\ Old(t2, j)
      BY <2>2, <2>4
  <2>5. CASE Old(t1, i) /\ New(t2, j)
      BY <2>2, <2>5
  <2> QED  BY <1>1, <2>1, <2>3, <2>4, <2>5
<1>3. CASE Crash
    BY <1>3 DEF Crash
<1>4. CASE UNCHANGED vars
    BY <1>1, <1>4 DEF vars
<1> QED  BY <1>2, <1>3, <1>4 DEF Next

--------------------------------------------------------------------------------
(* Restarts: unless its counter was caught above LevelDB, a user has been  *)
(* given nothing above the counter that the next Load starts from, or that *)
(* a handler in its section has loaded.                                    *)
GrantsBelow ==
    \A u \in Users \ exposed :
        \/ grant[u].last <= cache[u]
        \/ cache[u] = 0 /\ grant[u].last <= db[u]

HeldBelow ==
    \A t \in Threads :
        InSection(t) /\ User(t) \notin exposed
            => grant[User(t)].last <= cache[User(t)]

(* What one step of a handler changes of a user. *)
LEMMA UserChange ==
    ASSUME TypeOK, NEW t \in Threads, Receive(t) \/ Step(t), NEW u \in Users
    PROVE  \/ /\ cache'[u] = cache[u] /\ db'[u] = db[u] /\ grant'[u] = grant[u]
           \/ /\ Load(t) /\ User(t) = u /\ cache[u] = 0
              /\ cache'[u] = db[u] /\ db'[u] = db[u] /\ grant'[u] = grant[u]
           \/ /\ Put(t) /\ User(t) = u
              /\ cache'[u] = cache[u] /\ grant'[u] = grant[u]
           \/ Issue(t) /\ User(t) = u
<1>1. CASE Load(t)
    BY <1>1 DEF Load, Get, TypeOK
<1>2. CASE Put(t)
    BY <1>2 DEF Put, TypeOK
<1>3. CASE Issue(t)
    BY <1>3 DEF Issue, TypeOK
<1>4. CASE Receive(t) \/ GetFails(t) \/ PutFails(t) \/ Start(t) \/ Reply(t)
    BY <1>4 DEF Receive, GetFails, PutFails, Fail, Start, Reply
<1> QED  BY <1>1, <1>2, <1>3, <1>4 DEF Step

(* A user once exposed stays exposed. *)
LEMMA ExposedStays ==
    ASSUME NEW t \in Threads, Receive(t) \/ Step(t)
    PROVE  exposed' = exposed
BY DEF Receive, Step, Load, GetFails, PutFails, Fail, Put, Start, Issue, Reply

(* The types of the last grants, before and after a step. *)
LEMMA GrantTypes ==
    ASSUME TypeOK, NEW u \in Users
    PROVE  /\ cache[u] \in Nat /\ db[u] \in Nat
           /\ grant[u].nth \in Nat /\ grant[u].first \in Nat /\ grant[u].last \in Nat
<1>1. /\ cache \in [Users -> Nat] /\ db \in [Users -> Nat]
      /\ grant \in [Users -> [nth : Nat, first : Nat, last : Nat]]
    BY DEF TypeOK
<1> QED  BY <1>1

(* Every step keeps the last grants at or below the counter or db. *)
LEMMA GrantsBelowStep ==
    TypeOK /\ StartAtCounter /\ GrantsBelow /\ HeldBelow /\ [Next]_vars
        => GrantsBelow'
<1> SUFFICES ASSUME TypeOK, StartAtCounter, GrantsBelow, HeldBelow, [Next]_vars,
                    NEW u \in Users, u \notin exposed'
             PROVE  \/ grant'[u].last <= cache'[u]
                    \/ cache'[u] = 0 /\ grant'[u].last <= db'[u]
    BY DEF GrantsBelow
<1>1. ASSUME NEW t \in Threads, Receive(t) \/ Step(t)
      PROVE  \/ grant'[u].last <= cache'[u]
             \/ cache'[u] = 0 /\ grant'[u].last <= db'[u]
  <2>1. u \notin exposed
      BY <1>1, ExposedStays
  <2>2. \/ grant[u].last <= cache[u]
        \/ cache[u] = 0 /\ grant[u].last <= db[u]
      BY <2>1 DEF GrantsBelow
  <2>3. CASE cache'[u] = cache[u] /\ db'[u] = db[u] /\ grant'[u] = grant[u]
      BY <2>2, <2>3
  <2>4. CASE cache[u] = 0 /\ cache'[u] = db[u] /\ grant'[u] = grant[u]
      BY <2>2, <2>4, GrantTypes
  <2>5. CASE Put(t) /\ User(t) = u /\ cache'[u] = cache[u] /\ grant'[u] = grant[u]
    <3>1. grant[u].last <= cache[u]
        BY <2>1, <2>5 DEF HeldBelow, InSection, Put
    <3> QED  BY <2>5, <3>1
  <2>6. CASE Issue(t) /\ User(t) = u
    <3>1. /\ grant'[User(t)] = [nth   |-> grant[User(t)].nth + 1,
                                first |-> cache[User(t)] + 1,
                                last  |-> cache[User(t)] + Need(t)]
          /\ cache'[User(t)] = cache[User(t)] + Need(t)
          /\ cache[User(t)] + Need(t) \in Nat
        BY <2>6, IssueFacts
    <3> QED  BY <2>6, <3>1
  <2> QED  BY <1>1, <2>3, <2>4, <2>5, <2>6, UserChange
<1>2. CASE Crash
  <2>1. u \notin exposed /\ cache'[u] = 0 /\ db' = db /\ grant' = grant
        /\ ~(cache[u] > db[u])
      BY <1>2 DEF Crash
  <2>2. \/ grant[u].last <= cache[u]
        \/ cache[u] = 0 /\ grant[u].last <= db[u]
      BY <2>1 DEF GrantsBelow
  <2> QED  BY <2>1, <2>2, GrantTypes
<1>3. CASE UNCHANGED vars
    BY <1>3 DEF vars, GrantsBelow
<1> QED  BY <1>1, <1>2, <1>3 DEF Next

(* Every step keeps the ranges of the responses at or below the grants. *)
LEMMA HeldBelowStep ==
    TypeOK /\ SectionHeld /\ GrantsBelow /\ HeldBelow /\ [Next]_vars => HeldBelow'
<1> SUFFICES ASSUME TypeOK, SectionHeld, GrantsBelow, HeldBelow, [Next]_vars,
                    NEW s \in Threads, InSection(s)', User(s)' \notin exposed'
             PROVE  grant'[User(s)'].last <= cache'[User(s)']
    BY DEF HeldBelow
<1>1. ASSUME NEW t \in Threads, Receive(t) \/ Step(t)
      PROVE  grant'[User(s)'].last <= cache'[User(s)']
  <2>0. exposed' = exposed
      BY <1>1, ExposedStays
  <2>1. CASE s # t
    <3>1. InSection(s) /\ User(s)' = User(s)
        BY <1>1, <2>1, Others
    <3>2. grant[User(s)].last <= cache[User(s)]
        BY <2>0, <3>1 DEF HeldBelow
    <3> QED  BY <1>1, <2>1, <3>1, <3>2, SectionAlone
  <2>2. CASE s = t /\ Load(t)
    <3>1. User(t)' = User(t) /\ User(t) \in Users /\ User(t) \notin exposed
        BY <2>0, <2>2, SameItem, ItemOK DEF Load
    <3>2. \/ grant[User(t)].last <= cache[User(t)]
          \/ cache[User(t)] = 0 /\ grant[User(t)].last <= db[User(t)]
        BY <3>1 DEF GrantsBelow
    <3>3. grant' = grant /\ (\/ cache[User(t)] = 0 /\ cache'[User(t)] = db[User(t)]
                             \/ cache[User(t)] # 0 /\ cache'[User(t)] = cache[User(t)])
        BY <2>2, <3>1 DEF Load, Get, TypeOK
    <3> QED  BY <2>2, <3>1, <3>2, <3>3, GrantTypes
  <2>3. CASE s = t /\ (Put(t) \/ Start(t))
    <3>1. User(t)' = User(t) /\ InSection(t) /\ User(t) \notin exposed
          /\ cache' = cache /\ grant' = grant
        BY <2>0, <2>3, SameItem DEF Put, Start, InSection
    <3> QED  BY <2>3, <3>1 DEF HeldBelow
  <2>4. CASE s = t /\ (Receive(t) \/ GetFails(t) \/ PutFails(t) \/ Issue(t) \/ Reply(t))
    <3>1. pc'[t] \in {"idle", "lock", "reply"}
        BY <2>4 DEF Receive, GetFails, PutFails, Fail, Issue, Reply, TypeOK
    <3> QED  BY <2>4, <3>1 DEF InSection
  <2> QED  BY <1>1, <2>1, <2>2, <2>3, <2>4 DEF Step
<1>2. CASE Crash
    BY <1>2 DEF Crash, InSection
<1>3. CASE UNCHANGED vars
    BY <1>3 DEF vars, HeldBelow, InSection, User, Item
<1> QED  BY <1>1, <1>2, <1>3 DEF Next

--------------------------------------------------------------------------------
(* LevelDB: the reserved end is the end of a block, never further than the *)
(* block of the counter, and an id is only issued below it or in the block *)
(* the counter is in.                                                      *)
DbAligned == \A u \in Users : \E k \in Nat : db[u] = k * BlockSize

PutNeeded ==
    \A t \in Threads : pc[t] = "put" => db[User(t)] <= BlockEnd(cache[User(t)])

IssueCovered ==
    \A t \in Threads : pc[t] \in {"issue", "advance"} =>
        /\ db[User(t)] <= BlockEnd(cache[User(t)] + Need(t))
        /\ \/ cache[User(t)] + Need(t) <= db[User(t)]
           \/ cache[User(t)] # 0 /\ ~Exceeds(cache[User(t)], Need(t))

Issuing(u) == \E t \in Threads : pc[t] \in {"issue", "advance"} /\ User(t) = u

Near(u) == db[u] <= BlockEnd(cache[u]) \/ Issuing(u)

CounterNear == \A u \in Users : cache[u] # 0 => Near(u)

(* A later id is in the same block or in a later one. *)
LEMMA BlockEndGrows ==
    ASSUME NEW x \in Nat, NEW y \in Nat, x <= y
    PROVE  BlockEnd(x) <= BlockEnd(y)
<1> DEFINE n == BlockSize
           p == (x + n - 1) \div n
           q == (y + n - 1) \div n
<1>1. n \in Nat \ {0}
    BY IdGenAssumption
<1>2. x + n - 1 \in Nat /\ y + n - 1 \in Nat
    BY <1>1
<1>3. p \in Nat /\ q \in Nat
    BY <1>1, <1>2, DivBounds
<1>4. p * n <= x + n - 1 /\ y + n - 1 < q * n + n
    BY <1>1, <1>2, DivBounds
<1> HIDE DEF n, p, q
<1>5. p * n < (q + 1) * n
    BY <1>1, <1>3, <1>4
<1>6. p <= q
    BY <1>1, <1>3, <1>5
<1>7. p * n <= q * n
    BY <1>1, <1>3, <1>6
<1> QED  BY <1>7 DEF BlockEnd, n, p, q

(* A counter below the end of a block has its own block's room below it. *)
LEMMA BlockRoom ==
    ASSUME NEW c \in Nat, NEW need \in Nat, NEW k \in Nat,
           c < k * BlockSize, ~Exceeds(c, need)
    PROVE  c + need <= k * BlockSize
<1> DEFINE n == BlockSize
           q == c \div n
<1>1. n \in Nat \ {0} /\ c % n \in Nat
    BY IdGenAssumption, ModRange
<1>2. q \in Nat /\ q * n <= c /\ c = q * n + (c % n)
    BY <1>1, DivBounds
<1>3. (c % n) + need <= n /\ c < k * n
    BY <1>1 DEF Exceeds
<1> DEFINE m == c % n
<1> HIDE DEF n, q, m
<1>4. q * n < k * n
    BY <1>1, <1>2, <1>3
<1>5. q + 1 <= k
    BY <1>1, <1>2, <1>4
<1>6. q * n + n <= k * n
    BY <1>1, <1>2, <1>5
<1>7. c + need <= q * n + n
    BY <1>1, <1>2, <1>3 DEF m
<1> QED  BY <1>1, <1>2, <1>6, <1>7 DEF n

(* Every step keeps db on a block end. *)
LEMMA AlignedStep == TypeOK /\ DbAligned /\ [Next]_vars => DbAligned'
<1> SUFFICES ASSUME TypeOK, DbAligned, [Next]_vars, NEW u \in Users
             PROVE  \E k \in Nat : db'[u] = k * BlockSize
    BY DEF DbAligned
<1>1. ASSUME NEW t \in Threads, Put(t), User(t) = u
      PROVE  \E k \in Nat : db'[u] = k * BlockSize
  <2> DEFINE x == cache[u] + Need(t)
             k == (x + BlockSize - 1) \div BlockSize
  <2>1. cache[u] \in Nat /\ Need(t) \in Nat
      BY <1>1, ItemOK, GrantTypes DEF Put
  <2>2. BlockSize \in Nat \ {0} /\ x + BlockSize - 1 \in Nat
      BY <2>1, IdGenAssumption
  <2>3. k \in Nat
      BY <2>2, DivBounds
  <2>4. db'[u] = k * BlockSize
      BY <1>1 DEF Put, NewEnd, BlockEnd, TypeOK
  <2> QED  BY <2>3, <2>4
<1>2. CASE db'[u] = db[u]
    BY <1>2 DEF DbAligned
<1>3. ASSUME NEW t \in Threads, Receive(t) \/ Step(t), ~(Put(t) /\ User(t) = u)
      PROVE  db'[u] = db[u]
    BY <1>3 DEF Receive, Step, Load, GetFails, PutFails, Fail, Put, Start,
                Issue, Reply, TypeOK
<1> QED  BY <1>1, <1>2, <1>3 DEF Next, Crash, vars

(* What Load sees when the mutex was free. *)
LEMMA LoadFacts ==
    ASSUME TypeOK, SectionHeld, CounterNear, NEW t \in Threads, Load(t)
    PROVE  /\ User(t) \in Users /\ User(t)' = User(t) /\ Need(t)' = Need(t)
           /\ Need(t) \in Nat /\ db' = db
           /\ cache'[User(t)] \in Nat /\ db[User(t)] <= BlockEnd(cache'[User(t)])
           /\ pc'[t] = "put" \/ ( /\ pc'[t] = "issue" /\ cache'[User(t)] # 0
                                 /\ ~Exceeds(cache'[User(t)], Need(t)) )
<1> DEFINE u == User(t)
<1>1. u \in Users /\ User(t)' = u /\ Need(t)' = Need(t) /\ Need(t) \in Nat /\ db' = db
    BY ItemOK, SameItem DEF Load
<1>2. cache[u] \in Nat /\ db[u] \in Nat
    BY <1>1, GrantTypes
<1>3. CASE cache[u] = 0
  <2>1. cache'[u] = db[u] /\ pc'[t] = "put"
      BY <1>1, <1>3 DEF Load, Get, TypeOK
  <2>2. db[u] <= BlockEnd(db[u])
      BY <1>2, BlockEndFacts
  <2> QED  BY <1>1, <1>2, <2>1, <2>2
<1>4. CASE cache[u] # 0
  <2>1. ~Issuing(u)
      BY FreeSection DEF Issuing, InSection, Load
  <2>2. db[u] <= BlockEnd(cache[u])
      BY <1>1, <1>4, <2>1 DEF CounterNear, Near
  <2>3. cache' = cache
      BY <1>4 DEF Load
  <2>4. pc'[t] = IF Exceeds(cache[u], Need(t)) THEN "put" ELSE "issue"
      BY <1>4 DEF Load, TypeOK
  <2> QED  BY <1>1, <1>2, <1>4, <2>2, <2>3, <2>4
<1> QED  BY <1>3, <1>4

(* Where a Put finds the counter. *)
LEMMA PutFacts ==
    ASSUME TypeOK, NEW t \in Threads, Put(t)
    PROVE  /\ User(t) \in Users /\ cache[User(t)] \in Nat /\ Need(t) \in Nat
           /\ cache[User(t)] + Need(t) \in Nat
           /\ db'[User(t)] = BlockEnd(cache[User(t)] + Need(t))
           /\ BlockEnd(cache[User(t)] + Need(t)) \in Nat
           /\ cache[User(t)] + Need(t) <= BlockEnd(cache[User(t)] + Need(t))
           /\ BlockEnd(cache[User(t)]) <= BlockEnd(cache[User(t)] + Need(t))
           /\ BlockEnd(cache[User(t)]) \in Nat
<1>1. User(t) \in Users /\ cache[User(t)] \in Nat /\ Need(t) \in Nat
    BY ItemOK, GrantTypes DEF Put
<1>2. cache[User(t)] + Need(t) \in Nat /\ cache[User(t)] <= cache[User(t)] + Need(t)
    BY <1>1
<1>3. db'[User(t)] = BlockEnd(cache[User(t)] + Need(t))
    BY <1>1 DEF Put, NewEnd, TypeOK
<1> QED  BY <1>1, <1>2, <1>3, BlockEndFacts, BlockEndGrows

(* Every step keeps a handler about to Put in need of it. *)
LEMMA PutNeededStep ==
    TypeOK /\ SectionHeld /\ CounterNear /\ PutNeeded /\ [Next]_vars => PutNeeded'
<1> SUFFICES ASSUME TypeOK, SectionHeld, CounterNear, PutNeeded, [Next]_vars,
                    NEW s \in Threads, pc'[s] = "put"
             PROVE  db'[User(s)'] <= BlockEnd(cache'[User(s)'])
    BY DEF PutNeeded, BlockEnd
<1>1. ASSUME NEW t \in Threads, Receive(t) \/ Step(t), s # t
      PROVE  db'[User(s)'] <= BlockEnd(cache'[User(s)'])
  <2>1. pc[s] = "put" /\ User(s)' = User(s)
      BY <1>1, Others
  <2>2. db'[User(s)] = db[User(s)] /\ cache'[User(s)] = cache[User(s)]
      BY <1>1, <2>1, SectionAlone DEF InSection
  <2> QED  BY <2>1, <2>2 DEF PutNeeded
<1>2. CASE Receive(s) \/ Step(s)
  <2>1. Load(s)
      BY <1>2 DEF Step, Receive, GetFails, PutFails, Fail, Put, Start, Issue,
                  Reply, TypeOK
  <2> QED  BY <2>1, LoadFacts
<1>3. CASE Crash
    BY <1>3 DEF Crash
<1>4. CASE UNCHANGED vars
    BY <1>4 DEF vars, PutNeeded, User, Item
<1> QED  BY <1>1, <1>2, <1>3, <1>4 DEF Next

(* Every step keeps the range about to be issued covered by db, or the counter on a block end. *)
LEMMA IssueCoveredStep ==
    TypeOK /\ SectionHeld /\ CounterNear /\ PutNeeded /\ IssueCovered /\ [Next]_vars
        => IssueCovered'
<1> DEFINE Covered(d, c, need) ==
               /\ d <= BlockEnd(c + need)
               /\ c + need <= d \/ (c # 0 /\ ~Exceeds(c, need))
<1> SUFFICES ASSUME TypeOK, SectionHeld, CounterNear, PutNeeded, IssueCovered,
                    [Next]_vars,
                    NEW s \in Threads, pc'[s] \in {"issue", "advance"}
             PROVE  Covered(db'[User(s)'], cache'[User(s)'], Need(s)')
    BY DEF IssueCovered, BlockEnd, Exceeds
<1>0. pc[s] \in {"issue", "advance"} => Covered(db[User(s)], cache[User(s)], Need(s))
    BY DEF IssueCovered
<1> HIDE DEF Covered
<1>1. ASSUME NEW t \in Threads, Receive(t) \/ Step(t), s # t
      PROVE  Covered(db'[User(s)'], cache'[User(s)'], Need(s)')
  <2>1. pc[s] \in {"issue", "advance"} /\ User(s)' = User(s) /\ Need(s)' = Need(s)
      BY <1>1, Others
  <2>2. db'[User(s)] = db[User(s)] /\ cache'[User(s)] = cache[User(s)]
      BY <1>1, <2>1, SectionAlone DEF InSection
  <2> QED  BY <1>0, <2>1, <2>2
<1>2. CASE Load(s)
  <2> DEFINE c == cache'[User(s)]
  <2>1. /\ User(s)' = User(s) /\ Need(s)' = Need(s) /\ db' = db
        /\ c \in Nat /\ Need(s) \in Nat /\ db[User(s)] <= BlockEnd(c)
        /\ c # 0 /\ ~Exceeds(c, Need(s)) /\ db[User(s)] \in Nat
      BY <1>2, LoadFacts, GrantTypes
  <2>2. c + Need(s) \in Nat /\ c <= c + Need(s)
      BY <2>1
  <2>3. BlockEnd(c) <= BlockEnd(c + Need(s)) /\ BlockEnd(c) \in Nat
        /\ BlockEnd(c + Need(s)) \in Nat
      BY <2>1, <2>2, BlockEndGrows, BlockEndFacts
  <2>4. db[User(s)] <= BlockEnd(c + Need(s))
      BY <2>1, <2>3
  <2> QED  BY <2>1, <2>4 DEF Covered
<1>3. CASE Put(s)
  <2>1. User(s)' = User(s) /\ Need(s)' = Need(s) /\ cache' = cache
      BY <1>3, SameItem DEF Put
  <2>2. db'[User(s)] = BlockEnd(cache[User(s)] + Need(s))
        /\ cache[User(s)] + Need(s) <= db'[User(s)] /\ db'[User(s)] \in Nat
      BY <1>3, PutFacts
  <2>3. db'[User(s)] <= BlockEnd(cache[User(s)] + Need(s))
      BY <2>2
  <2> QED  BY <2>1, <2>2, <2>3 DEF Covered
<1>4. CASE Start(s)
  <2>1. User(s)' = User(s) /\ Need(s)' = Need(s) /\ cache' = cache /\ db' = db
        /\ pc[s] = "issue"
      BY <1>4, SameItem DEF Start
  <2> QED  BY <1>0, <2>1
<1>5. CASE Receive(s) \/ Step(s)
  <2>1. Load(s) \/ Put(s) \/ Start(s)
      BY <1>5 DEF Step, Receive, GetFails, PutFails, Fail, Issue, Reply, TypeOK
  <2> QED  BY <1>2, <1>3, <1>4, <2>1
<1>6. CASE Crash
    BY <1>6 DEF Crash
<1>7. CASE UNCHANGED vars
  <2>1. User(s)' = User(s) /\ Need(s)' = Need(s) /\ pc' = pc /\ cache' = cache /\ db' = db
      BY <1>7 DEF vars, User, Need, Item
  <2> QED  BY <1>0, <2>1
<1> QED  BY <1>1, <1>5, <1>6, <1>7 DEF Next

(* Every step keeps the counter no further than a block past db. *)
LEMMA CounterNearStep ==
    TypeOK /\ SectionHeld /\ StartAtCounter /\ CounterNear /\ IssueCovered
      /\ [Next]_vars => CounterNear'
<1> SUFFICES ASSUME TypeOK, SectionHeld, StartAtCounter, CounterNear,
                    IssueCovered, [Next]_vars,
                    NEW u \in Users, cache'[u] # 0
             PROVE  Near(u)'
    BY DEF CounterNear
<1>0. db'[u] <= BlockEnd(cache'[u]) \/ Issuing(u)' => Near(u)'
    BY DEF Near, BlockEnd
<1>1. ASSUME NEW t \in Threads, Receive(t) \/ Step(t)
      PROVE  Near(u)'
  <2>1. CASE cache'[u] = cache[u] /\ db'[u] = db[u] /\ ~(Issue(t) /\ User(t) = u)
    <3>1. CASE db[u] <= BlockEnd(cache[u])
      <4>1. db'[u] <= BlockEnd(cache'[u])
          BY <2>1, <3>1
      <4> QED  BY <1>0, <4>1
    <3>2. ASSUME NEW s \in Threads, pc[s] \in {"issue", "advance"}, User(s) = u
          PROVE  Issuing(u)'
      <4>1. CASE s # t
        <5>1. pc'[s] = pc[s] /\ User(s)' = User(s)
            BY <1>1, <4>1, Others
        <5> QED  BY <3>2, <5>1 DEF Issuing
      <4>2. CASE s = t
        <5>1. Start(t)
            BY <1>1, <2>1, <3>2, <4>2
               DEF Step, Receive, Load, GetFails, PutFails, Put, Reply
        <5>2. pc'[t] = "advance" /\ User(t)' = User(t)
            BY <5>1, SameItem DEF Start, TypeOK
        <5> QED  BY <3>2, <4>2, <5>2 DEF Issuing
      <4> QED  BY <4>1, <4>2
    <3> QED  BY <1>0, <2>1, <3>1, <3>2 DEF CounterNear, Near, Issuing
  <2>2. CASE Load(t) /\ User(t) = u
      BY <1>0, <2>2, LoadFacts
  <2>3. CASE Put(t) /\ User(t) = u
    <3>1. pc'[t] = "issue" /\ User(t)' = User(t)
        BY <2>3, SameItem DEF Put, TypeOK
    <3> QED  BY <1>0, <2>3, <3>1 DEF Issuing
  <2>4. CASE Issue(t) /\ User(t) = u
    <3>1. cache'[User(t)] = cache[User(t)] + Need(t) /\ db' = db
        BY <2>4, IssueFacts DEF Issue
    <3>2. db[User(t)] <= BlockEnd(cache[User(t)] + Need(t))
        BY <2>4 DEF IssueCovered, Issue
    <3> QED  BY <1>0, <2>4, <3>1, <3>2
  <2> QED  BY <1>1, <2>1, <2>2, <2>3, <2>4, UserChange
<1>2. CASE Crash
    BY <1>2 DEF Crash
<1>3. CASE UNCHANGED vars
  <2>1. cache' = cache /\ db' = db /\ (Issuing(u) => Issuing(u)')
      BY <1>3 DEF vars, Issuing, User, Item
  <2> QED  BY <1>0, <2>1 DEF CounterNear, Near
<1> QED  BY <1>1, <1>2, <1>3 DEF Next

--------------------------------------------------------------------------------
(* The inductive invariant. *)
IInv ==
    /\ TypeOK
    /\ SectionHeld /\ StartAtCounter
    /\ RepliesBelow /\ RepliesDisjoint
    /\ GrantsBelow /\ HeldBelow
    /\ DbAligned /\ PutNeeded /\ IssueCovered /\ CounterNear

(* The inductive invariant holds at the start ... *)
LEMMA InvInit == Init => IInv
<1> SUFFICES ASSUME Init PROVE IInv
    OBVIOUS
<1>1. SectionHeld /\ StartAtCounter /\ HeldBelow /\ PutNeeded /\ IssueCovered
    BY DEF Init, SectionHeld, StartAtCounter, HeldBelow, PutNeeded, IssueCovered,
           InSection
<1>2. RepliesBelow /\ RepliesDisjoint
    BY DEF Init, RepliesBelow, RepliesDisjoint
<1>3. GrantsBelow /\ CounterNear
    BY DEF Init, GrantsBelow, CounterNear
<1>4. DbAligned
  <2>1. 0 = 0 * BlockSize
      BY IdGenAssumption
  <2> QED  BY <2>1 DEF Init, DbAligned
<1> QED  BY <1>1, <1>2, <1>3, <1>4, TypeInit DEF IInv

(* ... every step keeps it ... *)
LEMMA InvStep == IInv /\ [Next]_vars => IInv'
BY TypeStep, SectionStep, StartStep, RepliesBelowStep, DisjointStep,
   GrantsBelowStep, HeldBelowStep, AlignedStep, PutNeededStep,
   IssueCoveredStep, CounterNearStep
   DEF IInv

(* ... so it holds for ever. *)
LEMMA Invariant == Spec => []IInv
BY InvInit, InvStep, PTL DEF Spec

(* Two responses never share an id of a user, however requests of several  *)
(* users interleave, fail and are cut off (idgen_server.cc:42-61).         *)
THEOREM Disjoint == Spec => []RepliesDisjoint
BY Invariant, PTL DEF IInv

(* No Put ever moves the reserved end of a user down (idgen.cc:61-69).     *)
THEOREM Reserved == Spec => ReservationNeverShrinks
<1>1. ASSUME IInv, [Next]_vars, NEW u \in Users PROVE db'[u] >= db[u]
  <2>0. db[u] \in Nat
      BY <1>1, GrantTypes DEF IInv
  <2>1. ASSUME NEW t \in Threads, Put(t), User(t) = u PROVE db'[u] >= db[u]
    <3>1. db[u] <= BlockEnd(cache[u])
        BY <1>1, <2>1 DEF IInv, PutNeeded, Put
    <3>2. BlockEnd(cache[u]) <= db'[u] /\ BlockEnd(cache[u]) \in Nat /\ db'[u] \in Nat
        BY <1>1, <2>1, PutFacts DEF IInv
    <3> QED  BY <2>0, <3>1, <3>2
  <2>2. CASE db'[u] = db[u]
      BY <2>0, <2>2
  <2>3. ASSUME NEW t \in Threads, Receive(t) \/ Step(t), ~(Put(t) /\ User(t) = u)
        PROVE  db'[u] = db[u]
      BY <1>1, <2>3 DEF IInv, TypeOK, Receive, Step, Load, GetFails, PutFails,
                        Fail, Put, Start, Issue, Reply
  <2> QED  BY <1>1, <2>1, <2>2, <2>3 DEF Next, Crash, vars
<1>2. IInv /\ [Next]_vars => [\A u \in Users : db'[u] >= db[u]]_vars
    BY <1>1
<1> QED  BY <1>2, Invariant, PTL DEF Spec, ReservationNeverShrinks

(* An id is issued above LevelDB's value in one case only: the counter sat *)
(* on the end of the reserved block (idgen.cc:61).                         *)
THEOREM CoverLost == Spec => CoverLostOnlyAtBlockEnd
<1>1. ASSUME IInv, [Next]_vars, NEW u \in Users,
             cache[u] <= db[u], cache'[u] > db'[u]
      PROVE  cache[u] = db[u] /\ cache[u] # 0
  <2>0. cache[u] \in Nat /\ db[u] \in Nat
      BY <1>1, GrantTypes DEF IInv
  <2>1. PICK t \in Threads : Receive(t) \/ Step(t)
    <3>1. ~Crash
      <4>1. ASSUME Crash PROVE cache'[u] = 0 /\ db'[u] = db[u]
          BY <4>1 DEF Crash
      <4> QED  BY <1>1, <2>0, <4>1
    <3>2. ~UNCHANGED vars
        BY <1>1, <2>0 DEF vars
    <3> QED  BY <1>1, <3>1, <3>2 DEF Next
  <2>2. ~(Put(t) /\ User(t) = u)
    <3>1. ASSUME Put(t), User(t) = u PROVE cache'[u] <= db'[u]
      <4>1. cache[u] + Need(t) <= db'[u] /\ cache[u] + Need(t) \in Nat
            /\ Need(t) \in Nat /\ db'[u] \in Nat
          BY <1>1, <3>1, PutFacts DEF IInv
      <4>2. cache' = cache
          BY <3>1 DEF Put
      <4> QED  BY <2>0, <4>1, <4>2
    <3>2. db'[u] \in Nat /\ cache'[u] \in Nat
        BY <1>1, TypeStep, GrantTypes DEF IInv, TypeOK
    <3> QED  BY <1>1, <3>1, <3>2
  <2>3. Issue(t) /\ User(t) = u
    <3>1. TypeOK
        BY <1>1 DEF IInv
    <3> QED  BY <1>1, <2>0, <2>1, <2>2, <3>1, UserChange
  <2>4. /\ cache'[u] = cache[u] + Need(t) /\ Need(t) \in Nat /\ db' = db
        /\ cache[u] + Need(t) \in Nat
      BY <1>1, <2>3, IssueFacts DEF IInv, Issue
  <2>5. cache[u] # 0 /\ ~Exceeds(cache[u], Need(t))
      BY <1>1, <2>0, <2>3, <2>4 DEF IInv, IssueCovered, Issue
  <2>6. PICK k \in Nat : db[u] = k * BlockSize
      BY <1>1 DEF IInv, DbAligned
  <2>7. ~(cache[u] < db[u])
      BY <1>1, <2>0, <2>4, <2>5, <2>6, BlockRoom
  <2> QED  BY <1>1, <2>0, <2>5, <2>7
<1>2. IInv /\ [Next]_vars =>
        [\A u \in Users :
            cache[u] <= db[u] /\ cache'[u] > db'[u]
               => cache[u] = db[u] /\ cache[u] # 0]_vars
    BY <1>1
<1> QED  BY <1>2, Invariant, PTL DEF Spec, CoverLostOnlyAtBlockEnd

(* The service is the allocator its callers count on: every range it hands *)
(* out is above all earlier ones of that user, unless a restart caught the *)
(* user's counter above LevelDB (README.md:26, idgen.cc:43-77).            *)
THEOREM Implements == Spec => IncreasesForEver
<1>1. Init => Allocator!Init
    BY DEF Init, Allocator!Init
<1>2. ASSUME IInv, Crash PROVE Allocator!Restart
  <2>1. exposed \in SUBSET Users
      BY <1>2 DEF IInv, TypeOK
  <2> QED  BY <1>2, <2>1 DEF Crash, Allocator!Restart
<1>3. ASSUME IInv, NEW t \in Threads, Issue(t)
      PROVE  \E u \in Users : Allocator!Allocate(u)
  <2> DEFINE u == User(t)
  <2>1. u \in Users /\ Need(t) \in Nat \ {0} /\ cache[u] \in Nat
        /\ grant' = [grant EXCEPT ![u] =
                      [nth |-> grant[u].nth + 1, first |-> cache[u] + 1,
                       last |-> cache[u] + Need(t)]]
      BY <1>3, ItemOK, GrantTypes, IssueFacts DEF IInv, Issue
  <2>2. grant \in [Users -> [nth : Nat, first : Nat, last : Nat]]
      BY <1>3 DEF IInv, TypeOK
  <2> HIDE DEF u
  <2>3. /\ grant'[u].nth = grant[u].nth + 1
        /\ grant'[u].first = cache[u] + 1
        /\ grant'[u].last = cache[u] + Need(t)
        /\ grant' = [grant EXCEPT ![u] = grant'[u]]
      BY <2>1, <2>2
  <2>4. grant[u].last \in Nat /\ (u \in exposed \/ grant[u].last <= cache[u])
      BY <1>3, <2>1, <2>2 DEF IInv, HeldBelow, InSection, Issue, u
  <2>5. Allocator!Allocate(u)
    <3>1. grant'[u].last >= grant'[u].first
          /\ (u \in exposed \/ grant'[u].first > grant[u].last)
        BY <2>1, <2>3, <2>4
    <3>2. exposed' = exposed
        BY <1>3 DEF Issue
    <3> QED  BY <2>3, <3>1, <3>2 DEF Allocator!Allocate
  <2> QED  BY <2>1, <2>5
<1>4. ASSUME NEW t \in Threads, Receive(t) \/ Step(t), ~Issue(t)
      PROVE  UNCHANGED <<grant, exposed>>
    BY <1>4 DEF Receive, Step, Load, GetFails, PutFails, Fail, Put, Start, Reply
<1>5. IInv /\ [Next]_vars => [Allocator!Next]_(Allocator!vars)
    BY <1>2, <1>3, <1>4 DEF Next, vars, Allocator!Next, Allocator!vars
<1> QED  BY <1>1, <1>5, Invariant, PTL
         DEF Spec, IncreasesForEver, Allocator!Spec
================================================================================
