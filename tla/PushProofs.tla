------------------------------- MODULE PushProofs ------------------------------
(***************************************************************************)
(* Proofs about Push.                                                      *)
(***************************************************************************)
EXTENDS Push, FiniteSetTheorems, WellFoundedInduction, SequenceTheorems, TLAPS

(* Every nonempty set of numbers has a least one. *)
LEMMA Least ==
    ASSUME NEW S, S \subseteq Nat, S # {}
    PROVE  \E i \in S : \A k \in S : i <= k
<1>1. \E i \in S : \A k \in S : <<k, i>> \notin OpToRel(<, Nat)
    BY NatLessThanWellFounded, WFMin
<1>2. PICK i \in S : \A k \in S : <<k, i>> \notin OpToRel(<, Nat)
    BY <1>1
<1>3. ASSUME NEW k \in S PROVE i <= k
  <2>1. <<k, i>> \in Nat \X Nat /\ ~(k < i)
      BY <1>2 DEF OpToRel
  <2> QED BY <2>1
<1> QED  BY <1>3

(* The sessions of a list of peers. *)
Founds == Seq(Servers \union {NoServer})

LEMMA SessionPlaces ==
    ASSUME NEW found \in Founds
    PROVE  /\ HasSession(found) \subseteq 1 .. Len(found)
           /\ IsFiniteSet(HasSession(found))
           /\ \A i \in HasSession(found) :
                 found[i] \in Servers /\ Place(found, i) \in 1 .. Cardinality(HasSession(found))
<1>1. DOMAIN found = 1 .. Len(found) /\ Len(found) \in Nat
    BY DEF Founds
<1>2. HasSession(found) \subseteq 1 .. Len(found)
    BY <1>1 DEF HasSession
<1>3. IsFiniteSet(HasSession(found))
  <2>1. IsFiniteSet(1 .. Len(found))
      BY <1>1, FS_Interval
  <2> QED  BY <1>2, <2>1, FS_Subset
<1>4. ASSUME NEW i \in HasSession(found)
      PROVE  found[i] \in Servers /\ Place(found, i) \in 1 .. Cardinality(HasSession(found))
  <2> DEFINE upTo == {k \in HasSession(found) : k <= i}
  <2>1. found[i] \in Servers
      BY <1>1 DEF HasSession, Founds
  <2>2. IsFiniteSet(upTo) /\ Cardinality(upTo) <= Cardinality(HasSession(found))
      BY <1>3, FS_Subset
  <2>3. Cardinality(upTo) \in Nat /\ Cardinality(HasSession(found)) \in Nat
      BY <1>3, <2>2, FS_CardinalityType
  <2>4. i \in upTo
      BY <1>2
  <2>5. Cardinality(upTo) # 0
      BY <2>2, <2>4, FS_EmptySet
  <2> QED  BY <2>1, <2>2, <2>3, <2>5 DEF Place
<1> QED  BY <1>2, <1>3, <1>4

(* Peers at different places have different channels. *)
LEMMA PlacesDiffer ==
    ASSUME NEW found \in Founds, NEW i \in HasSession(found), NEW k \in HasSession(found),
           i < k
    PROVE  Place(found, i) # Place(found, k)
<1> DEFINE upTo(n) == {l \in HasSession(found) : l <= n}
<1>1. HasSession(found) \subseteq Nat /\ IsFiniteSet(HasSession(found))
    BY SessionPlaces DEF Founds
<1>2. IsFiniteSet(upTo(k))
    BY <1>1, FS_Subset
<1>3. upTo(i) \in SUBSET upTo(k) /\ k \in upTo(k) \ upTo(i)
    BY <1>1
<1>4. Cardinality(upTo(i)) # Cardinality(upTo(k))
    BY <1>2, <1>3, FS_Subset
<1> QED  BY <1>4 DEF Place

(* The two indices of SendtoPeers agree: the channel it takes for peer i   *)
(* is the one of i's own session, whoever of the peers before i has none   *)
(* (logic_service.cc:287-308, 334-337).                                    *)
THEOREM ChannelIsSession ==
    ASSUME NEW found \in Founds, NEW i \in HasSession(found)
    PROVE  /\ Place(found, i) \in DOMAIN ChannelVec(found)
           /\ ChannelVec(found)[Place(found, i)] = found[i]
<1>1. Place(found, i) \in 1 .. Cardinality(HasSession(found))
    BY SessionPlaces
<1>2. ASSUME NEW k \in HasSession(found), Place(found, k) = Place(found, i)
      PROVE  k = i
  <2>1. i \in Nat /\ k \in Nat
      BY SessionPlaces DEF Founds
  <2> QED  BY <1>2, <2>1, PlacesDiffer
<1>3. (CHOOSE k \in HasSession(found) : Place(found, k) = Place(found, i)) = i
    BY <1>2
<1> QED  BY <1>1, <1>3 DEF ChannelVec

(* The next peer with a session is one; without it there is none.          *)
LEMMA NextPeerIs ==
    ASSUME NEW found \in Founds, NEW n \in Nat
    PROVE  \/ NextPeer(found, n) = 0
           \/ NextPeer(found, n) \in HasSession(found) /\ NextPeer(found, n) >= n
<1> DEFINE rest == {i \in HasSession(found) : i >= n}
<1>1. CASE rest = {}
    BY <1>1 DEF NextPeer
<1>2. CASE rest # {}
  <2>1. rest \subseteq Nat
      BY SessionPlaces DEF Founds
  <2>2. \E i \in rest : \A k \in rest : i <= k
      BY <1>2, <2>1, Least
  <2>3. NextPeer(found, n) \in rest
      BY <1>2, <2>2 DEF NextPeer
  <2> QED  BY <2>3
<1> QED  BY <1>1, <1>2
--------------------------------------------------------------------------------
(* The requests and answers, by kind. *)
SignIns == [kind : {"signin"}, server : Servers, user : Users, run : Nat]
Pulls   == [kind : {"pull"}, server : Servers, user : Users, call : Nat]
Pushes  == [kind : {"push"}, server : Servers, user : Users, msg : Messages, id : Nat]
Answers == [kind : {"answer"}, user : Users, call : Nat, ok : BOOLEAN, got : SUBSET Seen]
Calls   == SignIns \union Pulls \union Pushes \union Answers

Programs == [stage : {"off", "signin", "fetch", "poll", "waiting"},
             server : Servers \union {NoServer}, run : Nat, call : Nat]
Tasks    == [stage : {"new", "lookup", "send", "done"}, found : Founds, next : Nat]

(* TypeOK with these names. *)
Types ==
    /\ session \in [Users -> Servers \union {NoServer}]
    /\ rows \subseteq [user : Users, msg : Messages, id : Nat]
    /\ task \in [Messages -> Tasks]
    /\ table \in [Servers -> [Users -> Nat]]
    /\ client \in [Users -> Programs]
    /\ seen \in [Users -> SUBSET Seen]
    /\ net \subseteq Calls
    /\ starts \in 0 .. MaxStarts
    /\ faults \in 0 .. MaxFaults

(* A bthread that sends has a peer to send to, and a client that runs has  *)
(* a server.                                                               *)
SendGoesOn ==
    \A m \in Messages : task[m].stage = "send" =>
        /\ Len(task[m].found) = Len(Peers[m])
        /\ NextPeer(task[m].found, task[m].next) # 0

ServerKnown == \A u \in Users : client[u].stage # "off" => client[u].server \in Servers

Typed == Types /\ SendGoesOn /\ ServerKnown

(* A request has the fields of its kind. *)
LEMMA KindOf ==
    ASSUME NEW x \in Calls
    PROVE  /\ x.kind = "signin" => x \in SignIns
           /\ x.kind = "pull" => x \in Pulls
           /\ x.kind = "push" => x \in Pushes
           /\ x.kind = "answer" => x \in Answers
           /\ x.user \in Users
BY DEF Calls, SignIns, Pulls, Pushes, Answers

LEMMA TypesIs == TypeOK <=> Types
BY DEF TypeOK, Types, Tasks, Founds, Programs, Calls, SignIns, Pulls, Pushes, Answers

LEMMA Bounds ==
    /\ MaxStarts \in Nat /\ MaxFaults \in Nat /\ NoServer \notin Servers
    /\ \A m \in Messages : Peers[m] \in Seq(Users)
    /\ \A m \in Messages : \A i \in DOMAIN Peers[m] : MsgIds[m][i] \in Nat
<1>1. MaxStarts \in Nat /\ MaxFaults \in Nat /\ NoServer \notin Servers
    BY PushAssumption
<1>2. Peers \in [Messages -> Seq(Users)]
    BY PushAssumption
<1>3. \A m \in Messages : MsgIds[m] \in [DOMAIN Peers[m] -> Nat]
    BY PushAssumption
<1> QED  BY <1>1, <1>2, <1>3

LEMMA FaultTypes ==
    ASSUME Types, faults' = faults \/ Fault
    PROVE  faults' \in 0 .. MaxFaults
BY Bounds DEF Types, Fault

LEMMA RunClosureTypes ==
    ASSUME Types, NEW u \in Users, NEW k \in Nat, NEW ok \in BOOLEAN, NEW got \in SUBSET Seen
    PROVE  RunClosure(u, k, ok, got) \subseteq Calls
<1>1. Answer(u, k, ok, got) \in Answers
    BY DEF Answer, Answers
<1> QED  BY <1>1 DEF RunClosure, Calls

LEMMA InitTyped == Init => Typed
<1> SUFFICES ASSUME Init PROVE Typed
    OBVIOUS
<1> USE PushAssumption DEF Init
<1>1. Idle("new") \in Tasks
    BY DEF Idle, Tasks, Founds
<1>2. Types
    BY <1>1 DEF Types, Programs
<1>3. SendGoesOn /\ ServerKnown
    BY DEF SendGoesOn, ServerKnown, Idle
<1> QED  BY <1>2, <1>3 DEF Typed

(* Where a bthread goes on. *)
LEMMA GoOnTypes ==
    ASSUME NEW m \in Messages, NEW t \in Tasks, Len(t.found) = Len(Peers[m]), NEW n \in Nat
    PROVE  /\ GoOn(t, n) \in Tasks
           /\ GoOn(t, n).found \in {t.found, << >>}
           /\ GoOn(t, n).stage = "send" =>
                 /\ Len(GoOn(t, n).found) = Len(Peers[m])
                 /\ NextPeer(GoOn(t, n).found, GoOn(t, n).next) # 0
<1>1. CASE NextPeer(t.found, n) = 0
    BY <1>1 DEF GoOn, Idle, Tasks, Founds
<1>2. CASE NextPeer(t.found, n) # 0
  <2>1. GoOn(t, n) = [t EXCEPT !.stage = "send", !.next = n]
      BY <1>2 DEF GoOn
  <2>2. /\ GoOn(t, n).found = t.found /\ GoOn(t, n).next = n
        /\ GoOn(t, n) \in Tasks
      BY <2>1 DEF Tasks
  <2> QED  BY <1>2, <2>2
<1> QED  BY <1>1, <1>2

(* What SendtoAccess does. *)
LEMMA Pushed ==
    ASSUME Types, NEW x \in net, SendtoAccess(x)
    PROVE  /\ x \in Pushes
           /\ table[x.server][x.user] \in Nat
           /\ [msg |-> x.msg, id |-> x.id] \in Seen
           /\ table' = IF table[x.server][x.user] = 0 THEN table
                       ELSE [table EXCEPT ![x.server][x.user] = 0]
           /\ faults' = faults \/ Fault
           /\ \E keep \in {{}, {x}} :
                 net' = (net \ {x}) \union keep \union
                          RunClosure(x.user, table[x.server][x.user], TRUE,
                                     {[msg |-> x.msg, id |-> x.id]})
<1>1. x \in Pushes
    BY KindOf DEF SendtoAccess, Types
<1>2. table[x.server][x.user] \in Nat /\ [msg |-> x.msg, id |-> x.id] \in Seen
    BY <1>1 DEF Types, Pushes, Seen
<1>3. table' = IF table[x.server][x.user] = 0 THEN table
               ELSE [table EXCEPT ![x.server][x.user] = 0]
    BY DEF SendtoAccess, ClosureTaken
<1> QED  BY <1>1, <1>2, <1>3 DEF SendtoAccess

LEMMA StartTyped ==
    ASSUME Typed, NEW u \in Users, Start(u)
    PROVE  Typed'
<1>0. Types /\ SendGoesOn /\ ServerKnown
    BY DEF Typed
<1> PICK s \in Servers :
        /\ client' = [client EXCEPT ![u].stage = "signin", ![u].server = s,
                                    ![u].run = @ + 1]
        /\ net' = net \union {SignInReq(s, u, client[u].run + 1)}
    BY DEF Start
<1>1. SignInReq(s, u, client[u].run + 1) \in SignIns
    BY <1>0 DEF Types, Programs, SignInReq, SignIns
<1>2. client' \in [Users -> Programs]
    BY <1>0 DEF Types, Programs
<1>3. starts' \in 0 .. MaxStarts
    BY <1>0, Bounds DEF Start, Types
<1>4. Types'
    BY <1>0, <1>1, <1>2, <1>3 DEF Start, Types, Calls
<1>5. ServerKnown'
    BY <1>0 DEF ServerKnown, Types, Programs
<1>8. SendGoesOn'
    BY <1>0 DEF Start, SendGoesOn
<1> QED  BY <1>4, <1>5, <1>8 DEF Typed

LEMMA QuitTyped ==
    ASSUME Typed, NEW u \in Users, Quit(u) \/ ConnectionBreaks(u)
    PROVE  Typed'
<1>0. Types /\ SendGoesOn /\ ServerKnown
    BY DEF Typed
<1> PICK st \in {"off", "poll"} : client' = [client EXCEPT ![u].stage = st]
    BY DEF Quit, ConnectionBreaks, AfterFailure
<1>1. /\ client[u].stage # "off"
      /\ net' = Unanswered(u)
      /\ seen' = seen \/ seen' = [seen EXCEPT ![u] = {}]
      /\ UNCHANGED <<session, rows, task, table, starts>>
    BY DEF Quit, ConnectionBreaks, AfterFailure
<1>2. faults' \in 0 .. MaxFaults
    BY <1>0, FaultTypes DEF Quit, ConnectionBreaks
<1>3. client' \in [Users -> Programs]
    BY <1>0 DEF Types, Programs
<1>4. Types'
    BY <1>0, <1>1, <1>2, <1>3 DEF Types, Unanswered
<1>5. ServerKnown'
    BY <1>0, <1>1 DEF ServerKnown, Types, Programs
<1>7. SendGoesOn'
    BY <1>0, <1>1 DEF SendGoesOn
<1> QED  BY <1>4, <1>5, <1>7 DEF Typed

LEMMA GetMsgsTyped ==
    ASSUME Typed, NEW u \in Users, GetMsgs(u)
    PROVE  Typed'
<1>0. Types /\ SendGoesOn /\ ServerKnown
    BY DEF Typed
<1>1. {[msg |-> r.msg, id |-> r.id] : r \in FetchedRange(u)} \subseteq Seen
    BY <1>0 DEF FetchedRange, Types, Seen
<1>2. client' \in [Users -> Programs]
    BY <1>0 DEF GetMsgs, Types, Programs
<1>3. Types'
    BY <1>0, <1>1, <1>2 DEF GetMsgs, Types
<1>4. ServerKnown'
    BY <1>0 DEF GetMsgs, ServerKnown, Types, Programs
<1>6. SendGoesOn'
    BY <1>0 DEF GetMsgs, SendGoesOn
<1> QED  BY <1>3, <1>4, <1>6 DEF Typed

LEMMA PullDataTyped ==
    ASSUME Typed, NEW u \in Users, PullData(u)
    PROVE  Typed'
<1>0. Types /\ SendGoesOn /\ ServerKnown
    BY DEF Typed
<1>1. PullReq(client[u].server, u, client[u].call + 1) \in Pulls
    BY <1>0 DEF PullData, ServerKnown, Types, Programs, PullReq, Pulls
<1>2. client' \in [Users -> Programs]
    BY <1>0 DEF PullData, Types, Programs
<1>3. Types'
    BY <1>0, <1>1, <1>2 DEF PullData, Types, Calls
<1>4. ServerKnown'
    BY <1>0 DEF PullData, ServerKnown, Types, Programs
<1>6. SendGoesOn'
    BY <1>0 DEF PullData, SendGoesOn
<1> QED  BY <1>3, <1>4, <1>6 DEF Typed

LEMMA SignInTyped ==
    ASSUME Typed, NEW x \in net, SignIn(x)
    PROVE  Typed'
<1>0. Types /\ SendGoesOn /\ ServerKnown
    BY DEF Typed
<1>1. x \in SignIns
    BY <1>0, KindOf DEF SignIn, Types
<1>2. session' \in [Users -> Servers \union {NoServer}]
    BY <1>0, <1>1 DEF SignIn, SavedSession, Types, SignIns
<1>3. /\ client' \in [Users -> Programs]
      /\ \A u \in Users : /\ client'[u].server = client[u].server
                          /\ client'[u].stage # client[u].stage => client[u].stage = "signin"
                          /\ client'[u].call = client[u].call
  <2>1. CASE client' = client
      BY <1>0, <2>1 DEF Types
  <2>2. CASE client[x.user].stage = "signin" /\ client' = [client EXCEPT ![x.user].stage = "fetch"]
      BY <1>0, <1>1, <2>2 DEF Types, SignIns, Programs
  <2> QED  BY <2>1, <2>2 DEF SignIn
<1>4. Types'
    BY <1>0, <1>2, <1>3 DEF SignIn, Types
<1>5. ServerKnown'
    BY <1>0, <1>3 DEF ServerKnown
<1>7. SendGoesOn'
    BY <1>0 DEF SignIn, SendGoesOn
<1> QED  BY <1>4, <1>5, <1>7 DEF Typed

LEMMA PushClosureTyped ==
    ASSUME Typed, NEW x \in net, PushClosureAndReply(x)
    PROVE  Typed'
<1>0. Types /\ SendGoesOn /\ ServerKnown
    BY DEF Typed
<1>1. x \in Pulls
    BY <1>0, KindOf DEF PushClosureAndReply, Types
<1>2. table[x.server][x.user] \in Nat
    BY <1>0, <1>1 DEF Types, Pulls
<1>3. Replaced(x.server, x.user) \subseteq Calls
    BY <1>0, <1>1, <1>2, RunClosureTypes DEF Replaced, Pulls
<1>4. table' \in [Servers -> [Users -> Nat]]
    BY <1>0, <1>1 DEF PushClosureAndReply, Pulls, Types
<1>5. Types'
    BY <1>0, <1>3, <1>4 DEF PushClosureAndReply, Types
<1>7. SendGoesOn' /\ ServerKnown'
    BY <1>0 DEF PushClosureAndReply, SendGoesOn, ServerKnown
<1> QED  BY <1>5, <1>7 DEF Typed

LEMMA SendtoAccessTyped ==
    ASSUME Typed, NEW x \in net, SendtoAccess(x)
    PROVE  Typed'
<1> DEFINE k == table[x.server][x.user]
           got == {[msg |-> x.msg, id |-> x.id]}
<1>0. Types /\ SendGoesOn /\ ServerKnown
    BY DEF Typed
<1>1. x \in Pushes /\ k \in Nat /\ got \in SUBSET Seen /\ x.user \in Users
    BY <1>0, Pushed DEF Pushes
<1>2. RunClosure(x.user, k, TRUE, got) \subseteq Calls
    BY <1>0, <1>1, RunClosureTypes
<1>3. table' \in [Servers -> [Users -> Nat]]
  <2>1. CASE k = 0
      BY <1>0, <2>1, Pushed DEF Types
  <2>2. CASE k # 0
    <3>1. table' = [table EXCEPT ![x.server][x.user] = 0]
        BY <1>0, <2>2, Pushed
    <3> QED  BY <1>0, <1>1, <3>1 DEF Pushes, Types
  <2> QED  BY <2>1, <2>2
<1>4. \A y \in net' : y \in net \/ y \in RunClosure(x.user, k, TRUE, got)
    BY <1>0, Pushed
<1>5. faults' \in 0 .. MaxFaults
    BY <1>0, Pushed, FaultTypes
<1>6. Types'
    BY <1>0, <1>2, <1>3, <1>4, <1>5 DEF SendtoAccess, Types
<1>8. SendGoesOn' /\ ServerKnown'
    BY <1>0 DEF SendtoAccess, SendGoesOn, ServerKnown
<1> QED  BY <1>6, <1>8 DEF Typed

(* What PullDataReturns does. *)
LEMMA Returned ==
    ASSUME Types, NEW x \in net, PullDataReturns(x)
    PROVE  /\ x \in Answers
           /\ client' = [client EXCEPT ![x.user].stage = "poll"]
           /\ net' = net \ {x}
           /\ seen' = [seen EXCEPT ![x.user] = @ \union x.got]
<1>1. x \in Answers
    BY KindOf DEF PullDataReturns, Types
<1>2. (IF x.ok THEN "poll" ELSE AfterFailure) = "poll"
    BY DEF AfterFailure
<1> QED  BY <1>1, <1>2 DEF PullDataReturns

LEMMA PullDataReturnsTyped ==
    ASSUME Typed, NEW x \in net, PullDataReturns(x), client[x.user].stage = "waiting"
    PROVE  Typed'
<1>0. Types /\ SendGoesOn /\ ServerKnown
    BY DEF Typed
<1>1. x \in Answers /\ client' = [client EXCEPT ![x.user].stage = "poll"]
    BY <1>0, Returned
<1>2. client' \in [Users -> Programs]
  <2>1. x.user \in Users /\ client[x.user] \in Programs
      BY <1>0, <1>1 DEF Types, Answers
  <2>2. [client[x.user] EXCEPT !.stage = "poll"] \in Programs
      BY <2>1 DEF Programs
  <2> QED  BY <1>0, <1>1, <2>1, <2>2 DEF Types
<1>3. Types'
    BY <1>0, <1>2, Returned DEF PullDataReturns, Types, Answers
<1>4. ServerKnown'
    BY <1>0, <1>1 DEF ServerKnown, Types, Programs, Answers
<1>5. SendGoesOn'
    BY <1>0 DEF PullDataReturns, SendGoesOn
<1> QED  BY <1>3, <1>4, <1>5 DEF Typed

LEMMA ClearTyped ==
    ASSUME Typed, NEW s \in Servers, NEW u \in Users, ClearUserData(s, u)
    PROVE  Typed'
<1>0. Types /\ SendGoesOn /\ ServerKnown
    BY DEF Typed
<1>1. RunClosure(u, table[s][u], FALSE, {}) \subseteq Calls
    BY <1>0, RunClosureTypes DEF Types
<1>2. Types'
    BY <1>0, <1>1, FaultTypes DEF ClearUserData, Types
<1>3. ServerKnown' /\ SendGoesOn'
    BY <1>0 DEF ClearUserData, ServerKnown, SendGoesOn
<1> QED  BY <1>2, <1>3 DEF Typed

(* What a restart does to a client. *)
LEMMA Restarted ==
    ASSUME Types, NEW s \in Servers, Restart(s)
    PROVE  /\ client' \in [Users -> Programs]
           /\ \A u \in Users :
                 /\ client'[u].server = client[u].server
                 /\ client'[u].run = client[u].run /\ client'[u].call = client[u].call
                 /\ client[u].server # s => client'[u] = client[u]
                 /\ client'[u].stage =
                      IF client[u].server # s THEN client[u].stage
                      ELSE IF client[u].stage = "waiting" THEN "poll"
                      ELSE IF client[u].stage = "signin" THEN "off"
                      ELSE client[u].stage
<1> DEFINE after(u) == IF client[u].server # s THEN client[u]
                       ELSE IF client[u].stage = "waiting"
                            THEN [client[u] EXCEPT !.stage = AfterFailure]
                       ELSE IF client[u].stage = "signin"
                            THEN [client[u] EXCEPT !.stage = "off"]
                       ELSE client[u]
<1>1. client' = [u \in Users |-> after(u)]
    BY DEF Restart
<1> SUFFICES ASSUME NEW u \in Users
             PROVE  /\ after(u) \in Programs
                    /\ after(u).server = client[u].server
                    /\ after(u).run = client[u].run /\ after(u).call = client[u].call
                    /\ client[u].server # s => after(u) = client[u]
                    /\ after(u).stage =
                         IF client[u].server # s THEN client[u].stage
                         ELSE IF client[u].stage = "waiting" THEN "poll"
                         ELSE IF client[u].stage = "signin" THEN "off"
                         ELSE client[u].stage
    BY <1>1, Zenon
<1>2. client[u] \in Programs
    BY DEF Types
<1> QED  BY <1>2 DEF Programs, AfterFailure

LEMMA RestartTyped ==
    ASSUME Typed, NEW s \in Servers, Restart(s)
    PROVE  Typed'
<1>0. Types /\ SendGoesOn /\ ServerKnown
    BY DEF Typed
<1>1. table' \in [Servers -> [Users -> Nat]] /\ net' \subseteq Calls
    BY <1>0 DEF Restart, Types
<1>2. Types'
    BY <1>0, <1>1, Restarted, FaultTypes DEF Restart, Types
<1>3. ServerKnown'
    BY <1>0, Restarted DEF ServerKnown
<1>4. SendGoesOn'
    BY <1>0 DEF Restart, SendGoesOn
<1> QED  BY <1>2, <1>3, <1>4 DEF Typed

LEMMA ExpireTyped ==
    ASSUME Typed, (\E u \in Users : Expire(u)) \/ (\E x \in net : PushLost(x))
    PROVE  Typed'
<1>0. Types /\ SendGoesOn /\ ServerKnown
    BY DEF Typed
<1>1. Types'
    BY <1>0, FaultTypes DEF Expire, PushLost, Types
<1>2. ServerKnown' /\ SendGoesOn'
    BY <1>0 DEF Expire, PushLost, ServerKnown, SendGoesOn
<1> QED  BY <1>1, <1>2 DEF Typed

(* The rows of a message are rows of its peers.  *)
LEMMA RowsTypes ==
    ASSUME NEW m \in Messages
    PROVE  Rows(m) \subseteq [user : Users, msg : Messages, id : Nat]
BY Bounds DEF Rows

LEMMA TaskTyped ==
    ASSUME Typed, NEW m \in Messages,
           Save(m) \/ GetSessions(m) \/ GetSessionsFails(m) \/ SendtoPeer(m)
    PROVE  Typed'
<1>0. Types /\ SendGoesOn /\ ServerKnown
    BY DEF Typed
<1>1. ASSUME NEW t \in Tasks, task' = [task EXCEPT ![m] = t],
             t.stage = "send" => Len(t.found) = Len(Peers[m]) /\ NextPeer(t.found, t.next) # 0
      PROVE  task' \in [Messages -> Tasks] /\ SendGoesOn'
    BY <1>0, <1>1 DEF Types, SendGoesOn
<1>2. ServerKnown'
    BY <1>0 DEF Save, GetSessions, GetSessionsFails, SendtoPeer, ServerKnown
<1>3. Idle("done") \in Tasks /\ Idle("done").stage # "send"
    BY DEF Idle, Tasks, Founds
<1>4. CASE Save(m)
  <2>1. ASSUME task' = [task EXCEPT ![m].stage = "lookup"]
        PROVE  task' \in [Messages -> Tasks] /\ SendGoesOn'
    <3>1. task' = [task EXCEPT ![m] = [task[m] EXCEPT !.stage = "lookup"]]
          /\ [task[m] EXCEPT !.stage = "lookup"] \in Tasks
          /\ [task[m] EXCEPT !.stage = "lookup"].stage # "send"
        BY <1>0, <2>1 DEF Types, Tasks
    <3> QED  BY <1>1, <3>1
  <2>2. ASSUME task' = [task EXCEPT ![m] = Idle("done")]
        PROVE  task' \in [Messages -> Tasks] /\ SendGoesOn'
      BY <1>1, <1>3, <2>2
  <2>3. task' \in [Messages -> Tasks] /\ SendGoesOn'
      BY <1>4, <2>1, <2>2 DEF Save
  <2>4. Types'
      BY <1>0, <1>4, <2>3, FaultTypes, RowsTypes DEF Save, Types
  <2> QED  BY <1>2, <2>3, <2>4 DEF Typed
<1>5. CASE GetSessions(m)
  <2> DEFINE t == [task[m] EXCEPT !.found = Sessions(m)]
  <2>1. Sessions(m) \in Founds /\ Len(Sessions(m)) = Len(Peers[m])
    <3>1. Peers[m] \in Seq(Users) /\ DOMAIN Peers[m] = 1 .. Len(Peers[m])
        BY Bounds
    <3>2. Sessions(m) \in [1 .. Len(Peers[m]) -> Servers \union {NoServer}]
        BY <1>0, <3>1 DEF Sessions, Types
    <3>3. Sessions(m) \in Seq(Servers \union {NoServer})
        BY <3>1, <3>2, SeqDef
    <3> QED  BY <3>1, <3>2, <3>3, LenProperties DEF Founds
  <2>2. t \in Tasks /\ t.found = Sessions(m)
      BY <1>0, <2>1 DEF Types, Tasks
  <2>3. task' = [task EXCEPT ![m] = GoOn(t, 1)]
      BY <1>0, <1>5 DEF GetSessions, Types
  <2> HIDE DEF t
  <2>4. task' \in [Messages -> Tasks] /\ SendGoesOn'
      BY <1>1, <2>1, <2>2, <2>3, GoOnTypes
  <2>5. Types'
      BY <1>0, <1>5, <2>4 DEF GetSessions, Types
  <2> QED  BY <1>2, <2>4, <2>5 DEF Typed
<1>6. CASE GetSessionsFails(m)
  <2>1. task' \in [Messages -> Tasks] /\ SendGoesOn'
      BY <1>1, <1>3, <1>6 DEF GetSessionsFails
  <2>2. Types'
      BY <1>0, <1>6, <2>1, FaultTypes DEF GetSessionsFails, Types
  <2> QED  BY <1>2, <2>1, <2>2 DEF Typed
<1>7. CASE SendtoPeer(m)
  <2> DEFINE t == task[m]
             i == NextPeer(t.found, t.next)
             p == PushReq(ChannelVec(t.found)[Channel(m, i)], Peers[m][i], m, MsgIds[m][IdIndex(i, Channel(m, i))])
  <2>1. t \in Tasks /\ Len(t.found) = Len(Peers[m]) /\ i # 0
      BY <1>0, <1>7 DEF SendtoPeer, Types, SendGoesOn
  <2>2. t.found \in Founds /\ t.next \in Nat
      BY <2>1 DEF Tasks
  <2>3. i \in HasSession(t.found)
      BY <2>1, <2>2, NextPeerIs
  <2>4. i \in 1 .. Len(Peers[m]) /\ t.found[i] \in Servers
      BY <2>1, <2>2, <2>3, SessionPlaces
  <2>5. ChannelVec(t.found)[Channel(m, i)] = t.found[i]
      BY <2>2, <2>3, ChannelIsSession DEF Channel
  <2>6. Peers[m][i] \in Users /\ MsgIds[m][i] \in Nat
      BY <2>4, Bounds
  <2>7. p \in Pushes
      BY <2>4, <2>5, <2>6 DEF PushReq, Pushes, IdIndex
  <2>8. task' = [task EXCEPT ![m] = GoOn(t, i + 1)] /\ net' = net \union {p}
      BY <1>7 DEF SendtoPeer
  <2>9. i + 1 \in Nat
      BY <2>4
  <2> HIDE DEF t, i, p
  <2>10. task' \in [Messages -> Tasks] /\ SendGoesOn'
      BY <1>1, <2>1, <2>8, <2>9, GoOnTypes
  <2>11. Types'
      BY <1>0, <1>7, <2>7, <2>8, <2>10 DEF SendtoPeer, Types, Calls
  <2> QED  BY <1>2, <2>10, <2>11 DEF Typed
<1> QED  BY <1>4, <1>5, <1>6, <1>7

--------------------------------------------------------------------------------
(* Where the calls of a user are: none is later than the client's last,    *)
(* an answer is on its way only to a client that waits for this very call, *)
(* and the call a client waits for is in one place, at its own server.     *)
CallOf(x, u) == x.kind \in {"pull", "answer"} /\ x.user = u /\ x.call = client[u].call

CallsBelow(u) ==
    /\ \A x \in net : x.kind \in {"pull", "answer"} /\ x.user = u => x.call <= client[u].call
    /\ \A s \in Servers : table[s][u] <= client[u].call

AnswerAwaited(u) ==
    \A x \in net : x.kind = "answer" /\ x.user = u =>
        client[u].stage = "waiting" /\ x.call = client[u].call

AtHome(u) ==
    /\ \A s \in Servers : table[s][u] = client[u].call => s = client[u].server
    /\ \A x \in net : CallOf(x, u) /\ x.kind = "pull" => x.server = client[u].server

InOnePlace(u) ==
    /\ IF Listening(u) THEN \A x \in net : ~CallOf(x, u)
                       ELSE \E x \in net : CallOf(x, u)
    /\ \A x, y \in net : CallOf(x, u) /\ CallOf(y, u) => x = y

UserInv(u) ==
    /\ CallsBelow(u) /\ AnswerAwaited(u)
    /\ client[u].stage = "waiting" => client[u].call > 0 /\ AtHome(u) /\ InOnePlace(u)

CallsInv == \A u \in Users : UserInv(u)

LEMMA CallsInit == Init => CallsInv
BY DEF Init, CallsInv, UserInv, CallsBelow, AnswerAwaited

(* A step that leaves the user's client alone, and of his calls takes away *)
(* none but old ones.                                                      *)
LEMMA SameCalls ==
    ASSUME Typed, Typed', NEW u \in Users, UserInv(u),
           /\ client'[u].stage = client[u].stage
           /\ client'[u].server = client[u].server
           /\ client'[u].call = client[u].call,
           \A s \in Servers : \/ table'[s][u] = table[s][u]
                              \/ /\ table'[s][u] <= client[u].call
                                 /\ client[u].call \notin {table[s][u], table'[s][u]},
           \A x \in net' : x.kind \in {"pull", "answer"} /\ x.user = u => x \in net,
           \A x \in net : CallOf(x, u) => x \in net'
    PROVE  UserInv(u)'
<1>0. /\ client[u] \in Programs /\ client'[u] \in Programs
      /\ \A s \in Servers : table[s][u] \in Nat
    BY DEF Typed, Types
<1>1. CallsBelow(u)'
    BY <1>0 DEF UserInv, CallsBelow, Programs
<1>2. AnswerAwaited(u)'
    BY DEF UserInv, AnswerAwaited
<1>3. CASE client[u].stage = "waiting"
  <2>1. client[u].call > 0 /\ AtHome(u) /\ InOnePlace(u)
      BY <1>3 DEF UserInv
  <2>2. \A s \in Servers : table'[s][u] = client[u].call <=> table[s][u] = client[u].call
      BY <2>1, <1>0 DEF Programs
  <2>3. \A x : (x \in net' /\ CallOf(x, u)') <=> (x \in net /\ CallOf(x, u))
      BY DEF CallOf
  <2>4. client[u].server \in Servers
      BY <1>3 DEF Typed, ServerKnown
  <2>5. Listening(u)' <=> Listening(u)
      BY <2>2, <2>4 DEF Listening
  <2>6. AtHome(u)'
      BY <2>1, <2>2, <2>3 DEF AtHome
  <2>7. InOnePlace(u)'
      BY <2>1, <2>3, <2>5 DEF InOnePlace
  <2> QED  BY <1>1, <1>2, <2>1, <2>6, <2>7 DEF UserInv
<1> QED  BY <1>1, <1>2, <1>3 DEF UserInv

(* A step after which the user's client does not wait. *)
LEMMA NotWaiting ==
    ASSUME Typed, Typed', NEW u \in Users, UserInv(u),
           client'[u].stage # "waiting", client'[u].call = client[u].call,
           \A s \in Servers : table'[s][u] = table[s][u] \/ table'[s][u] <= client[u].call,
           \A x \in net' : x.kind \in {"pull", "answer"} /\ x.user = u =>
                               x.kind = "pull" /\ x \in net
    PROVE  UserInv(u)'
<1>0. /\ client[u] \in Programs /\ client'[u] \in Programs
      /\ \A s \in Servers : table[s][u] \in Nat
    BY DEF Typed, Types
<1>1. CallsBelow(u)'
    BY <1>0 DEF UserInv, CallsBelow, Programs
<1>2. AnswerAwaited(u)'
    BY DEF UserInv, AnswerAwaited
<1> QED  BY <1>1, <1>2 DEF UserInv

(* Whoever takes a closure out of the table answers its call. *)
LEMMA TakenIsAnswered ==
    ASSUME Typed, Typed', NEW s \in Servers, NEW u \in Users, UserInv(u),
           UNCHANGED client, NEW ok, NEW got,
           table' = [table EXCEPT ![s][u] = 0] \/ (table[s][u] = 0 /\ UNCHANGED table),
           \A x : x.kind \in {"pull", "answer"} /\ x.user = u =>
              (x \in net' <=> x \in net \/ x \in RunClosure(u, table[s][u], ok, got))
    PROVE  UserInv(u)'
<1> DEFINE k == table[s][u]
<1>0. /\ client[u] \in Programs
      /\ table \in [Servers -> [Users -> Nat]]
      /\ \A t \in Servers : table[t][u] \in Nat
      /\ \A t \in Servers \ {s} : table'[t][u] = table[t][u]
      /\ table'[s][u] = 0
    BY DEF Typed, Types
<1>1. CASE client[u].stage = "waiting" /\ client[u].call = k
  <2> DEFINE a == Answer(u, k, ok, got)
  <2>1. RunClosure(u, k, ok, got) = {a}
      BY <1>1 DEF RunClosure
  <2>2. a.kind = "answer" /\ a.user = u /\ a.call = k
      BY DEF Answer
  <2>3. client[u].call > 0 /\ AtHome(u) /\ InOnePlace(u)
      BY <1>1 DEF UserInv
  <2>4. s = client[u].server
      BY <1>1, <2>3 DEF AtHome
  <2>5. \A x \in net : ~CallOf(x, u)
      BY <1>1, <2>3, <2>4 DEF InOnePlace, Listening
  <2> HIDE DEF a, k
  <2>6. \A x : (x \in net' /\ CallOf(x, u)') <=> x = a
      BY <1>1, <2>1, <2>2, <2>5 DEF CallOf, k
  <2>7. CallsBelow(u)'
      BY <1>0, <1>1, <2>1, <2>2 DEF UserInv, CallsBelow, Programs, k
  <2>8. AnswerAwaited(u)'
      BY <1>1, <2>1, <2>2 DEF UserInv, AnswerAwaited, k
  <2>9. ~Listening(u)'
      BY <1>0, <2>3, <2>4 DEF Listening
  <2>10. AtHome(u)'
      BY <1>0, <2>2, <2>3, <2>6 DEF AtHome
  <2>11. InOnePlace(u)'
      BY <2>6, <2>9 DEF InOnePlace
  <2> QED  BY <2>3, <2>7, <2>8, <2>10, <2>11 DEF UserInv
<1>2. CASE ~(client[u].stage = "waiting" /\ client[u].call = k)
  <2>1. RunClosure(u, k, ok, got) = {}
      BY <1>2 DEF RunClosure
  <2>2. CASE client[u].stage = "waiting"
    <3>1. client[u].call > 0 /\ client[u].call # 0 /\ 0 <= client[u].call
        BY <1>0, <2>2 DEF UserInv, Programs
    <3> QED  BY <1>0, <1>2, <2>1, <2>2, <3>1, SameCalls DEF CallOf
  <2>3. CASE client[u].stage # "waiting"
    <3>1. 0 <= client[u].call
        BY <1>0 DEF Programs
    <3> QED  BY <1>0, <2>1, <2>3, <3>1, NotWaiting DEF UserInv, AnswerAwaited
  <2> QED  BY <2>2, <2>3
<1> QED  BY <1>1, <1>2

(* A call that reaches the table takes the place of the one that waits,    *)
(* which is answered.                                                      *)
LEMMA PushedIsInTable ==
    ASSUME Typed, Typed', CallsInv, NEW r \in net, PushClosureAndReply(r)
    PROVE  UserInv(r.user)'
<1> DEFINE u == r.user
           s == r.server
           k == table[s][u]
<1>0. /\ r.kind = "pull" /\ s \in Servers /\ u \in Users /\ r.call \in Nat
      /\ UNCHANGED client
      /\ net' = (net \ {r}) \union RunClosure(u, k, TRUE, {})
      /\ table' = [table EXCEPT ![s][u] = r.call]
    BY KindOf DEF PushClosureAndReply, Replaced, Typed, Types, Pulls
<1>1. /\ client[u] \in Programs /\ client'[u] = client[u]
      /\ \A t \in Servers : table[t][u] \in Nat
      /\ \A t \in Servers \ {s} : table'[t][u] = table[t][u]
      /\ table'[s][u] = r.call
      /\ UserInv(u) /\ r.call <= client[u].call
    BY <1>0 DEF Typed, Types, CallsInv, UserInv, CallsBelow
<1>2. CASE client[u].stage = "waiting" /\ client[u].call = k
  <2> DEFINE a == Answer(u, k, TRUE, {})
  <2>1. RunClosure(u, k, TRUE, {}) = {a}
      BY <1>2 DEF RunClosure
  <2>2. a.kind = "answer" /\ a.user = u /\ a.call = k
      BY DEF Answer
  <2>3. client[u].call > 0 /\ AtHome(u) /\ InOnePlace(u)
      BY <1>1, <1>2 DEF UserInv
  <2>4. s = client[u].server
      BY <1>0, <1>2, <2>3 DEF AtHome
  <2>5. \A x \in net : ~CallOf(x, u)
      BY <1>2, <2>3, <2>4 DEF InOnePlace, Listening
  <2>6. r.call # k
      BY <1>0, <1>2, <2>5 DEF CallOf
  <2> HIDE DEF a, k, s, u
  <2>7. \A x : (x \in net' /\ CallOf(x, u)') <=> x = a
      BY <1>0, <1>2, <2>1, <2>2, <2>5 DEF CallOf
  <2>8. CallsBelow(u)'
    <3>1. CallsBelow(u) /\ client[u].call \in Nat
        BY <1>1 DEF UserInv, Programs
    <3>2. \A t \in Servers : table'[t][u] <= client[u].call
        BY <1>1, <3>1 DEF CallsBelow
    <3>3. \A x \in net' : x \in net \/ x.call = client[u].call
        BY <1>0, <1>2, <2>1, <2>2
    <3> QED  BY <1>1, <3>1, <3>2, <3>3 DEF CallsBelow
  <2>9. AnswerAwaited(u)'
      BY <1>0, <1>1, <1>2, <2>1, <2>2 DEF UserInv, AnswerAwaited
  <2>10. ~Listening(u)'
      BY <1>0, <1>1, <1>2, <2>4, <2>6 DEF Listening
  <2>11. AtHome(u)'
      BY <1>0, <1>1, <1>2, <2>2, <2>3, <2>4, <2>7 DEF AtHome
  <2>12. InOnePlace(u)'
      BY <2>7, <2>10 DEF InOnePlace
  <2> QED  BY <1>1, <2>3, <2>8, <2>9, <2>11, <2>12 DEF UserInv, u
<1>3. CASE client[u].stage = "waiting" /\ client[u].call # k /\ client[u].call = r.call
  <2>1. RunClosure(u, k, TRUE, {}) = {}
      BY <1>3 DEF RunClosure
  <2>2. client[u].call > 0 /\ AtHome(u) /\ InOnePlace(u) /\ CallOf(r, u)
      BY <1>0, <1>1, <1>3 DEF UserInv, CallOf
  <2>3. s = client[u].server
      BY <1>0, <2>2 DEF AtHome
  <2> HIDE DEF k, s, u
  <2>4. Listening(u)'
      BY <1>0, <1>1, <1>3, <2>3 DEF Listening
  <2>5. \A x \in net' : ~CallOf(x, u)'
      BY <1>0, <1>1, <2>1, <2>2 DEF InOnePlace, CallOf
  <2>6. CallsBelow(u)' /\ AnswerAwaited(u)'
      BY <1>0, <1>1, <2>1 DEF UserInv, CallsBelow, AnswerAwaited, Programs
  <2>7. AtHome(u)'
      BY <1>0, <1>1, <2>2, <2>3, <2>5 DEF AtHome
  <2>8. InOnePlace(u)'
      BY <2>4, <2>5 DEF InOnePlace
  <2> QED  BY <1>1, <2>2, <2>6, <2>7, <2>8 DEF UserInv, u
<1>4. CASE client[u].stage = "waiting" /\ client[u].call # k /\ client[u].call # r.call
  <2>1. RunClosure(u, k, TRUE, {}) = {}
      BY <1>4 DEF RunClosure
  <2>2. ~CallOf(r, u)
      BY <1>4 DEF CallOf
  <2> QED  BY <1>0, <1>1, <1>4, <2>1, <2>2, SameCalls
<1>5. CASE client[u].stage # "waiting"
  <2>1. RunClosure(u, k, TRUE, {}) = {}
      BY <1>5 DEF RunClosure
  <2> QED  BY <1>0, <1>1, <1>5, <2>1, NotWaiting DEF UserInv, AnswerAwaited
<1> QED  BY <1>2, <1>3, <1>4, <1>5

(* PullData goes to a place where none of its user's calls can be.         *)
LEMMA PulledIsOnItsWay ==
    ASSUME Typed, Typed', CallsInv, NEW u \in Users, PullData(u)
    PROVE  UserInv(u)'
<1> DEFINE k == client[u].call + 1
           r == PullReq(client[u].server, u, k)
<1>0. /\ client[u] \in Programs /\ UserInv(u)
      /\ \A t \in Servers : table[t][u] \in Nat
      /\ client[u].stage = "poll"
    BY DEF Typed, Types, CallsInv, PullData
<1>1. /\ client'[u].stage = "waiting" /\ client'[u].call = k
      /\ client'[u].server = client[u].server
      /\ net' = net \union {r} /\ UNCHANGED table
    BY <1>0 DEF PullData, Typed, Types, Programs
<1>2. k \in Nat /\ k > 0 /\ k > client[u].call /\ client[u].call \in Nat
    BY <1>0 DEF Programs
<1>3. r.kind = "pull" /\ r.server = client[u].server /\ r.user = u /\ r.call = k
    BY DEF PullReq
<1>4. \A x \in net : x.kind \in {"pull", "answer"} /\ x.user = u =>
          x.kind = "pull" /\ x.call \in Nat /\ x.call <= client[u].call
    BY <1>0, KindOf DEF UserInv, CallsBelow, AnswerAwaited, Typed, Types, Pulls
<1>5. \A s \in Servers : table[s][u] <= client[u].call
    BY <1>0 DEF UserInv, CallsBelow
<1> HIDE DEF k, r
<1>6. \A x : (x \in net' /\ CallOf(x, u)') <=> x = r
    BY <1>1, <1>2, <1>3, <1>4 DEF CallOf
<1>7. CallsBelow(u)' /\ AnswerAwaited(u)'
    BY <1>0, <1>1, <1>2, <1>3, <1>4, <1>5 DEF CallsBelow, AnswerAwaited
<1>8. client[u].server \in Servers
    BY <1>0 DEF Typed, ServerKnown
<1>9. \A s \in Servers : table'[s][u] # k
    BY <1>0, <1>1, <1>2, <1>5
<1>10. AtHome(u)' /\ ~Listening(u)'
    BY <1>1, <1>3, <1>6, <1>8, <1>9 DEF AtHome, Listening
<1>11. InOnePlace(u)'
    BY <1>6, <1>10 DEF InOnePlace
<1> QED  BY <1>1, <1>2, <1>7, <1>10, <1>11 DEF UserInv

(* The types, under the call invariant: an answer finds its client. *)
LEMMA StepTyped == Typed /\ CallsInv /\ [Next]_vars => Typed'
<1> SUFFICES ASSUME Typed, CallsInv, [Next]_vars PROVE Typed'
    OBVIOUS
<1>1. CASE ClientStep
    BY <1>1, GetMsgsTyped, PullDataTyped DEF ClientStep
<1>2. CASE LogicStep
    BY <1>2, TaskTyped DEF LogicStep
<1>3. CASE NetStep
  <2> PICK x \in net : SignIn(x) \/ PushClosureAndReply(x) \/ SendtoAccess(x) \/ PullDataReturns(x)
      BY <1>3 DEF NetStep
  <2>1. CASE PullDataReturns(x)
    <3>1. x.kind = "answer" /\ x.user \in Users
        BY <2>1, KindOf DEF PullDataReturns, Typed, Types
    <3>2. client[x.user].stage = "waiting"
        BY <3>1 DEF CallsInv, UserInv, AnswerAwaited
    <3> QED  BY <2>1, <3>2, PullDataReturnsTyped
  <2> QED  BY <2>1, SignInTyped, PushClosureTyped, SendtoAccessTyped
<1>4. CASE UserStep
    BY <1>4, StartTyped, QuitTyped, TaskTyped DEF UserStep
<1>5. CASE FaultStep
    BY <1>5, QuitTyped, ExpireTyped, RestartTyped, ClearTyped, TaskTyped DEF FaultStep
<1>6. CASE UNCHANGED vars
    BY <1>6 DEF vars, Typed, Types, SendGoesOn, ServerKnown
<1> QED  BY <1>1, <1>2, <1>3, <1>4, <1>5, <1>6 DEF Next

(* A client's own step changes no other client and no other's calls. *)
LEMMA OthersCalls ==
    ASSUME Typed, Typed', CallsInv, NEW u \in Users, NEW v \in Users \ {u},
           Start(u) \/ Quit(u) \/ GetMsgs(u) \/ PullData(u) \/ ConnectionBreaks(u)
    PROVE  UserInv(v)'
<1>1. client'[v] = client[v] /\ UNCHANGED table
    BY DEF Start, Quit, GetMsgs, PullData, ConnectionBreaks, Typed, Types
<1>2. \A x : x.kind \in {"pull", "answer"} /\ x.user = v => (x \in net' <=> x \in net)
  <2>1. CASE Start(u)
    <3>1. \E r : r.kind = "signin" /\ net' = net \union {r}
        BY <2>1 DEF Start, SignInReq
    <3> QED  BY <3>1
  <2>2. CASE PullData(u)
    <3>1. \E r : r.user = u /\ net' = net \union {r}
        BY <2>2 DEF PullData, PullReq
    <3> QED  BY <3>1
  <2>3. CASE Quit(u) \/ GetMsgs(u) \/ ConnectionBreaks(u)
      BY <2>3 DEF Quit, GetMsgs, ConnectionBreaks, Unanswered
  <2> QED  BY <2>1, <2>2, <2>3
<1> QED  BY <1>1, <1>2, SameCalls DEF CallsInv, CallOf

(* A client that starts, ends, fetches or loses its connection has no call *)
(* it waits for.                                                           *)
LEMMA OwnCalls ==
    ASSUME Typed, Typed', CallsInv, NEW u \in Users,
           Start(u) \/ Quit(u) \/ GetMsgs(u) \/ ConnectionBreaks(u)
    PROVE  UserInv(u)'
<1>0. client[u] \in Programs /\ UserInv(u)
    BY DEF Typed, Types, CallsInv
<1>1. /\ client'[u].stage # "waiting" /\ client'[u].call = client[u].call
      /\ UNCHANGED table
  <2>1. client \in [Users -> Programs]
      BY DEF Typed, Types
  <2>2. CASE Start(u)
    <3> PICK s \in Servers :
            client' = [client EXCEPT ![u].stage = "signin", ![u].server = s, ![u].run = @ + 1]
        BY <2>2 DEF Start
    <3>1. client'[u].stage = "signin" /\ client'[u].call = client[u].call
        BY <2>1 DEF Programs
    <3> QED  BY <2>2, <3>1 DEF Start
  <2>3. CASE Quit(u) \/ GetMsgs(u) \/ ConnectionBreaks(u)
    <3> PICK st \in {"off", "poll"} : client' = [client EXCEPT ![u].stage = st]
        BY <2>3 DEF Quit, GetMsgs, ConnectionBreaks, AfterFailure
    <3>1. client'[u].stage = st /\ client'[u].call = client[u].call
        BY <2>1 DEF Programs
    <3> QED  BY <2>3, <3>1 DEF Quit, GetMsgs, ConnectionBreaks
  <2> QED  BY <2>2, <2>3
<1>2. ASSUME NEW x \in net', x.kind \in {"pull", "answer"}, x.user = u
      PROVE  x.kind = "pull" /\ x \in net
  <2>1. CASE Quit(u) \/ ConnectionBreaks(u)
      BY <1>2, <2>1 DEF Quit, ConnectionBreaks, Unanswered
  <2>2. CASE Start(u) \/ GetMsgs(u)
    <3>1. x \in net /\ client[u].stage # "waiting"
      <4>1. CASE Start(u)
        <5>1. \E r : r.kind = "signin" /\ net' = net \union {r}
            BY <4>1 DEF Start, SignInReq
        <5> QED  BY <1>2, <4>1, <5>1 DEF Start
      <4>2. CASE GetMsgs(u)
          BY <1>2, <4>2 DEF GetMsgs
      <4> QED  BY <2>2, <4>1, <4>2
    <3> QED  BY <1>0, <1>2, <3>1 DEF UserInv, AnswerAwaited
  <2> QED  BY <2>1, <2>2
<1> QED  BY <1>0, <1>1, <1>2, NotWaiting

(* A restart takes the calls of the clients at that server, which fail,    *)
(* and old ones of the others.                                             *)
LEMMA RestartCalls ==
    ASSUME Typed, Typed', CallsInv, NEW s \in Servers, Restart(s), NEW u \in Users
    PROVE  UserInv(u)'
<1>0. /\ client[u] \in Programs /\ UserInv(u) /\ Types
      /\ \A t \in Servers : table'[t][u] = IF t = s THEN 0 ELSE table[t][u]
      /\ net' = {x \in net : IF x.kind = "answer" THEN client[x.user].server # s
                                                  ELSE x.server # s}
    BY DEF Typed, Types, CallsInv, Restart
<1>1. CASE client[u].server = s \/ client[u].stage # "waiting"
  <2>1. client'[u].stage # "waiting" /\ client'[u].call = client[u].call
      BY <1>0, <1>1, Restarted
  <2>2. \A x \in net' : x.kind \in {"pull", "answer"} /\ x.user = u => x.kind = "pull" /\ x \in net
      BY <1>0, <1>1 DEF UserInv, AnswerAwaited
  <2>3. 0 <= client[u].call
      BY <1>0 DEF Programs
  <2> QED  BY <1>0, <2>1, <2>2, <2>3, NotWaiting
<1>2. CASE client[u].server # s /\ client[u].stage = "waiting"
  <2>1. client[u].call > 0 /\ AtHome(u)
      BY <1>0, <1>2 DEF UserInv
  <2>2. client'[u] = client[u]
      BY <1>0, <1>2, Restarted
  <2>3. \A x \in net : CallOf(x, u) => x \in net'
      BY <1>0, <1>2, <2>1 DEF AtHome, CallOf
  <2>4. 0 <= client[u].call /\ client[u].call # 0 /\ table[s][u] # client[u].call
      BY <1>0, <1>2, <2>1 DEF Programs, AtHome
  <2> QED  BY <1>0, <2>2, <2>3, <2>4, SameCalls
<1> QED  BY <1>1, <1>2

(* A step of which the tables and the clients' calls take no notice. *)
LEMMA NoCalls ==
    ASSUME Typed, Typed', CallsInv, NEW u \in Users,
           UNCHANGED <<client, table>>,
           \A x : x.kind # "push" => (x \in net' <=> x \in net)
    PROVE  UserInv(u)'
<1>1. UserInv(u) /\ \A x \in net : CallOf(x, u) => x \in net'
    BY DEF CallsInv, CallOf
<1> QED  BY <1>1, SameCalls

LEMMA StepCalls == Typed /\ Typed' /\ CallsInv /\ [Next]_vars => CallsInv'
<1> SUFFICES ASSUME Typed, Typed', CallsInv, [Next]_vars, NEW u \in Users
             PROVE  UserInv(u)'
    BY DEF CallsInv
<1>0. UserInv(u) /\ Types /\ \A x \in net : x \in Calls /\ x.user \in Users
    BY KindOf DEF CallsInv, Typed, Types
<1>1. CASE ClientStep
    BY <1>1, OthersCalls, OwnCalls, PulledIsOnItsWay DEF ClientStep
<1>2. ASSUME NEW m \in Messages, SendtoPeer(m) PROVE UserInv(u)'
    BY <1>2, NoCalls DEF SendtoPeer, PushReq
<1>3. ASSUME NEW m \in Messages, Save(m) \/ GetSessions(m) \/ GetSessionsFails(m)
      PROVE UserInv(u)'
    BY <1>3, NoCalls DEF Save, GetSessions, GetSessionsFails
<1>4. ASSUME NEW x \in net, SignIn(x) PROVE UserInv(u)'
  <2>1. /\ client'[u].call = client[u].call /\ client'[u].server = client[u].server
        /\ \/ client'[u].stage = client[u].stage
           \/ client[u].stage = "signin" /\ client'[u].stage = "fetch"
    <3>1. client \in [Users -> Programs]
        BY <1>0 DEF Types
    <3>2. CASE client' = client
        BY <3>2
    <3>3. CASE client[x.user].stage = "signin" /\ client' = [client EXCEPT ![x.user].stage = "fetch"]
        BY <3>1, <3>3 DEF Programs
    <3> QED  BY <1>4, <3>2, <3>3 DEF SignIn
  <2>2. UNCHANGED table /\ net' = net \ {x} /\ x.kind = "signin"
      BY <1>4 DEF SignIn
  <2>3. CASE client'[u].stage = client[u].stage
      BY <1>0, <2>1, <2>2, <2>3, SameCalls DEF CallOf
  <2>4. CASE client[u].stage = "signin" /\ client'[u].stage = "fetch"
      BY <1>0, <2>1, <2>2, <2>4, NotWaiting DEF UserInv, AnswerAwaited
  <2> QED  BY <2>1, <2>3, <2>4
<1>5. ASSUME NEW x \in net, PushClosureAndReply(x) PROVE UserInv(u)'
  <2>1. CASE u = x.user
      BY <1>5, <2>1, PushedIsInTable
  <2>2. CASE u # x.user
    <3>1. x \in Pulls
        BY <1>0, <1>5, KindOf DEF PushClosureAndReply
    <3>2. UNCHANGED client /\ \A s \in Servers : table'[s][u] = table[s][u]
        BY <1>0, <1>5, <2>2, <3>1 DEF PushClosureAndReply, Types, Pulls
    <3>3. \A y : y.user = u => (y \in net' <=> y \in net)
        BY <1>5, <2>2 DEF PushClosureAndReply, Replaced, RunClosure, Answer
    <3> QED  BY <1>0, <3>2, <3>3, SameCalls DEF CallOf
  <2> QED  BY <2>1, <2>2
<1>6. ASSUME NEW x \in net, SendtoAccess(x) PROVE UserInv(u)'
  <2> DEFINE got == {[msg |-> x.msg, id |-> x.id]}
             k == table[x.server][x.user]
  <2>1. /\ x \in Pushes /\ UNCHANGED client /\ k \in Nat
        /\ table' = IF k = 0 THEN table ELSE [table EXCEPT ![x.server][x.user] = 0]
        /\ \E keep \in {{}, {x}} :
              net' = (net \ {x}) \union keep \union RunClosure(x.user, k, TRUE, got)
      BY <1>0, <1>6, Pushed DEF SendtoAccess
  <2>2. x.server \in Servers /\ x.user \in Users /\ x.kind = "push"
      BY <2>1 DEF Pushes
  <2>3. \A y : y.kind \in {"pull", "answer"} =>
            (y \in net' <=> y \in net \/ y \in RunClosure(x.user, k, TRUE, got))
      BY <2>1, <2>2
  <2>4. CASE u = x.user
      BY <1>0, <2>1, <2>2, <2>3, <2>4, TakenIsAnswered
  <2>5. CASE u # x.user
    <3>1. \A s \in Servers : table'[s][u] = table[s][u]
        BY <1>0, <2>1, <2>2, <2>5 DEF Types
    <3>2. PICK new : net' \subseteq net \union new /\ net \ {x} \subseteq net'
                     /\ \A y \in new : y.user # u
      <4>1. \A y \in RunClosure(x.user, k, TRUE, got) : y.user # u
          BY <2>5 DEF RunClosure, Answer
      <4> QED  BY <2>1, <4>1
    <3>3. \A y \in net' : y.kind \in {"pull", "answer"} /\ y.user = u => y \in net
        BY <3>2
    <3>4. \A y \in net : CallOf(y, u) => y \in net'
        BY <2>2, <2>5, <3>2 DEF CallOf
    <3> QED  BY <1>0, <2>1, <3>1, <3>3, <3>4, SameCalls
  <2> QED  BY <2>4, <2>5
<1>7. ASSUME NEW x \in net, PullDataReturns(x) PROVE UserInv(u)'
  <2>1. /\ x \in Answers /\ client' = [client EXCEPT ![x.user].stage = "poll"]
        /\ net' = net \ {x} /\ UNCHANGED table
      BY <1>0, <1>7, Returned DEF PullDataReturns
  <2>2. x.kind = "answer" /\ x.user \in Users /\ client \in [Users -> Programs]
      BY <1>0, <2>1 DEF Types, Answers
  <2>3. CASE u = x.user
    <3>1. client[u].stage = "waiting" /\ InOnePlace(u) /\ CallOf(x, u)
        BY <1>0, <2>2, <2>3 DEF UserInv, AnswerAwaited, CallOf
    <3>2. \A y \in net' : y.kind \in {"pull", "answer"} /\ y.user = u => y.kind = "pull" /\ y \in net
        BY <1>0, <2>1, <3>1 DEF UserInv, AnswerAwaited, InOnePlace, CallOf
    <3>3. client'[u].stage = "poll" /\ client'[u].call = client[u].call
        BY <2>1, <2>2, <2>3 DEF Programs
    <3> QED  BY <1>0, <2>1, <3>2, <3>3, NotWaiting
  <2>4. CASE u # x.user
      BY <1>0, <2>1, <2>2, <2>4, SameCalls DEF CallOf
  <2> QED  BY <2>3, <2>4
<1>8. CASE UserStep
    BY <1>3, <1>8, OthersCalls, OwnCalls DEF UserStep
<1>9. ASSUME NEW s \in Servers, NEW v \in Users, ClearUserData(s, v) PROVE UserInv(u)'
  <2>1. /\ UNCHANGED client /\ table' = [table EXCEPT ![s][v] = 0]
        /\ net' = net \union RunClosure(v, table[s][v], FALSE, {})
      BY <1>9 DEF ClearUserData
  <2>2. CASE u = v
      BY <1>0, <2>1, <2>2, TakenIsAnswered
  <2>3. CASE u # v
    <3>1. \A t \in Servers : table'[t][u] = table[t][u]
        BY <1>0, <2>1, <2>3 DEF Types
    <3>2. \A y \in RunClosure(v, table[s][v], FALSE, {}) : y.user # u
        BY <2>3 DEF RunClosure, Answer
    <3> QED  BY <1>0, <2>1, <3>1, <3>2, SameCalls DEF CallOf
  <2> QED  BY <2>2, <2>3
<1>10. CASE FaultStep
  <2>1. ASSUME NEW v \in Users, Expire(v) PROVE UserInv(u)'
      BY <2>1, NoCalls DEF Expire
  <2>2. ASSUME NEW x \in net, PushLost(x) PROVE UserInv(u)'
      BY <2>2, NoCalls DEF PushLost
  <2> QED  BY <1>3, <1>9, <1>10, <2>1, <2>2, OthersCalls, OwnCalls, RestartCalls DEF FaultStep
<1>11. CASE UNCHANGED vars
    BY <1>11, NoCalls DEF vars
<1> QED  BY <1>1, <1>2, <1>3, <1>4, <1>5, <1>6, <1>7, <1>8, <1>10, <1>11
         DEF Next, LogicStep, NetStep

(* The two together are inductive. *)
LEMMA Calm == Spec => [](Typed /\ CallsInv)
<1>1. Init => Typed /\ CallsInv
    BY InitTyped, CallsInit
<1>2. Typed /\ CallsInv /\ [Next]_vars => (Typed /\ CallsInv)'
    BY StepTyped, StepCalls
<1> QED  BY <1>1, <1>2, PTL DEF Spec

(* Every variable keeps its type in every step of the client, of access    *)
(* and of logic.                                                           *)
THEOREM PushTyped == Spec => []TypeOK
<1>1. Typed => TypeOK
    BY TypesIs DEF Typed
<1> QED  BY <1>1, Calm, PTL

(* The invariant counts as WaitingCallIsFound does. *)
LEMMA FoundOnce == Typed /\ CallsInv => WaitingCallIsFound
<1> SUFFICES ASSUME Typed, CallsInv, NEW u \in Users, client[u].stage = "waiting"
             PROVE  Cardinality({x \in net : /\ x.kind \in {"pull", "answer"}
                                             /\ x.user = u /\ x.call = client[u].call})
                      + (IF Listening(u) THEN 1 ELSE 0) = 1
    BY DEF WaitingCallIsFound
<1> DEFINE own == {x \in net : /\ x.kind \in {"pull", "answer"}
                               /\ x.user = u /\ x.call = client[u].call}
<1>1. InOnePlace(u)
    BY DEF CallsInv, UserInv
<1>2. CASE Listening(u)
  <2>1. own = {}
      BY <1>1, <1>2 DEF InOnePlace, CallOf
  <2>2. Cardinality(own) = 0
      BY <2>1, FS_EmptySet
  <2> QED  BY <1>2, <2>2
<1>3. CASE ~Listening(u)
  <2>1. PICK x \in own : \A y \in own : y = x
      BY <1>1, <1>3 DEF InOnePlace, CallOf
  <2>2. own = {x}
      BY <2>1
  <2>3. Cardinality(own) = 1
      BY <2>2, FS_Singleton
  <2> QED  BY <1>3, <2>3
<1> QED  BY <1>2, <1>3

(* No lost wakeup in access's table: a PullData call its client waits for  *)
(* is on its way, in the table or being answered, and in no two of these   *)
(* (access_service.cc, PushClosureAndReply, SendtoAccess, ClearUserData).  *)
THEOREM CallFound == Spec => []WaitingCallIsFound
BY Calm, FoundOnce, PTL
--------------------------------------------------------------------------------
(* Whatever is looked up, pushed, answered or seen has been saved. *)
Row(u, m, k) == [user |-> u, msg |-> m, id |-> k]

TaskStored   == \A m \in Messages : task[m].stage \in {"lookup", "send"} => Rows(m) \subseteq rows
PushStored   == \A x \in net : x.kind = "push" => Row(x.user, x.msg, x.id) \in rows
AnswerStored == \A x \in net : x.kind = "answer" =>
                    \A g \in x.got : Row(x.user, g.msg, g.id) \in rows
SeenStored   == \A u \in Users : \A g \in seen[u] : Row(u, g.msg, g.id) \in rows

Stored == TaskStored /\ PushStored /\ AnswerStored /\ SeenStored

LEMMA InitStored == Init => Stored
BY DEF Init, Stored, TaskStored, PushStored, AnswerStored, SeenStored, Idle

(* A step that only adds rows and sends nothing that is not saved. *)
LEMMA KeepsStored ==
    ASSUME Stored, rows \subseteq rows',
           \A m \in Messages : task'[m].stage \in {"lookup", "send"} =>
               task[m].stage \in {"lookup", "send"} \/ Rows(m) \subseteq rows',
           \A x \in net' : \/ x \in net
                           \/ x.kind = "push" /\ Row(x.user, x.msg, x.id) \in rows
                           \/ /\ x.kind = "answer"
                              /\ \A g \in x.got : Row(x.user, g.msg, g.id) \in rows
                           \/ x.kind \in {"signin", "pull"},
           \A u \in Users : \A g \in seen'[u] :
               g \in seen[u] \/ Row(u, g.msg, g.id) \in rows
    PROVE  Stored'
<1>1. TaskStored'
    BY DEF Stored, TaskStored, Rows
<1>2. PushStored'
    BY DEF Stored, PushStored, Row
<1>3. AnswerStored'
    BY DEF Stored, AnswerStored, Row
<1>4. SeenStored'
    BY DEF Stored, SeenStored, Row
<1> QED  BY <1>1, <1>2, <1>3, <1>4 DEF Stored

LEMMA ClientStored ==
    ASSUME Typed, Stored, NEW u \in Users,
           \/ Start(u) \/ Quit(u) \/ GetMsgs(u) \/ PullData(u)
           \/ ConnectionBreaks(u) \/ Expire(u)
    PROVE  Stored'
<1>1. rows' = rows /\ task' = task
    BY DEF Start, Quit, GetMsgs, PullData, ConnectionBreaks, Expire
<1>2. \A x \in net' : x \in net \/ x.kind \in {"signin", "pull"}
  <2>1. CASE Start(u) \/ PullData(u)
    <3>1. \E r : net' = net \union {r} /\ r.kind \in {"signin", "pull"}
      <4>1. \A s, n : SignInReq(s, u, n).kind = "signin" /\ PullReq(s, u, n).kind = "pull"
          BY DEF SignInReq, PullReq
      <4> QED  BY <2>1, <4>1 DEF Start, PullData
    <3> QED  BY <3>1
  <2>2. CASE Quit(u) \/ GetMsgs(u) \/ ConnectionBreaks(u) \/ Expire(u)
      BY <2>2 DEF Quit, GetMsgs, ConnectionBreaks, Expire, Unanswered
  <2> QED  BY <2>1, <2>2
<1>3. \A v \in Users : \A g \in seen'[v] : g \in seen[v] \/ Row(v, g.msg, g.id) \in rows
  <2>1. seen \in [Users -> SUBSET Seen] /\ rows \subseteq [user : Users, msg : Messages, id : Nat]
      BY DEF Typed, Types
  <2>2. CASE seen' = seen \/ seen' = [seen EXCEPT ![u] = {}]
      BY <2>1, <2>2
  <2>3. CASE GetMsgs(u)
    <3>1. \A v \in Users : v # u => seen'[v] = seen[v]
        BY <2>1, <2>3 DEF GetMsgs
    <3>2. seen'[u] = {[msg |-> r.msg, id |-> r.id] : r \in FetchedRange(u)}
        BY <2>1, <2>3 DEF GetMsgs
    <3>3. \A r \in FetchedRange(u) : r = Row(u, r.msg, r.id) /\ r \in rows
        BY <2>1 DEF FetchedRange, Row
    <3> QED  BY <3>1, <3>2, <3>3
  <2> QED  BY <2>2, <2>3 DEF Start, Quit, PullData, ConnectionBreaks, Expire
<1> QED  BY <1>1, <1>2, <1>3, KeepsStored

(* A message that takes a closure is its answer. *)
LEMMA NetStored ==
    ASSUME Typed, Stored, NEW x \in net,
           \/ SignIn(x) \/ PushClosureAndReply(x) \/ SendtoAccess(x)
           \/ PullDataReturns(x) \/ PushLost(x)
    PROVE  Stored'
<1>1. rows' = rows /\ task' = task
    BY DEF SignIn, PushClosureAndReply, SendtoAccess, PullDataReturns, PushLost
<1>2. CASE SignIn(x) \/ PushLost(x)
    BY <1>1, <1>2, KeepsStored DEF SignIn, PushLost
<1>3. CASE PushClosureAndReply(x)
  <2>1. \A y \in net' : y \in net \/ (y.kind = "answer" /\ y.got = {})
      BY <1>3 DEF PushClosureAndReply, Replaced, RunClosure, Answer
  <2>2. seen' = seen
      BY <1>3 DEF PushClosureAndReply
  <2> QED  BY <1>1, <2>1, <2>2, KeepsStored
<1>4. CASE SendtoAccess(x)
  <2> DEFINE got == {[msg |-> x.msg, id |-> x.id]}
  <2>1. Row(x.user, x.msg, x.id) \in rows
      BY <1>4 DEF SendtoAccess, Stored, PushStored
  <2>2. \A y \in net' : y \in net \/ (y.kind = "answer" /\ y.user = x.user /\ y.got = got)
    <3> DEFINE k == table[x.server][x.user]
    <3>1. PICK keep \in {{}, {x}} :
              net' = (net \ {x}) \union keep \union RunClosure(x.user, k, TRUE, got)
        BY <1>4 DEF SendtoAccess
    <3> HIDE DEF got, k
    <3>2. RunClosure(x.user, k, TRUE, got) \subseteq {Answer(x.user, k, TRUE, got)}
        BY DEF RunClosure
    <3>3. /\ Answer(x.user, k, TRUE, got).kind = "answer"
          /\ Answer(x.user, k, TRUE, got).user = x.user
          /\ Answer(x.user, k, TRUE, got).got = got
        BY DEF Answer
    <3> QED  BY <3>1, <3>2, <3>3
  <2>3. seen' = seen
      BY <1>4 DEF SendtoAccess
  <2>4. \A y \in net' : y \in net \/ (y.kind = "answer" /\
                            \A g \in y.got : Row(y.user, g.msg, g.id) \in rows)
      BY <2>1, <2>2
  <2> QED  BY <1>1, <2>3, <2>4, KeepsStored
<1>5. CASE PullDataReturns(x)
  <2>1. seen' = [seen EXCEPT ![x.user] = @ \union x.got] /\ net' \subseteq net
      BY <1>5 DEF PullDataReturns
  <2>2. \A g \in x.got : Row(x.user, g.msg, g.id) \in rows
      BY <1>5 DEF PullDataReturns, Stored, AnswerStored
  <2>3. \A v \in Users : \A g \in seen'[v] : g \in seen[v] \/ Row(v, g.msg, g.id) \in rows
      BY <2>1, <2>2 DEF Typed, Types
  <2> QED  BY <1>1, <2>1, <2>3, KeepsStored
<1> QED  BY <1>2, <1>3, <1>4, <1>5

(* SendtoPeers pushes to each peer the id of this very peer, from the rows *)
(* its SendMsg has had saved.                                              *)
LEMMA TaskStep ==
    ASSUME Typed, Stored, NEW m \in Messages,
           Save(m) \/ GetSessions(m) \/ GetSessionsFails(m) \/ SendtoPeer(m)
    PROVE  Stored'
<1>0. /\ task \in [Messages -> Tasks] /\ seen' = seen
      /\ \A n \in Messages : n # m => task'[n] = task[n]
    BY DEF Typed, Types, Save, GetSessions, GetSessionsFails, SendtoPeer
<1>1. \A t, n : GoOn(t, n).stage \in {"send", "done"}
  <2> TAKE t, n
  <2> QED  BY DEF GoOn, Idle
<1>2. CASE Save(m)
    BY <1>0, <1>2, KeepsStored DEF Save
<1>3. CASE GetSessions(m) \/ GetSessionsFails(m)
    BY <1>0, <1>3, KeepsStored DEF GetSessions, GetSessionsFails
<1>4. CASE SendtoPeer(m)
  <2> DEFINE t == task[m]
             i == NextPeer(t.found, t.next)
             p == PushReq(ChannelVec(t.found)[Channel(m, i)], Peers[m][i], m, MsgIds[m][IdIndex(i, Channel(m, i))])
  <2>1. t \in Tasks /\ Len(t.found) = Len(Peers[m]) /\ i # 0 /\ t.stage = "send"
      BY <1>4 DEF SendtoPeer, Typed, Types, SendGoesOn
  <2>2. t.found \in Founds /\ t.next \in Nat
      BY <2>1 DEF Tasks
  <2>3. i \in HasSession(t.found)
      BY <2>1, <2>2, NextPeerIs
  <2>4. i \in DOMAIN Peers[m]
      BY <2>1, <2>2, <2>3, SessionPlaces, Bounds
  <2>5. p.kind = "push" /\ Row(p.user, p.msg, p.id) \in Rows(m)
      BY <2>4 DEF PushReq, IdIndex, Row, Rows
  <2>6. Rows(m) \subseteq rows
      BY <2>1 DEF Stored, TaskStored
  <2>7. rows' = rows /\ net' = net \union {p}
      BY <1>4 DEF SendtoPeer
  <2> HIDE DEF p
  <2> QED  BY <1>0, <2>1, <2>5, <2>6, <2>7, KeepsStored
<1> QED  BY <1>2, <1>3, <1>4

LEMMA ServerStored ==
    ASSUME Typed, Stored, NEW s \in Servers,
           Restart(s) \/ \E u \in Users : ClearUserData(s, u)
    PROVE  Stored'
<1>1. rows' = rows /\ task' = task /\ seen' = seen
    BY DEF Restart, ClearUserData
<1>2. \A y \in net' : y \in net \/ (y.kind = "answer" /\ y.got = {})
    BY DEF Restart, ClearUserData, RunClosure, Answer
<1> QED  BY <1>1, <1>2, KeepsStored

LEMMA StepStored == Typed /\ Stored /\ [Next]_vars => Stored'
<1> SUFFICES ASSUME Typed, Stored, [Next]_vars PROVE Stored'
    OBVIOUS
<1>1. CASE ClientStep \/ UserStep
    BY <1>1, ClientStored, TaskStep DEF ClientStep, UserStep
<1>2. CASE LogicStep
    BY <1>2, TaskStep DEF LogicStep
<1>3. CASE NetStep
    BY <1>3, NetStored DEF NetStep
<1>4. CASE FaultStep
    BY <1>4, ClientStored, TaskStep, NetStored, ServerStored DEF FaultStep
<1>5. CASE UNCHANGED vars
    BY <1>5, KeepsStored DEF vars
<1> QED  BY <1>1, <1>2, <1>3, <1>4, <1>5 DEF Next

(* A client only ever gets, by fetching or by a push, what is stored in    *)
(* its own mailbox under this id: SendtoPeers gives no peer what belongs   *)
(* to another (logic_service.cc:323-340), and no answer goes astray.       *)
THEOREM SeenInMailbox == Spec => []SeenIsStored
<1>1. Init => Stored
    BY InitStored
<1>2. Typed /\ Stored /\ [Next]_vars => Stored'
    BY StepStored
<1>3. Stored => SeenIsStored
    BY DEF Stored, SeenStored, SeenIsStored, Row
<1> QED  BY <1>1, <1>2, <1>3, Calm, PTL DEF Spec
================================================================================
