---------------------------------- MODULE Push ---------------------------------
(***************************************************************************)
(* Receiving a message: the session in Redis that names a user's access    *)
(* server, the SendtoPeers bthread of a saved message, the access servers' *)
(* tables of waiting PullData calls, and the client from SignIn to its     *)
(* PullData loop.  Requests and answers travel separately and in any       *)
(* order; a request outlives the caller that gave it up.                   *)
(***************************************************************************)
EXTENDS Naturals, Sequences, FiniteSets

CONSTANTS
    Users,          \* users who receive
    Servers,        \* the addresses of the access servers
    Messages,       \* messages that others send
    Peers,          \* message -> the users it goes to, in the order of id_request
    MsgIds,         \* message -> its ids in the peers' mailboxes, from id_reply
    LastFetched,    \* the end of the range a client fetches at its start
    NoServer,       \* the session of a user who has none
    MaxStarts,      \* bound: starts of a client
    MaxFaults       \* bound: losses, repetitions, timeouts, restarts, expiries

ASSUME PushAssumption ==
    /\ Peers \in [Messages -> Seq(Users)]
    /\ \A m \in Messages : \A i, j \in DOMAIN Peers[m] :
          Peers[m][i] = Peers[m][j] => i = j
    /\ \A m \in Messages : MsgIds[m] \in [DOMAIN Peers[m] -> Nat]
    /\ \A m, n \in Messages : \A i \in DOMAIN Peers[m], j \in DOMAIN Peers[n] :
          m # n /\ Peers[m][i] = Peers[n][j] => MsgIds[m][i] # MsgIds[n][j]
    /\ LastFetched \in Nat
    /\ NoServer \notin Servers
    /\ MaxStarts \in Nat /\ MaxFaults \in Nat

VARIABLES
    session,    \* Redis: user -> the address in {user}a, or NoServer
    rows,       \* MySQL: [user, msg, id]
    task,       \* the SendtoPeers bthreads
    table,      \* access: server -> user -> the call that waits, or 0
    client,     \* the client programs
    seen,       \* user -> messages the running client has got, [msg, id]
    net,        \* requests and answers on their way
    starts,     \* starts so far
    faults      \* faults so far

vars == <<session, rows, task, table, client, seen, net, starts, faults>>

SignInReq(s, u, n)  == [kind |-> "signin", server |-> s, user |-> u, run |-> n]
PullReq(s, u, k)    == [kind |-> "pull", server |-> s, user |-> u, call |-> k]
PushReq(s, u, m, i) == [kind |-> "push", server |-> s, user |-> u, msg |-> m, id |-> i]
Answer(u, k, ok, g) == [kind |-> "answer", user |-> u, call |-> k, ok |-> ok, got |-> g]

Idle(stage) == [stage |-> stage, found |-> << >>, next |-> 1]

Init ==
    /\ session = [u \in Users |-> NoServer]
    /\ rows = {}
    /\ task = [m \in Messages |-> Idle("new")]
    /\ table = [s \in Servers |-> [u \in Users |-> 0]]
    /\ client = [u \in Users |-> [stage |-> "off", server |-> NoServer,
                                  run |-> 0, call |-> 0]]
    /\ seen = [u \in Users |-> {}]
    /\ net = {}
    /\ starts = 0
    /\ faults = 0

Fault == faults < MaxFaults /\ faults' = faults + 1

--------------------------------------------------------------------------------
(* The client. *)

(* The program starts and signs in at the server it is given. *)
Start(u) ==
    /\ client[u].stage = "off"
    /\ starts < MaxStarts /\ starts' = starts + 1
    /\ \E s \in Servers :
        /\ client' = [client EXCEPT ![u].stage = "signin", ![u].server = s,
                                    ![u].run = @ + 1]
        /\ net' = net \union {SignInReq(s, u, client[u].run + 1)}
    /\ UNCHANGED <<session, rows, task, table, seen, faults>>

Unanswered(u) == {x \in net : x.kind = "answer" => x.user # u}

(* It ends: "quit", or a call of its start that fails or times out (bound: *)
(* only while a client can start again).                                   *)
Quit(u) ==
    /\ client[u].stage # "off"
    /\ starts < MaxStarts
    /\ client' = [client EXCEPT ![u].stage = "off"]
    /\ seen' = [seen EXCEPT ![u] = {}]
    /\ net' = Unanswered(u)
    /\ UNCHANGED <<session, rows, task, table, starts, faults>>

(* GetMsgs over access, logic and dbproxy: the stored messages, up to an   *)
(* end that is written in the program.                                     *)
FetchedRange(u) == {r \in rows : r.user = u /\ r.id <= LastFetched}

GetMsgs(u) ==
    /\ client[u].stage = "fetch"
    /\ seen' = [seen EXCEPT ![u] = {[msg |-> r.msg, id |-> r.id] : r \in FetchedRange(u)}]
    /\ client' = [client EXCEPT ![u].stage = "poll"]
    /\ UNCHANGED <<session, rows, task, table, net, starts, faults>>

(* The PullData bthread makes its next call. *)
PullData(u) ==
    /\ client[u].stage = "poll"
    /\ client' = [client EXCEPT ![u].stage = "waiting", ![u].call = @ + 1]
    /\ net' = net \union {PullReq(client[u].server, u, client[u].call + 1)}
    /\ UNCHANGED <<session, rows, task, table, seen, starts, faults>>

(* Mutant: the bthread returns. *)
LoopEnds == "ended"

(* A failed call: a second later the loop goes on. *)
AfterFailure == "poll"

PullDataReturns(a) ==
    /\ a.kind = "answer"
    /\ net' = net \ {a}
    /\ client' = [client EXCEPT ![a.user].stage = IF a.ok THEN "poll" ELSE AfterFailure]
    /\ seen' = [seen EXCEPT ![a.user] = @ \union a.got]
    /\ UNCHANGED <<session, rows, task, table, starts, faults>>

(* The connection breaks while a call waits: its answer is lost, but its   *)
(* request or closure stays where it is.                                   *)
ConnectionBreaks(u) ==
    /\ client[u].stage = "waiting"
    /\ Fault
    /\ client' = [client EXCEPT ![u].stage = AfterFailure]
    /\ net' = Unanswered(u)
    /\ UNCHANGED <<session, rows, task, table, seen, starts>>

--------------------------------------------------------------------------------
(* Access. *)

(* AuthAndSaveSession: the last SET wins, whichever SignIn it is from. *)
SavedSession(r) == [session EXCEPT ![r.user] = r.server]

(* SignIn saves the server's address as the user's session and answers. *)
SignIn(r) ==
    /\ r.kind = "signin"
    /\ net' = net \ {r}
    /\ session' = SavedSession(r)
    /\ client' = IF client[r.user].stage = "signin" /\ client[r.user].run = r.run
                 THEN [client EXCEPT ![r.user].stage = "fetch"] ELSE client
    /\ UNCHANGED <<rows, task, table, seen, starts, faults>>

(* Running a closure answers its call, if the client still waits for it. *)
RunClosure(u, k, ok, got) ==
    IF client[u].stage = "waiting" /\ client[u].call = k
    THEN {Answer(u, k, ok, got)} ELSE {}

(* Mutant: the replaced closure is dropped. *)
NotAnswered(s, u) == {}

(* The closure that a new call replaces is run without a message. *)
Replaced(s, u) == RunClosure(u, table[s][u], TRUE, {})

PushClosureAndReply(r) ==
    /\ r.kind = "pull"
    /\ net' = (net \ {r}) \union Replaced(r.server, r.user)
    /\ table' = [table EXCEPT ![r.server][r.user] = r.call]
    /\ UNCHANGED <<session, rows, task, client, seen, starts, faults>>

(* Mutant: the closure stays in the table. *)
ClosureStays(s, u) == table

ClosureTaken(s, u) == [table EXCEPT ![s][u] = 0]

(* A message takes the closure that waits and is its answer; without one   *)
(* it is dropped.  brpc may deliver the request again.                     *)
SendtoAccess(p) ==
    LET k == table[p.server][p.user] IN
    /\ p.kind = "push"
    /\ \/ k = 0 /\ UNCHANGED table
       \/ k # 0 /\ table' = ClosureTaken(p.server, p.user)
    /\ \E keep \in {{}, {p}} :
        /\ \/ keep = {} /\ UNCHANGED faults
           \/ keep # {} /\ Fault
        /\ net' = (net \ {p}) \union keep \union
                    RunClosure(p.user, k, TRUE, {[msg |-> p.msg, id |-> p.id]})
    /\ UNCHANGED <<session, rows, task, client, seen, starts>>

(* The heartbeat timeout, on time or late: the connection is closed. *)
ClearUserData(s, u) ==
    /\ table[s][u] # 0
    /\ Fault
    /\ table' = [table EXCEPT ![s][u] = 0]
    /\ net' = net \union RunClosure(u, table[s][u], FALSE, {})
    /\ UNCHANGED <<session, rows, task, client, seen, starts>>

(* The process dies and comes back at its address with an empty table. *)
Restart(s) ==
    /\ Fault
    /\ table' = [table EXCEPT ![s] = [u \in Users |-> 0]]
    /\ net' = {x \in net : IF x.kind = "answer" THEN client[x.user].server # s
                                               ELSE x.server # s}
    /\ client' = [u \in Users |->
                    IF client[u].server # s THEN client[u]
                    ELSE IF client[u].stage = "waiting"
                         THEN [client[u] EXCEPT !.stage = AfterFailure]
                    ELSE IF client[u].stage = "signin"
                         THEN [client[u] EXCEPT !.stage = "off"]
                    ELSE client[u]]
    /\ UNCHANGED <<session, rows, task, seen, starts>>

(* 3600 seconds after SignIn the session is gone. *)
Expire(u) ==
    /\ session[u] # NoServer
    /\ Fault
    /\ session' = [session EXCEPT ![u] = NoServer]
    /\ UNCHANGED <<rows, task, table, client, seen, net, starts>>

--------------------------------------------------------------------------------
(* Logic. *)

Rows(m) == {[user |-> Peers[m][i], msg |-> m, id |-> MsgIds[m][i]] :
              i \in DOMAIN Peers[m]}

(* SendMsg has the message saved in its peers' mailboxes, and starts       *)
(* SendtoPeers unless it gave up on the save (SendPath has the details).   *)
Save(m) ==
    /\ task[m].stage = "new"
    /\ rows' = rows \union Rows(m)
    /\ \/ task' = [task EXCEPT ![m].stage = "lookup"] /\ UNCHANGED faults
       \/ task' = [task EXCEPT ![m] = Idle("done")] /\ Fault
    /\ UNCHANGED <<session, table, client, seen, net, starts>>

(* Peers with a session, by their place in the list; channel_vec has a     *)
(* channel for each of them, in that order, and none for the others.       *)
HasSession(found) == {i \in DOMAIN found : found[i] # NoServer}
Place(found, i)   == Cardinality({k \in HasSession(found) : k <= i})
ChannelVec(found) ==
    [j \in 1 .. Cardinality(HasSession(found)) |->
        found[CHOOSE i \in HasSession(found) : Place(found, i) = j]]

NextPeer(found, n) ==
    LET rest == {i \in HasSession(found) : i >= n} IN
    IF rest = {} THEN 0 ELSE CHOOSE i \in rest : \A k \in rest : i <= k

(* The bthread goes on to peer n, or ends. *)
GoOn(t, n) == IF NextPeer(t.found, n) = 0 THEN Idle("done")
              ELSE [t EXCEPT !.stage = "send", !.next = n]

(* The peers' sessions, read in one MGET. *)
Sessions(m) == [i \in DOMAIN Peers[m] |-> session[Peers[m][i]]]

GetSessions(m) ==
    /\ task[m].stage = "lookup"
    /\ task' = [task EXCEPT ![m] = GoOn([@ EXCEPT !.found = Sessions(m)], 1)]
    /\ UNCHANGED <<session, rows, table, client, seen, net, starts, faults>>

GetSessionsFails(m) ==
    /\ task[m].stage = "lookup"
    /\ Fault
    /\ task' = [task EXCEPT ![m] = Idle("done")]
    /\ UNCHANGED <<session, rows, table, client, seen, net, starts>>

(* Mutants: the id is taken by the place among the peers with a session;   *)
(* the channel by the place among all peers, or is always the first.       *)
IdByChannel(i, j) == j
FirstChannel(m, i) == 1

(* The loop runs with two indices: i over the peers, j over channel_vec.   *)
IdIndex(i, j)  == i
Channel(m, i)  == Place(task[m].found, i)

(* The next SendtoAccess, without waiting for an answer. *)
SendtoPeer(m) ==
    LET t == task[m]
        i == NextPeer(t.found, t.next)
        j == Channel(m, i)
    IN
    /\ t.stage = "send"
    /\ net' = net \union {PushReq(ChannelVec(t.found)[j], Peers[m][i], m,
                                  MsgIds[m][IdIndex(i, j)])}
    /\ task' = [task EXCEPT ![m] = GoOn(t, i + 1)]
    /\ UNCHANGED <<session, rows, table, client, seen, starts, faults>>

(* A SendtoAccess fails: nobody tries again. *)
PushLost(p) ==
    /\ p.kind = "push"
    /\ Fault
    /\ net' = net \ {p}
    /\ UNCHANGED <<session, rows, task, table, client, seen, starts>>

--------------------------------------------------------------------------------
ClientStep == \E u \in Users : GetMsgs(u) \/ PullData(u)
LogicStep  == \E m \in Messages : GetSessions(m) \/ SendtoPeer(m)
NetStep    == \E x \in net : SignIn(x) \/ PushClosureAndReply(x) \/ SendtoAccess(x)
                             \/ PullDataReturns(x)
UserStep   == \/ \E u \in Users : Start(u) \/ Quit(u)
              \/ \E m \in Messages : Save(m)
FaultStep  == \/ \E u \in Users : ConnectionBreaks(u) \/ Expire(u)
              \/ \E s \in Servers : Restart(s)
              \/ \E s \in Servers, u \in Users : ClearUserData(s, u)
              \/ \E m \in Messages : GetSessionsFails(m)
              \/ \E x \in net : PushLost(x)

Next == ClientStep \/ LogicStep \/ NetStep \/ UserStep \/ FaultStep

Spec == Init /\ [][Next]_vars

(* Clients and bthreads that run go on, and what is on its way arrives,    *)
(* unless it is lost.  Nobody has to start, to stop or to send.            *)
FairSpec == Spec /\ WF_vars(ClientStep) /\ WF_vars(LogicStep) /\ WF_vars(NetStep)

--------------------------------------------------------------------------------
Seen == [msg : Messages, id : Nat]

TypeOK ==
    /\ session \in [Users -> Servers \union {NoServer}]
    /\ rows \subseteq [user : Users, msg : Messages, id : Nat]
    /\ task \in [Messages -> [stage : {"new", "lookup", "send", "done"},
                              found : Seq(Servers \union {NoServer}), next : Nat]]
    /\ table \in [Servers -> [Users -> Nat]]
    /\ client \in [Users -> [stage : {"off", "signin", "fetch", "poll", "waiting"},
                             server : Servers \union {NoServer},
                             run : Nat, call : Nat]]
    /\ seen \in [Users -> SUBSET Seen]
    /\ net \subseteq
          [kind : {"signin"}, server : Servers, user : Users, run : Nat]
          \union [kind : {"pull"}, server : Servers, user : Users, call : Nat]
          \union [kind : {"push"}, server : Servers, user : Users, msg : Messages, id : Nat]
          \union [kind : {"answer"}, user : Users, call : Nat, ok : BOOLEAN,
                  got : SUBSET Seen]
    /\ starts \in 0 .. MaxStarts
    /\ faults \in 0 .. MaxFaults

Listening(u) == /\ client[u].stage = "waiting"
                /\ table[client[u].server][u] = client[u].call

(* No lost wakeup: the call a client waits for is in exactly one place, on *)
(* its way to the table, in the table or on its way back, whichever older  *)
(* calls arrive late and replace it, and whoever takes it out.             *)
WaitingCallIsFound ==
    \A u \in Users : client[u].stage = "waiting" =>
        Cardinality({x \in net : /\ x.kind \in {"pull", "answer"}
                                 /\ x.user = u /\ x.call = client[u].call})
          + (IF Listening(u) THEN 1 ELSE 0) = 1

(* What a client gets, by fetching or by a push, is in its own mailbox     *)
(* under the id it comes with: the two indices of SendtoPeers never give   *)
(* one peer what belongs to another, whoever of them has a session.        *)
SeenIsStored ==
    \A u \in Users : \A g \in seen[u] : [user |-> u, msg |-> g.msg, id |-> g.id] \in rows

(* A running client always gets back to a table where messages find it:    *)
(* after a message, an expired heartbeat, a broken connection, a restarted *)
(* server or a call replaced by one that came late.                        *)
ClientsListen == <>[](\A u \in Users : client[u].stage # "off" => Listening(u))

Going(m, u)   == /\ task[m].stage \in {"lookup", "send"}
                 /\ \E i \in DOMAIN Peers[m] : Peers[m][i] = u
OnItsWay(x, u) == x.kind \in {"signin", "pull", "push"} /\ x.user = u

(* A message that comes alone to a client that listens where its session   *)
(* says, with no older request of its own still on the way, arrives: what  *)
(* SendtoPeers does for the other peers, with or without a session and at  *)
(* whichever server, takes nothing from it.                                *)
Alone(m, u) ==
    /\ task[m].stage = "lookup" /\ Going(m, u)
    /\ \A n \in Messages \ {m} : ~Going(n, u)
    /\ Listening(u) /\ session[u] = client[u].server
    /\ \A x \in net : ~OnItsWay(x, u)
    /\ faults = MaxFaults

HasSeen(u, m) == \E g \in seen[u] : g.msg = m

LoneMessageArrives ==
    \A m \in Messages, u \in Users :
        Alone(m, u) ~> \/ HasSeen(u, m)
                       \/ client[u].stage = "off"
                       \/ \E n \in Messages \ {m} : Going(n, u)

(* README.md:17 says that in the end no message is lost.  A message that   *)
(* is pushed while no call of its receiver waits is dropped, and nothing   *)
(* makes a running client fetch it.                                        *)
StoredIsSeen ==
    \A m \in Messages, u \in Users :
        (\E r \in rows : r.user = u /\ r.msg = m) /\ Listening(u)
            ~> HasSeen(u, m) \/ client[u].stage = "off"
================================================================================
