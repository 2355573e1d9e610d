--------------------------------- MODULE IdGen ---------------------------------
(***************************************************************************)
(* The message-id service: IdGenServiceImpl::IdGenerate walks the users of *)
(* a request, and LevelDbIdGen::IdGenerate hands each one a range of ids   *)
(* from an in-memory counter.  LevelDB holds, per user, the end of a block *)
(* of ids meant to be at or above every id handed out, so that a restart   *)
(* can resume from it.                                                     *)
(***************************************************************************)
EXTENDS Naturals, Sequences

CONSTANTS
    Threads,        \* the bthreads that run the handler
    NoThread,       \* the holder of a free mutex
    Users,          \* user ids
    BucketNum,      \* kBucketNum: one mutex per bucket of users
    BlockSize,      \* FLAGS_each_gen_id_num
    Requests,       \* requests the callers send: sequences of [user, need]
    MaxRequests,    \* bound: requests received
    MaxFaults,      \* bound: LevelDB operations that fail
    MaxCrashes      \* bound: crashes of the process

Items == [user : Users, need : Nat \ {0}]

ASSUME IdGenAssumption ==
    /\ NoThread \notin Threads
    /\ Users \subseteq Nat
    /\ BucketNum \in Nat \ {0}
    /\ BlockSize \in Nat \ {0}
    /\ Requests \subseteq Seq(Items) \ {<< >>}

VARIABLES
    db,         \* LevelDB: user -> end of the reserved block, 0 when absent
    cache,      \* id_cache_: user -> last id handed out, 0 when absent
    holder,     \* mutex_: bucket -> the thread that holds it
    pc,         \* where each handler is
    request,    \* the request each handler works on
    reply,      \* the ranges each handler has put in its response so far
    start,      \* start_id of each handler
    grant,      \* history: per user, the latest range handed out (the nth)
    exposed,    \* history: users whose counter was above db at a crash
    received, faults, crashes       \* counted against the bounds

vars == <<db, cache, holder, pc, request, reply, start, grant, exposed,
          received, faults, crashes>>

Bucket(u) == u % BucketNum
Buckets   == 0 .. BucketNum - 1

(* The end of the block that x falls in. *)
BlockEnd(x) == ((x + BlockSize - 1) \div BlockSize) * BlockSize

(* Mutant: the condition allows one id too many. *)
ExceedsLate(x, need) == (x % BlockSize) + need > BlockSize + 1

(* The block of the cached counter cannot hold `need` more ids. *)
Exceeds(x, need) == (x % BlockSize) + need > BlockSize

(* The item of its request a handler is working on: one range per item is  *)
(* appended to the response, in order.                                     *)
Item(t) == request[t][Len(reply[t]) + 1]
User(t) == Item(t).user
Need(t) == Item(t).need

(* Mutants: the mutex is not taken; the stored value is not used; the new  *)
(* end is computed from the request alone.                                 *)
FreeAlways(b) == TRUE
GetAbsent(u)  == 0
EndOfNeed(t)  == BlockEnd(Need(t))

Free(b)     == holder[b] = NoThread
Get(u)      == db[u]
NewEnd(t)   == BlockEnd(cache[User(t)] + Need(t))
Advanced(t) == cache[User(t)] + Need(t)

Init ==
    /\ db = [u \in Users |-> 0]
    /\ cache = [u \in Users |-> 0]
    /\ holder = [b \in Buckets |-> NoThread]
    /\ pc = [t \in Threads |-> "idle"]
    /\ request = [t \in Threads |-> << >>]
    /\ reply = [t \in Threads |-> << >>]
    /\ start = [t \in Threads |-> 0]
    /\ grant = [u \in Users |-> [nth |-> 0, first |-> 0, last |-> 0]]
    /\ exposed = {}
    /\ received = 0 /\ faults = 0 /\ crashes = 0

(* A request arrives and a handler starts on it. *)
Receive(t) ==
    /\ pc[t] = "idle"
    /\ received < MaxRequests
    /\ received' = received + 1
    /\ \E r \in Requests : request' = [request EXCEPT ![t] = r]
    /\ pc' = [pc EXCEPT ![t] = "lock"]
    /\ UNCHANGED <<db, cache, holder, reply, start, grant, exposed, faults, crashes>>

(* Take the bucket's mutex and look at the counter.  A zero counter is     *)
(* loaded from LevelDB and always followed by a Put; otherwise the Put is  *)
(* made only when the block is exceeded.                                   *)
Load(t) ==
    /\ pc[t] = "lock"
    /\ Free(Bucket(User(t)))
    /\ holder' = [holder EXCEPT ![Bucket(User(t))] = t]
    /\ \/ /\ cache[User(t)] = 0
          /\ cache' = [cache EXCEPT ![User(t)] = Get(User(t))]
          /\ pc' = [pc EXCEPT ![t] = "put"]
       \/ /\ cache[User(t)] # 0
          /\ pc' = [pc EXCEPT ![t] =
                      IF Exceeds(cache[User(t)], Need(t)) THEN "put" ELSE "issue"]
          /\ UNCHANGED cache
    /\ UNCHANGED <<db, request, reply, start, grant, exposed, received, faults, crashes>>

(* Mutant: the response keeps its ranges. *)
FailKeepsReply(t) ==
    /\ faults < MaxFaults
    /\ faults' = faults + 1
    /\ pc' = [pc EXCEPT ![t] = "idle"]
    /\ request' = [request EXCEPT ![t] = << >>]
    /\ UNCHANGED <<db, cache, reply, start, grant, exposed, received, crashes>>

(* SetFailed: the response is an error and its ranges are never sent. *)
Fail(t) ==
    /\ faults < MaxFaults
    /\ faults' = faults + 1
    /\ pc' = [pc EXCEPT ![t] = "idle"]
    /\ request' = [request EXCEPT ![t] = << >>]
    /\ reply' = [reply EXCEPT ![t] = << >>]
    /\ UNCHANGED <<db, cache, start, grant, exposed, received, crashes>>

(* LevelDB's Get fails with something other than NotFound. *)
GetFails(t) ==
    /\ pc[t] = "lock"
    /\ Free(Bucket(User(t)))
    /\ cache[User(t)] = 0
    /\ Fail(t)
    /\ UNCHANGED holder

(* Reserve up to the end of the block of the last id about to be issued. *)
Put(t) ==
    /\ pc[t] = "put"
    /\ db' = [db EXCEPT ![User(t)] = NewEnd(t)]
    /\ pc' = [pc EXCEPT ![t] = "issue"]
    /\ UNCHANGED <<cache, holder, request, reply, start, grant, exposed,
                   received, faults, crashes>>

(* Mutant: this return path keeps the mutex. *)
PutFailsLocked(t) ==
    /\ pc[t] = "put"
    /\ Fail(t)
    /\ UNCHANGED holder

(* LevelDB's Put fails: the request fails, the loaded counter stays. *)
PutFails(t) ==
    /\ pc[t] = "put"
    /\ holder' = [holder EXCEPT ![Bucket(User(t))] = NoThread]
    /\ Fail(t)

(* start_id = original_id + 1 ... *)
Start(t) ==
    /\ pc[t] = "issue"
    /\ start' = [start EXCEPT ![t] = cache[User(t)] + 1]
    /\ pc' = [pc EXCEPT ![t] = "advance"]
    /\ UNCHANGED <<db, cache, holder, request, reply, grant, exposed,
                   received, faults, crashes>>

(* ... original_id += need_msgid_num; the mutex is released and the range  *)
(* goes into the response.                                                 *)
Issue(t) ==
    LET last == start[t] + Need(t) - 1 IN
    /\ pc[t] = "advance"
    /\ cache' = [cache EXCEPT ![User(t)] = Advanced(t)]
    /\ grant' = [grant EXCEPT ![User(t)] =
                   [nth |-> @.nth + 1, first |-> start[t], last |-> last]]
    /\ reply' = [reply EXCEPT ![t] =
                   Append(@, [user |-> User(t), first |-> start[t], last |-> last])]
    /\ start' = [start EXCEPT ![t] = 0]
    /\ holder' = [holder EXCEPT ![Bucket(User(t))] = NoThread]
    /\ pc' = [pc EXCEPT ![t] =
                IF Len(reply[t]) + 1 = Len(request[t]) THEN "reply" ELSE "lock"]
    /\ UNCHANGED <<db, request, exposed, received, faults, crashes>>

(* done_guard sends the response. *)
Reply(t) ==
    /\ pc[t] = "reply"
    /\ pc' = [pc EXCEPT ![t] = "idle"]
    /\ request' = [request EXCEPT ![t] = << >>]
    /\ reply' = [reply EXCEPT ![t] = << >>]
    /\ UNCHANGED <<db, cache, holder, start, grant, exposed,
                   received, faults, crashes>>

(* The process dies and restarts with an empty id_cache_; LevelDB stays. *)
Crash ==
    /\ crashes < MaxCrashes
    /\ crashes' = crashes + 1
    /\ cache' = [u \in Users |-> 0]
    /\ holder' = [b \in Buckets |-> NoThread]
    /\ pc' = [t \in Threads |-> "idle"]
    /\ request' = [t \in Threads |-> << >>]
    /\ reply' = [t \in Threads |-> << >>]
    /\ exposed' = exposed \union {u \in Users : cache[u] > db[u]}
    /\ start' = [t \in Threads |-> 0]
    /\ UNCHANGED <<db, grant, received, faults>>

Step(t) ==
    \/ Load(t) \/ GetFails(t) \/ Put(t) \/ PutFails(t)
    \/ Start(t) \/ Issue(t) \/ Reply(t)

Next ==
    \/ \E t \in Threads : Receive(t) \/ Step(t)
    \/ Crash

Spec == Init /\ [][Next]_vars

(* A handler that can take a step takes one: bthreads are scheduled, the   *)
(* mutex is released on every return path, LevelDB answers.                *)
FairSpec == Spec /\ \A t \in Threads : WF_vars(Step(t))

--------------------------------------------------------------------------------
Ranges == [user : Users, first : Nat, last : Nat]

(* Types, and how far through its request a handler is. *)
HandlerOK(t) ==
    /\ pc[t] = "idle"  => request[t] = << >> /\ reply[t] = << >>
    /\ pc[t] = "reply" => Len(reply[t]) = Len(request[t])
    /\ pc[t] \notin {"idle", "reply"} => Len(reply[t]) < Len(request[t])

TypeOK ==
    /\ db \in [Users -> Nat]
    /\ cache \in [Users -> Nat]
    /\ holder \in [Buckets -> Threads \union {NoThread}]
    /\ pc \in [Threads -> {"idle", "lock", "put", "issue", "advance", "reply"}]
    /\ request \in [Threads -> Seq(Items)]
    /\ reply \in [Threads -> Seq(Ranges)]
    /\ start \in [Threads -> Nat]
    /\ \A t \in Threads : HandlerOK(t)
    /\ grant \in [Users -> [nth : Nat, first : Nat, last : Nat]]
    /\ exposed \in SUBSET Users
    /\ received \in Nat /\ faults \in Nat /\ crashes \in Nat

(* Two responses under construction at the same time, or two ranges of one *)
(* response, never hold the same id of a user: between reading start_id    *)
(* and advancing the counter the bucket's mutex keeps every other handler  *)
(* out, and failed reads, failed writes and restarts change nothing of it. *)
Overlap(r, s) == r.user = s.user /\ r.first <= s.last /\ s.first <= r.last

RepliesDisjoint ==
    \A t1, t2 \in Threads :
        \A i \in 1 .. Len(reply[t1]), j \in 1 .. Len(reply[t2]) :
            <<t1, i>> # <<t2, j>> => ~Overlap(reply[t1][i], reply[t2][j])

(* The reserved end never moves down: no Put ever shrinks what an earlier  *)
(* Put reserved, whatever mix of sizes and failures came between.          *)
ReservationNeverShrinks == [][\A u \in Users : db'[u] >= db[u]]_vars

(* The counter passes db in one case only: it sat exactly on the end of    *)
(* the reserved block, which the `>` of the Put condition takes for room.  *)
CoverLostOnlyAtBlockEnd ==
    [][\A u \in Users :
          cache[u] <= db[u] /\ cache'[u] > db'[u]
             => cache[u] = db[u] /\ cache[u] # 0]_vars

(* The service implements the allocator its callers count on: ids of a     *)
(* user increase for ever, across failed requests, failed reads and writes *)
(* and restarts, unless a restart caught the user's counter above db.      *)
Allocator == INSTANCE IdAllocator

IncreasesForEver == Allocator!Spec

(* README.md:26 says of the service that it guarantees monotonically       *)
(* increasing ids, restarts included.  A counter on the end of a block     *)
(* issues the next id without a Put, so a restart hands that id out again; *)
(* logic asks for one id at a time, which never leads to a second Put.     *)
IdsIncrease ==
    [][\A u \in Users :
          grant'[u] # grant[u] => grant'[u].first > grant[u].last]_vars

(* Every request that reaches a handler is answered, or fails with the     *)
(* process: no return path keeps a mutex that another handler waits for.   *)
RequestsAnswered == \A t \in Threads : pc[t] = "lock" ~> pc[t] = "idle"
================================================================================
