-------------------------------- MODULE Dbproxy --------------------------------
(***************************************************************************)
(* The storage service: the MySQL table `messages`, one row per mailbox a  *)
(* message goes to, and the Redis key {user}u with the last message saved  *)
(* for a sender.  Handlers of SavePrivateMsg and SaveGroupMsg run          *)
(* concurrently, and go on when their caller has given up on them.         *)
(***************************************************************************)
EXTENDS Naturals, Sequences

CONSTANTS
    Users,          \* user ids
    Messages,       \* messages that callers may ask to save
    Ids,            \* message ids they may come with
    Savers,         \* the bthreads that run the save handlers
    NoMsg,          \* the message of a handler that has not run yet
    NoKey,          \* an absent Redis key
    MaxFaults       \* bound: remote calls that fail or time out

(* rcpts lists the mailboxes a message goes to, the sender's first; `no`   *)
(* tells two messages of a sender apart (the text).                        *)
Message == [sender : Users, no : Nat, time : Nat,
            kind : {"private", "group"}, rcpts : Seq(Users)]

ASSUME DbproxyAssumption ==
    /\ NoMsg \notin Messages
    /\ Messages \subseteq Message
    /\ \A m \in Messages :
          /\ m.rcpts # << >> /\ m.rcpts[1] = m.sender
          /\ \A i, j \in 1 .. Len(m.rcpts) : m.rcpts[i] = m.rcpts[j] => i = j
    /\ Ids \subseteq Nat
    /\ NoKey \notin [time : Nat, id : Nat]

VARIABLES
    rows,       \* MySQL: the rows of `messages`
    lastSend,   \* Redis: user -> [time, id] of {user}u, or NoKey
    save,       \* the save handlers
    faults      \* faults so far

dbVars == <<rows, lastSend, save>>
vars   == <<rows, lastSend, save, faults>>

(* Nothing known of the sender: msg_id, client_time and msg_time are 0. *)
NoLast == [time |-> 0, id |-> 0]

DbInit ==
    /\ rows = {}
    /\ lastSend = [u \in Users |-> NoKey]
    /\ save = [w \in Savers |->
                 [stage |-> "free", msg |-> NoMsg, ids |-> << >>, done |-> 0]]
    /\ faults = 0

Row(m, ids, i) == [user |-> m.rcpts[i], sender |-> m.sender, time |-> m.time,
                   no |-> m.no, kind |-> m.kind, id |-> ids[i]]

(* Mutant: the loop over the members ends after the sender. *)
StatementsOne(m) == 1

(* The statements that save a message.  A private message is one INSERT of *)
(* both rows (ChooseDatabase has one pool), a group message is one INSERT  *)
(* per member, each committed on its own.                                  *)
Statements(m) == IF m.kind = "private" THEN 1 ELSE Len(m.rcpts)

Inserted(m, ids, k) ==
    IF m.kind = "private" THEN {Row(m, ids, i) : i \in 1 .. Len(m.rcpts)}
                          ELSE {Row(m, ids, k)}

(* Mutant: the key also has the text. *)
SameKeyAndText(r, s) ==
    r.user = s.user /\ r.sender = s.sender /\ r.time = s.time /\ r.no = s.no

(* UNIQUE KEY (user_id, sender, client_time). *)
SameKey(r, s) == r.user = s.user /\ r.sender = s.sender /\ r.time = s.time
Conflicts(new) == \E r \in rows, s \in new : SameKey(r, s)

Statement(w) == Inserted(save[w].msg, save[w].ids, save[w].done + 1)

(* Mutant: the progress of the handler before is kept. *)
SaveNoReset(w, m, ids) ==
    /\ save[w].stage \in {"free", "saved", "failed"}
    /\ save' = [save EXCEPT ![w] =
                  [stage |-> "insert", msg |-> m, ids |-> ids, done |-> @.done]]
    /\ UNCHANGED <<rows, lastSend>>

(* A save request reaches dbproxy; `w` is a handler nobody waits for. *)
Save(w, m, ids) ==
    /\ save[w].stage \in {"free", "saved", "failed"}
    /\ save' = [save EXCEPT ![w] =
                  [stage |-> "insert", msg |-> m, ids |-> ids, done |-> 0]]
    /\ UNCHANGED <<rows, lastSend>>

(* The next INSERT succeeds; after the last one comes the Redis key. *)
Insert(w) ==
    /\ save[w].stage = "insert"
    /\ ~Conflicts(Statement(w))
    /\ rows' = rows \union Statement(w)
    /\ save' = [save EXCEPT ![w] =
                  [stage |-> IF @.done + 1 = Statements(@.msg)
                             THEN "cache" ELSE "insert",
                   msg |-> @.msg, ids |-> @.ids, done |-> @.done + 1]]
    /\ UNCHANGED <<lastSend, faults>>

(* Mutant: a duplicate counts as stored, as INSERT IGNORE would have it. *)
InsertIgnored(w) ==
    /\ save[w].stage = "insert"
    /\ Conflicts(Statement(w))
    /\ save' = [save EXCEPT ![w].stage = "cache"]
    /\ UNCHANGED <<rows, lastSend, faults>>

(* The INSERT meets the unique key: EINVAL; earlier statements stay. *)
InsertRejected(w) ==
    /\ save[w].stage = "insert"
    /\ Conflicts(Statement(w))
    /\ save' = [save EXCEPT ![w].stage = "failed"]
    /\ UNCHANGED <<rows, lastSend, faults>>

(* The connection to MySQL fails, before or after the INSERT took effect. *)
InsertFails(w) ==
    /\ save[w].stage = "insert"
    /\ faults < MaxFaults /\ faults' = faults + 1
    /\ \/ UNCHANGED rows
       \/ ~Conflicts(Statement(w)) /\ rows' = rows \union Statement(w)
    /\ save' = [save EXCEPT ![w].stage = "failed"]
    /\ UNCHANGED lastSend

(* The script of SetUserLastSendData_: only a later message replaces a     *)
(* live key, and setting it renews its 3600 seconds.                       *)
Newer(k, m) == k = NoKey \/ k.time < m.time

SetLastSend(w) ==
    lastSend' =
        IF Newer(lastSend[save[w].msg.sender], save[w].msg)
        THEN [lastSend EXCEPT ![save[w].msg.sender] =
                [time |-> save[w].msg.time, id |-> save[w].ids[1]]]
        ELSE lastSend

SetUserLastSendData(w) ==
    /\ save[w].stage = "cache"
    /\ SetLastSend(w)
    /\ save' = [save EXCEPT ![w].stage = "saved"]
    /\ UNCHANGED <<rows, faults>>

(* Redis fails, before or after the script ran: the caller is told EINVAL  *)
(* although the rows are stored.                                           *)
SetUserLastSendDataFails(w) ==
    /\ save[w].stage = "cache"
    /\ faults < MaxFaults /\ faults' = faults + 1
    /\ UNCHANGED lastSend \/ SetLastSend(w)
    /\ save' = [save EXCEPT ![w].stage = "failed"]
    /\ UNCHANGED rows

(* 3600 seconds have passed since the key was set, or Redis evicts it. *)
Expire(u) ==
    /\ lastSend[u] # NoKey
    /\ lastSend' = [lastSend EXCEPT ![u] = NoKey]
    /\ UNCHANGED <<rows, save, faults>>

SaveStep(w) ==
    \/ Insert(w) \/ InsertRejected(w) \/ InsertFails(w)
    \/ SetUserLastSendData(w) \/ SetUserLastSendDataFails(w)

(* GetUserLastSendData on a live key: the script stores the ids and times  *)
(* as JSON strings, ["5","1600","1601"], and sscanf's "[%ld,%d,%d]" stops  *)
(* at the first quote, so the three values stay 0.                         *)
ParsedLast(k) == NoLast

(* GetUserLastSendData without a key: the sender's own row with the        *)
(* greatest client_time.                                                   *)
OwnRows(u) == {r \in rows : r.user = u /\ r.sender = u}

StoredLast(u) ==
    IF OwnRows(u) = {} THEN NoLast
    ELSE LET r == CHOOSE r \in OwnRows(u) :
                     \A s \in OwnRows(u) : s.time <= r.time
         IN [time |-> r.time, id |-> r.id]

--------------------------------------------------------------------------------
(* dbproxy by itself: any caller may ask to save any message with any ids. *)
DbNext ==
    \/ \E w \in Savers, m \in Messages :
          \E ids \in [1 .. Len(m.rcpts) -> Ids] :
             Save(w, m, ids) /\ UNCHANGED faults
    \/ \E w \in Savers : SaveStep(w)
    \/ \E u \in Users : Expire(u)

DbSpec == DbInit /\ [][DbNext]_vars

--------------------------------------------------------------------------------
Rows == [user : Users, sender : Users, time : Nat, no : Nat,
         kind : {"private", "group"}, id : Nat]

(* Types; a handler that inserts has a statement left, one that is past    *)
(* the INSERTs has done them all.                                          *)
DbTypeOK ==
    /\ rows \in SUBSET Rows
    /\ lastSend \in [Users -> [time : Nat, id : Nat] \union {NoKey}]
    /\ save \in [Savers ->
                   [stage : {"free", "insert", "cache", "saved", "failed"},
                    msg : Messages \union {NoMsg}, ids : Seq(Nat), done : Nat]]
    /\ faults \in Nat
    /\ \A w \in Savers :
          /\ save[w].stage # "free" => save[w].msg \in Messages
          /\ save[w].stage = "insert" => save[w].done < Statements(save[w].msg)
          /\ save[w].stage \in {"cache", "saved"}
                => save[w].done = Statements(save[w].msg)

(* The mailbox of v holds the message m. *)
Holds(v, m) == \E r \in rows : /\ r.user = v /\ r.sender = m.sender
                              /\ r.time = m.time /\ r.no = m.no /\ r.kind = m.kind

StoredEverywhere(m) == \A i \in 1 .. Len(m.rcpts) : Holds(m.rcpts[i], m)

(* README.md:54 counts on Redis never being ahead of MySQL.  A live key    *)
(* names a message that MySQL holds in every mailbox it goes to, under the *)
(* key's id in the sender's own, whichever handlers ran, raced, failed or  *)
(* were abandoned by their caller.                                         *)
CacheBehindStore ==
    \A u \in Users : lastSend[u] # NoKey =>
        \E m \in Messages :
            /\ m.sender = u /\ m.time = lastSend[u].time
            /\ StoredEverywhere(m)
            /\ [user |-> u, sender |-> u, time |-> m.time, no |-> m.no, kind |-> m.kind,
                id |-> lastSend[u].id] \in rows

(* Of the handlers that save one message at once (repeated calls), or two  *)
(* messages of a sender with the same client_time, only one ever gets past *)
(* the INSERTs, so only one caller is told that its ids were stored.       *)
SavedOnce ==
    \A w1, w2 \in Savers :
        /\ w1 # w2
        /\ save[w1].stage \in {"cache", "saved"}
        /\ save[w2].stage \in {"cache", "saved"}
        => \/ save[w1].msg.sender # save[w2].msg.sender
           \/ save[w1].msg.time # save[w2].msg.time
================================================================================
