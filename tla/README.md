# A verification of tinyim

tinyim is a small instant-messaging system built on brpc: command-line clients,
*access* servers that hold their connections, *logic* servers, a storage service *dbproxy* in front of
MySQL and Redis, and a message-id service *idgen* on LevelDB. This directory
holds TLA+ models of its components, the TLC configurations that check them, and
proofs that TLAPS checks. Paths below are relative to `src/tinyim/` unless they
start with `src/`.

## 1. The system

| component | state it keeps | operations | talks to |
|---|---|---|---|
| client (`cmd_client/client.cc`) | `last_send_time`, the message it is sending, a heartbeat timer | `sendmsgto` and the loop around `SendMsg`; the PullData bthread; the heartbeat handler | access |
| access (`server/access`) | `id_map_`: per user the waiting PullData closure, the heartbeat timer, the timer's argument block; 16 mutexes | `HeartBeat`, `PullData`, `SendMsg`, `SendtoAccess`, the timeout handler, `Clear` at shutdown | logic |
| logic (`server/logic`) | none that lasts, but the running handlers, and the channel cache `access_map_` | `SendMsg`, the `SendtoPeers` bthread, forwards | dbproxy, idgen, access |
| dbproxy (`server/dbproxy`) | MySQL `messages`, Redis keys `{user}u` (last message) and `{user}a` (session) | `SavePrivateMsg`, `SaveGroupMsg`, `SetUserLastSendData_`, `GetUserLastSendData`, sessions, queries | MySQL, Redis |
| idgen (`server/idgen`) | `id_cache_` (counters), LevelDB (ends of reserved blocks), one mutex per bucket | `IdGenerate` over several users | LevelDB |
| consistent hash (`util/consistent_hash.h`) | a ring | not included by any service | - |

**Sending a message.** The client stamps it with `client_time`, the version
number that makes a repeated call idempotent, and calls `SendMsg`; only when it is
confirmed does it go on to the next. The loop around the call is meant to retry, but
uses one `brpc::Controller` for all tries (`client.cc:440`, `:449`), which brpc refuses
once it has been used: after a call that failed nothing is sent any more. What does
repeat a call is brpc itself, when a connection breaks under it. access resets the user's heartbeat timer and
forwards the call. logic asks dbproxy for the sender's last message (Redis first,
MySQL when the key is absent) and answers at once if the `client_time` is the same;
otherwise it gets one id per mailbox from idgen, has dbproxy save the rows, answers
with the sender's id and starts `SendtoPeers`, which looks the peers' sessions up
and calls `SendtoAccess` at their access servers.

**Receiving.** A client signs in, which stores the address of its access server as its
session (3600 s), fetches its stored messages once and then loops over PullData, a
long poll: access keeps the closure of the call in its table until a message, a newer
PullData or the heartbeat timeout takes it. A message that finds no closure is dropped.

**Staying connected.** The client's timer sends a HeartBeat every 300 s, the prompt
cancels it while it sends; access throws out (erases, and closes the connection of) a
user of whom it has heard no HeartBeat, SendMsg or PullData for 400 s.

What is hard here, and what makes each component correct:

- *idgen*: several handlers on the same user, requests over several buckets, failed
  LevelDB calls and restarts. Ids of a user must never be handed out twice; no return
  path may keep a mutex.
- *dbproxy*: every save is several remote calls without a transaction, handlers of one
  message race, and their callers give up on them. The Redis key must not run ahead
  of MySQL; only one handler of a message may think it saved it.
- *sending*: timeouts, lost replies, requests delivered late or twice, the read of the
  last message long before the write. What is confirmed must be stored, once, under
  the confirmed id; mailboxes must keep a sender's order; every call must be answered.
- *access*: timers that fire while a handler replaces them, closures wanted by
  three parties, a shutdown that does not lock. No waiting call may be forgotten or
  answered twice; no client may stay in the table for ever.
- *receiving*: sessions older than the client, closures of calls nobody waits for any
  more, requests that overtake each other. A running client must always get back to a
  table where messages find it; nobody may get what belongs to another.
- *heartbeats*: two threads that cancel and arm timers through one field. The client
  must never end up without a timer, nor be thrown out while it is alive.

`PROJECT.json` lists the hazards line by line with the properties that cover them.

## 2. Modules

| module | models | size of a step |
|---|---|---|
| `IdAllocator` | the promise of idgen: per user, ids only increase; a restart may take the promise back for some users | one range handed out |
| `IdGen` | `LevelDbIdGen::IdGenerate` and the service handler over it | code between two points where another bthread can be seen: the mutex, the LevelDB calls, the read and the advance of the counter |
| `IdGenProofs` | theorems about `IdGen` | |
| `Dbproxy` | the tables and the handlers that save | one INSERT or one Redis command |
| `DbproxyProofs` | theorems about `Dbproxy` | |
| `Delivery` | the promise of sending: a message is stored once and in order, what is confirmed is stored, what is pushed is complete | one observable change |
| `SendPath` (EXTENDS `Dbproxy`) | client, logic and storage together | one remote call or one statement of it |
| `SendPathProofs` (EXTENDS `DbproxyProofs`) | theorems about `SendPath` | |
| `LongPoll` | the promise of access's table: one call waits per user, each is taken once and answered by its taker; only a table that closes answers twice | one observable change |
| `Access` | `id_map_`, timers, closures | one locked section; `Clear`, which takes no lock, is cut between its reads |
| `AccessProofs` | theorems about `Access` | |
| `Push` | sessions, `SendtoPeers`, the tables of several access servers, the client from SignIn to its PullData loop | one request, answer, Redis command or SendtoAccess |
| `PushProofs` | theorems about `Push` | |
| `Heartbeat` | the client's timer and the timer of its entry, over time | one cancel, arm, call or handler; a tick |
| `HeartbeatProofs` | theorems about `Heartbeat` | |
| `MCIdGen`, `MCSendPath`, `MCAccess`, `MCPush`, `MCHeartbeat` | instances for TLC | |

### IdGen

`db` is LevelDB, `cache` is `id_cache_` with 0 for an absent entry (the code itself
tests for 0), `holder` is the array of mutexes. A handler goes `lock -> put -> issue
-> advance` for each user of its request and then replies. `Load` takes the mutex
and chooses between loading the counter (always followed by a Put) and the block
condition of line 61; `Put` writes the rounded-up end; `Start` and `Issue` are the
two statements of lines 76-77, kept apart so that the mutex has something to
protect. `GetFails` and `PutFails` leave by the error returns; a failed synchronous
write leaves the store as it was, since LevelDB does not show a write whose sync
failed. `Crash` empties everything but `db`. `grant` and `exposed` are history
variables: the latest range of each user, and the users whose counter was above
their stored end when the process died.

### Dbproxy

`rows` is the table with its unique key `(user_id, sender, client_time)`, `lastSend`
the Redis key with its expiry. `save` holds the handlers. A private message is one
INSERT of two rows, because `ChooseDatabase` returns the only pool there is; a group
message is one INSERT per member, the sender's first, each committed alone. Each
INSERT may succeed, be rejected by the key, or fail with the connection before or
after it took effect; then the Redis script runs or fails in the same two ways.
`ParsedLast` is what `sscanf` makes of the stored value, and `StoredLast` the
subquery of `GetUserLastSendData`. The text of a message is the number `no`.
In the SELECT an uninitialised `soci::indicator` makes no difference, since the three
values start at 0 and the branch it guards sets them to 0. An error *reply* of Redis
is not looked at by the code; the script has none on values it wrote itself.

### SendPath

`client` is the prompt with its send loop, `net` the calls on their way, `call` the
handlers of logic, `nextId` idgen seen through its promise (an increment per mailbox).
A call that times out stays in `net` or in its handler and goes on, and so does a save
whose caller gave up; `Deliver` may leave the call in `net`, which is brpc's own
retry (`max_retry`, `client.cc:207`, `access.cc:41`). The client hears an answer only
while it waits. The hop over access keeps no state of its own on this path and is part of
the call. A call that failed leaves the client `failed`: the loop goes round once a second
with a Controller that brpc refuses, which changes nothing, until the process is asked
to quit (`ClientQuit`, `client.cc:447`). A client is one run of the program. One that is started
again begins with `last_send_time` 0 and may send while a call of its earlier run is still
on its way; that is not modelled, and `MailboxOrder` and `ImplementsDelivery` hold within
one run (the mutant `ClientGivesUp` goes on to the next message, and breaks both).
The group error path of `SendMsg` copies the error code of the wrong controller
(`logic_service.cc:229`); brpc turns the resulting 0 into -1, so it is a failure
all the same. A handler whose save is answered (`SaveDone`) adds the push it starts to
`pushes`; `OnePushPerMessage` asks that no push of its message is there already. Under `Promise` the
rows, the confirmations and the pushes are a `Delivery`: a message is stored for its
sender only when the ones before it are confirmed, and so on.

### Access

Timer `n` is armed with an argument block of its own, block `n`. An entry keeps the
closure (`done`), the recorded timer and the recorded block (`arg`), which are not
always each other's: `PushClosureAndReply` records its timer and no block, and
keeps the recorded block when the recorded timer could not be cancelled. Cancelling
works only while a timer is `pending`; once `fired` its handler reads the user out of
the block and then waits for the mutex to erase the entry, whichever entry that is by
then. A closure taken out of the table is run after the mutex is released (`Run`).
`Clear` is three steps per entry and may meet an entry that has changed under it;
torn reads are not modelled further than that. Users share nothing but a mutex, so
instances have one user. Under `Poll` the closures, the calls and the runs of their
closures are a `LongPoll`: `Run` is its `Answer`, `AskedToQuit` its `Close`, and
`ClearRuns` its `ClosingAnswers`, an answer to a call that stays in the table. So until
the process is asked to quit no call is answered twice, and after that the contract says
who may give the second answer. A crash of `Clear` ends the process and with it all
fairness.

### Push

`session` is `{user}a`, `table` the closures of each access server, `net` the requests
and answers on their way, in no order. A client goes `off -> signin -> fetch -> poll ->
waiting -> poll ...`; `run` numbers its starts and `call` its PullData calls, so that a
late SignIn or an old closure is known for what it is. GetFriends, GetGroups and
GetGroupMembers lie between signin and fetch and change nothing. `GetMsgs` fetches ids up
to `LastFetched` (100000 in the code). `RunClosure` answers a call only when its
client still waits for it; the closure of an older start or a broken connection still
takes a message with it. A message is saved (`Save`; `SendPath` has the details),
then its bthread reads the sessions in one MGET and walks the peers with `i` (`next`),
and channels with `j` (`Channel`), which counts the peers with a session: the `Place`
of peer `i` among them is where `channel_vec` has its channel. Ids are given
(`MsgIds`), as idgen gives them. Faults, `MaxFaults` of them: a broken connection, the
heartbeat timeout of an entry, a restarted access server, an expired session, a failed
GetSessions, a lost or repeated SendtoAccess, a save whose caller gave up. A restarted
server takes the calls on it along and has its address again.

### Heartbeat

One client and its access server. `timers` are the client's timers that wait, `tracked`
is the one that `heartbeat_timeout_id` names, 0 when that one has fired (an id is never
reused by brpc, so the stale id cancels nothing). The timer thread runs one handler at
a time: `call -> arm`. The prompt goes `reading -> send -> arm`, or from `send` to
`stuck` when SendMsg fails, at logic or on the way: the loop then makes calls that brpc
refuses, so that access hears nothing and the timer cancelled before the call is not armed
again. Nothing leaves `stuck`; that the program is asked to quit is not modelled. (PullData
and the heartbeat handler use a new Controller for each call, so they do try again.)
`PromptCancels` finds the tracked timer or, when the handler runs, nothing:
then both arm one, and from then on two timers re-arm themselves, of which the field
names one. The code has no limit on them, an instance has `MaxTimers`. `expiry` is the
time left to the timer of the entry at access, `late` a timeout handler that waits for
the mutex and will erase the entry even if it is renewed meanwhile. `Tick` waits until
whatever is due has happened: a call, a handler or the second between two PullData calls is
shorter than the unit (100 s). The first timer is armed for 300 s after 1970
(`client.cc:357` adds no current time), so it is due at once. The handler runs on
brpc's timer thread and blocks it while its call runs; that the call returns, with an
answer or because the connection fails, is assumed.

## 3. Runs

| run | instance | what it shows |
|---|---|---|
| `idgen` | 2 handlers, 3 users in 2 buckets, blocks of 2, requests of one or two users and of 1 to 3 ids, 4 requests, 1 fault, 1 crash; fairness | types; `RepliesDisjoint`; refinement of `IdAllocator` (`IncreasesForEver`); `ReservationNeverShrinks`; `CoverLostOnlyAtBlockEnd`; `RequestsAnswered` |
| `idgen_restart` | the same with logic's requests | violation: `IdsIncrease` |
| `send` | 1 client, private and group messages, 2 handlers, 2 savers and, together, 3 messages with 1 fault, 2 with 2, or a clock tick in place of one (`Budget`); fairness | `DbTypeOK`, `CacheBehindStore`, `SavedOnce`, `AckedIsStored`, `MailboxOrder`, `OnePushPerMessage`, `PushedIsStored`, `CallIsAnswered`, refinement of `Delivery` (`ImplementsDelivery`) |
| `send_group` | a message to a group of three, 2 faults | violation: `AckedReachesEveryone` |
| `send_stuck` | a private message, 1 fault; fairness | violation: `SentIsAcked` |
| `send_retry` | a private message, 1 fault | violation: `RetryIsRecognised` |
| `access` | 1 user, 2 PullData calls, 4 timers, 1 stop; fairness | `TypeOK`, `PendingTimerIsTracked`, `EntryIsWatched`, `WaitingIsFound`, `ClosureRunOnce`, `HeartBeatBlockDeleted`, `SilentIsCleared`, `PullIsAnswered`, refinement of `LongPoll` (`ImplementsLongPoll`) |
| `access_blocks` | 4 timers | violation: `BlockDeletedOnce` |
| `access_quit` | 4 timers, 1 stop | violation: `ClosureRunOnceAtQuit` |
| `push` | 2 receivers, 2 servers, a group message to both and a private one, two starts in total, 1 fault; fairness | `TypeOK`, `WaitingCallIsFound`, `SeenIsStored`, `ClientsListen`, `LoneMessageArrives` |
| `push_missed` | 1 receiver, 1 server, 2 messages, no fault; fairness | violation: `StoredIsSeen` |
| `heartbeat` | period 3, timeout 4, 3 timers, 3 faults; fairness | `TypeOK`, `HeartbeatsGoOn`, `LiveClientStays`, `ClientSettles` |

Deadlock is checked in `heartbeat`, where time always goes on. Elsewhere it is not: every
instance bounds its requests, and a system that nobody calls rests.

**Bounds.** Two handlers are enough for every race of two, and the code has no
interaction that needs a third. Blocks of two ids with requests up to three reach all
cases of the block condition (inside, exactly at the end, over one block). Two faults
give a call that is delivered twice and a save that is abandoned or fails; a third message
in a second is what reuses a `client_time`. Handlers and savers are alike, and `FirstFree`
has the first free one taken, which leaves out only their exchange. Two PullData calls and four timers let a handler of an old
timer meet a renewed entry and be renewed again, and a call replace one that waits; the
safety of `Access` is proved for any number of them. In `Push` two starts in total, both of one receiver or one of each, give a session
and closures of an earlier run, two servers a session at the wrong one, a group message
with different ids the two indices; `FirstAtS1` leaves out only the exchange of the two
servers, the case that `a` moves as well as `b`, and the other order of the two saves.
The safety of `SendPath` and `Push` is proved for any numbers; their bounds limit only
what is said about liveness.
A client can end only while it can start again. In `Heartbeat` three timers are one more
than a race of handler and prompt leaves, and three faults are enough for the client to
be thrown out twice; the safety is proved for any numbers.

**Fairness.** `IdGen`: a handler that can step does; bthreads are scheduled, LevelDB
answers, and each step that waits for a mutex waits for a holder that is itself
fair. Weak fairness suffices because requests are finitely many. `Access`: timers
fire, handlers run, whoever took a closure runs it, as long as `Clear` has not crashed the
process; clients promise nothing.
`SendPath`: handlers and savers go on and
requests reach logic; no client has to send or to quit and no key to expire. `Budget` cuts
only steps that are not fair (messages, faults, ticks). `Push`: clients and bthreads
that run go on, and what is on its way arrives unless it is lost; nobody has to start,
stop or send. `Heartbeat`: threads go on and time passes.

**Mutants.** Each property is tested by a mutant of a definition of the model, kept
beside it under the comment *Mutant*: a dropped lock, a lost reset, an entry erased
too early (the line `access_service.cc:342` has commented out), `INSERT IGNORE` in
place of `INSERT`, and so on. The models never use them.

### What the violations say

1. `idgen.cc:61` - `src/README.md:26` promises ids that increase over restarts. A counter
   on the end of its block passes it without a Put. For requests of one id, the only
   ones logic makes, the condition is false for *every* counter, so a user's stored
   end stays at the end of the first block until a restart, which then repeats
   everything after it.
2. `dbproxy_service.cc:248` - a group save that fails after the sender's row is stored
   leaves members without one. In the run brpc delivers the call a second time; that
   handler finds the sender's row in MySQL and confirms the message, and when neither a
   handler nor a save works on it any more the members still have no row
   (`src/README.md:17`).
3. `dbproxy_service.cc:347` - the Redis value is written as JSON strings and parsed as
   numbers; a repeated call is not recognised while the key lives (`src/README.md:37`,
   `:56`). It goes on to get ids and is rejected by the unique key.
4. `client.cc:449` - `src/README.md:36` has the sender retransmit until it succeeds. The
   loop reuses the Controller of the call that failed, brpc refuses it, and nothing is sent
   again: one failure, be it a timeout of 100 ms, and the message is never confirmed, nor
   can the client send another. In `Heartbeat` the same prompt is `stuck` with its timer
   cancelled: PullData is all that access hears of the client, which it throws out 400 s
   after each, so the client gets thrown out again and again. `HeartbeatsGoOn`,
   `LiveClientStays` and `ClientSettles` say so by exempting it.
5. `access_service.cc:299` - PullData during a running timeout handler leads to a block
   being deleted twice.
6. `access_service.cc:373` - `Clear` runs closures it leaves in the table, without
   the lock, and they can be run again.
7. `access_service.cc:205` - between two PullData calls no closure waits, and a message
   that arrives then is dropped. Nothing fetches it while the client runs
   (`client.cc:173`, `:462`: *TODO pull msg*), though `src/README.md:17` promises that in
   the end no message is missing. No fault is needed; an expired session, an abandoned
   save and a message beyond id 100000 (`client.cc:299`) end the same way.

Two more are visible in the models without a run of their own. The third message of a
second reuses the time of the first (`client.cc:428` compares for equality only), is
rejected by the unique key, and the client is stuck with it: `AckedIsStored` and
`SavedOnce` hold, and `CallIsAnswered` names the case (`TimeReused`). And each time the prompt sends while the
heartbeat handler runs, one more timer goes on re-arming itself (`client.cc:148`: *FIXME
maybe need lock*): heartbeats become more, never fewer.

## 4. Proofs

`tlapm` checks the six proof modules; the assumptions are those the models name
(`IdGenAssumption`, `DbproxyAssumption`, `AccessAssumption`, `PushAssumption`,
`HeartbeatAssumption`), nothing else. They say of what the code is given that ids are
numbers, that the members of a group are distinct and the sender comes first, that
idgen gives the messages of one mailbox different ids, and the like.

**IdGenProofs.** For any users, handlers, buckets, block size, requests and any number
of faults and crashes:

- `Typed`, `Disjoint`, `Reserved`, `CoverLost`: the properties of run `idgen`;
- `Implements`: `Spec` implements `IdAllocator`.

None of them is inductive. The invariant `IInv` adds, in this order: the handler inside
a section holds its bucket's mutex (`SectionHeld`), hence two handlers never work
on one user; a handler about to advance has `start = cache + 1` (`StartAtCounter`);
ranges in responses are at or below the counter (`RepliesBelow`), hence a new range
is disjoint from them; the latest range of a user who was never exposed is at or below
the counter, or, after a restart, at or below `db` (`GrantsBelow`), and below the
counter once a handler has loaded it (`HeldBelow`), hence the next range is above it.
For the reservation: `db` is a multiple of the block size (`DbAligned`); a counter's
block end is at or above `db` except while a handler is about to issue
(`CounterNear`, `PutNeeded`), hence a Put never lowers `db`; and a range about to be
issued is below `db` or fits its block from a non-zero counter (`IssueCovered`), hence
`db` is passed only from exactly its value. The arithmetic of blocks (`BlockEndFacts`,
`BlockEndGrows`, `BlockRoom`) is proved first, the preservation of each part is one
lemma, with one step per action.

**DbproxyProofs.** For any users, messages, handlers, ids and faults: `DbTyped`,
`CacheBehind`, `OnlyOneSaved`. The invariant `DbInv` adds that a handler has as many
ids as its message has mailboxes (`IdsMatch`), that the rows of its finished
statements are in the table (`RowsOfDone`), and that of two handlers of one
`client_time` and sender at most one got past its first statement (`OneAhead`, by
the unique key on the sender's own row). When a handler reaches the Redis step all its
rows are stored, which is `CacheBehindStore`; two handlers past the INSERTs would
both be ahead, which is `SavedOnce`.

**SendPathProofs.** For any clients, messages, handlers, savers, calls and
faults: `SendTyped`, `StoreKept` (what `DbproxyProofs` shows of dbproxy alone also holds
below its callers), `AckedStored`, `PushedStored`, `InOrder`, `OnePush`, and
`Implements`, the whole refinement of `Delivery`. The induction has four layers.

1. `Inv` is about the client's last message. `Shapes` types the records and says that a
   handler waits for a save of its own message and ids; `UniqueKey` is the key of
   `messages`. `ClientInv` describes the rows a client has in its own mailbox: their
   times grow as they were sent (`RowsOfSent`), `client_time` is ahead of the clock only
   behind a message of the same second (`LastTimeIsOwn`), and the last message
   (`LastMessage`) is stored, or later than everything stored (`Fresh`), or has the time
   of an older message and is never stored (`Doomed`: the third message of a second).
   For the query of `GetUserLastSendData` this is decisive: the newest row has the
   `client_time` of a call just when it is the row of the call's message, so that not even
   a doomed message is confirmed with the id of another. `KnownLive` says that whatever is still on its way, in a handler or in a
   save, is the client's last message or stored already (`Settled`); this is what makes
   calls and saves that outlive their callers harmless. With it `AckedIsStored` and
   `PushedIsStored` are inductive.
2. `OrderInv` is about the mailboxes. A group's rows come one by one, but which rows they
   will be is decided with the first INSERT: `Committed` is what is in the table or about
   to follow. These rows are in the sender's order (`CommittedOrder`) and each has its
   sender's own row (`CommittedOwned`), and the ids a handler or a save of an unsaved
   message has are above those of every earlier message of that sender
   (`CallIdsAbove`, `SaveIdsAbove`). `MailboxOrder` is the part about the table.
3. `FirstIds` says that no two handlers, and no handler and push, have the sender's id in
   common. Two pushes of a message would both have the id of the one row the sender's
   mailbox has for it; hence `OnePushPerMessage`.
4. `OwnConfirmed` says that the client has an answer for every row but that of the message
   it still sends. The first INSERT of a message is a `Store` of `Delivery`, the one that
   gives the last mailbox of a group its row `Complete`, an answer `Report`; every other
   step of `SendPath`, faults included, is a stutter.

**PushProofs.** For any users, servers, messages, peers, starts and faults:

- `ChannelIsSession` is about the two indices of `SendtoPeers`: for a peer with a session,
  `channel_vec[j]` is the channel of that very session. `Place` numbers the peers with
  a session; it is a bijection (`SessionPlaces`, `PlacesDiffer`), so the CHOOSE in
  `ChannelVec` has one candidate.
- `PushTyped` needs that a running bthread is at a peer with a session (`SendGoesOn`) and
  a running client has a server (`ServerKnown`).
- `CallFound` says of `WaitingCallIsFound` that the call is in *exactly* one place, which
  is not inductive. `CallsInv` adds, for each user: no call in the net or in a table is
  newer than the client's counter (`CallsBelow`), an answer to the current call is there
  only while it is awaited (`AnswerAwaited`), that call is in no table but the one of the
  client's server (`AtHome`), and it is in one place (`InOnePlace`). A closure replaced,
  popped, cleared or lost with its server moves from one place to another.
- `SeenInMailbox`: whatever bthreads have read, and whatever is on its way in a push or an
  answer, names a row of the mailbox it goes to (`Stored`); by `ChannelIsSession` and
  the closures being the receiver's own, so does what a client gets.

**AccessProofs.** For any users, calls and timers, before and during `Clear`:
`AccessTyped`, `Tracked`, `Watched`, `Found`, `RunOnce`, `BlockDeleted`. The invariant
`AInv` adds that timers are armed in order, each once (`ArmedInOrder`), that a recorded
timer is the user's own (`RecordedIsOwn`: erasing one user cancels nobody else's
timer), that a closure in the table is that of a waiting call of the same user
(`DoneIsWaiting`: no closure is in two entries, so taking one leaves the others
found), and that until `Clear` a closure has been run just when its call is answered
(`RunsMatch`). `Blocks` adds that the block of a pending heartbeat timer is the
recorded one (`HeartBeatBlockRecorded`): whoever cancels the timer deletes that
block. The three ways a step touches the table are lemmas of their own: a timer is
replaced (`RearmKeeps`, `RearmBlocks`), a closure is taken (`CallsTaken`), or neither
(`TimersFrame`, `CallsFrame`, `BlocksFrame`). `Implements` says that every step of the
table is one of `LongPoll` or changes nothing its callers see, where each run of a closure
is an answer; that Clear only runs closures of a process that was asked to quit is
`RunsMatch` again. That a taken call is answered, the rest of `ImplementsLongPoll`, is liveness and stays with TLC.

**HeartbeatProofs.** For every period below the timeout, any number of timers and faults:
`Typed`, `GoesOn`, `LiveStays`. `HeartbeatsGoOn` is inductive. `LiveClientStays` is not;
`LiveInv` adds why the timer of the entry never runs out while no call is lost and no
SendMsg has failed (`InTime`): a heartbeat or a send is about to arm it, one just has, or one of the
client's timers has less time left than it. Arming sets the entry's timer to the
timeout, above anything the client's timers can have (`ResetInTime`), and a tick takes
one from both.

**Only model-checked**: liveness, which with `ENABLED` is beyond the prover:
`RequestsAnswered`, `CallIsAnswered`, `SilentIsCleared`, `PullIsAnswered`, `ClientsListen`,
`LoneMessageArrives`, `ClientSettles`, and the fairness in `ImplementsLongPoll`. Every
invariant and every action property of the passing runs is a theorem. Induction over data
is out of reach too; the models define nothing recursively.

## 5. Not modelled

- `GetFriends`, `GetGroups`, `GetGroupMembers`: read-only; the members of a group are a
  constant of the models. `ClearSession` and `SignOut`: nobody calls the first, the
  second does nothing.
- `ConsistentHash`: used by nothing. Its `find` asserts that the ring is *empty*.
- The leak of PullData's argument blocks, allocation failures, brpc's internals, error
  replies of Redis (`dbproxy_service.cc:106` ends the process on one), flags, logging,
  `main`, the hand-run drivers, generated code.
- That a client drops repeated messages (`src/README.md:54`): it has no code for it. What
  a client has got is a set in `Push`.
- A client program that is ended with a call on its way and started again (see `SendPath`
  above), and the end of a program whose prompt is stuck in `Heartbeat`.
- Restarts of idgen inside `SendPath` and `Push`: there idgen keeps its promise.

## 6. Plan

1. *Done*: all modules above; proofs of every safety property the passing runs check.
2. Proofs: that the tables of several servers in `Push` are `LongPoll`s while they run; a
   bound on the heartbeats of `Heartbeat`.
3. `IdGen` in place of `nextId` inside `SendPath`: `MailboxOrder` for users never
   exposed, and what a repeated id does to a mailbox.
4. `ConsistentHash` as an operator on finite maps, checked against "the next node on
   the ring", if a service comes to use it.
