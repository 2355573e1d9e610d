------------------------------ MODULE AccessProofs -----------------------------
(***************************************************************************)
(* What Access promises for every set of users and calls, any number of    *)
(* timers, and at any moment of its life.                                  *)
(***************************************************************************)
EXTENDS Access, TLAPS

Entries == [present : BOOLEAN, done : Calls \union {NoCall},
            timer : 0 .. MaxTimers, arg : 0 .. MaxTimers]
Alarms  == [stage : {"new", "pending", "fired", "clearing", "gone"},
            by : {"none", "heartbeat", "pull"}, user : Users]
Pulls   == [stage : {"new", "waiting", "taken", "answered"}, user : Users]

(* Who arms timers. *)
Rearmers == {"heartbeat", "pull"}

(* Timers are armed in order, each once.                                   *)
ArmedInOrder ==
    \A n \in Timers : timer[n].stage = "new" <=> n > armed

(* A recorded timer is an armed one of the user's own.                     *)
RecordedIsOwn ==
    \A u \in Users : entry[u].timer # 0 =>
        entry[u].timer <= armed /\ timer[entry[u].timer].user = u

(* A closure in the table is that of a call of the user that waits.        *)
DoneIsWaiting ==
    \A u \in Users : entry[u].done # NoCall =>
        pull[entry[u].done].stage = "waiting" /\ pull[entry[u].done].user = u

(* While the server serves, Clear is nowhere and a closure has been run    *)
(* just when its call is answered.                                         *)
RunsMatch ==
    stops = 0 =>
        /\ \A u \in Users : visit[u] = "no"
        /\ \A c \in Calls : runs[c] = IF pull[c].stage = "answered" THEN 1 ELSE 0

(* The types of the tables, by themselves.                                 *)
Tables ==
    /\ entry \in [Users -> Entries]
    /\ timer \in [Timers -> Alarms]
    /\ pull \in [Calls -> Pulls]
    /\ armed \in 0 .. MaxTimers

(* TypeOK, without what the counters and Clear add to it. *)
LEMMA TypesOfTables == TypeOK => Tables
BY DEF TypeOK, Tables, Entries, Alarms, Pulls

(* The table starts empty.                                                 *)
LEMMA TypeInit == Init => TypeOK
<1> SUFFICES ASSUME Init PROVE TypeOK
    OBVIOUS
<1>1. (CHOOSE u \in Users : TRUE) \in Users
    BY AccessAssumption
<1>2. 0 \in 0 .. MaxTimers
    BY AccessAssumption
<1>3. Absent \in Entries
    BY <1>2 DEF Absent, Entries
<1>4. entry \in [Users -> Entries] /\ \A u \in Users : entry[u] = Absent
    BY <1>3 DEF Init
<1>5. timer \in [Timers -> Alarms] /\ pull \in [Calls -> Pulls]
    BY <1>1 DEF Init, Alarms, Pulls
<1>6. /\ deletes \in [Timers -> Nat] /\ runs \in [Calls -> Nat]
      /\ visit \in [Users -> {"no", "check", "run", "timer", "done"}]
      /\ armed \in 0 .. MaxTimers /\ stops \in 0 .. 1
    BY <1>2 DEF Init
<1>7. crashed \in BOOLEAN
    BY Zenon DEF Init
<1> QED  BY <1>4, <1>5, <1>6, <1>7 DEF TypeOK, Entries, Alarms, Pulls

(* Deleting blocks counts up from naturals.                                *)
LEMMA DeletedType ==
    ASSUME deletes \in [Timers -> Nat], NEW blocks
    PROVE  Deleted(blocks) \in [Timers -> Nat]
BY DEF Deleted

(* Taking a closure leaves calls of the right types.                       *)
LEMMA TakeType ==
    ASSUME Tables, NEW u \in Users
    PROVE  Take(u, pull) \in [Calls -> Pulls]
<1>1. entry[u].done \in Calls \union {NoCall}
    BY DEF Tables, Entries
<1>2. pull \in [Calls -> Pulls]
    BY DEF Tables
<1>3. ASSUME NEW c \in Calls
      PROVE  [pull EXCEPT ![c].stage = "taken"] \in [Calls -> Pulls]
    BY <1>2, <1>3 DEF Pulls
<1> QED  BY <1>1, <1>2, <1>3 DEF Take

(* What Rearm does to the timers.                                          *)
LEMMA RearmFacts ==
    ASSUME Tables, deletes \in [Timers -> Nat], NEW u \in Users,
           NEW by \in Rearmers, Rearm(u, by)
    PROVE  /\ armed + 1 \in Timers /\ armed' = armed + 1 /\ armed' \in 0 .. MaxTimers
           /\ timer' \in [Timers -> Alarms]
           /\ deletes' \in [Timers -> Nat]
           /\ timer'[armed + 1] = [stage |-> "pending", by |-> by, user |-> u]
           /\ \A n \in Timers \ {armed + 1} :
                 IF Cancels(u) /\ n = entry[u].timer
                 THEN timer'[n].stage = "gone" /\ timer'[n].user = timer[n].user
                 ELSE timer'[n] = timer[n]
<1>1. armed \in Nat /\ armed < MaxTimers /\ MaxTimers \in Nat /\ armed' = armed + 1
    BY AccessAssumption DEF Tables, Rearm
<1>2. armed + 1 \in Timers /\ armed' \in 0 .. MaxTimers
    BY <1>1 DEF Timers
<1>3. timer \in [Timers -> Alarms]
    BY DEF Tables
<1>4. \A n \in Timers : [timer[n] EXCEPT !.stage = "gone"] \in Alarms
    BY <1>3 DEF Alarms
<1>5. [stage |-> "pending", by |-> by, user |-> u] \in Alarms
    BY DEF Alarms, Rearmers
<1>6. timer' = [n \in Timers |->
                   IF n = armed + 1
                   THEN [stage |-> "pending", by |-> by, user |-> u]
                   ELSE IF Cancels(u) /\ n = entry[u].timer
                        THEN [timer[n] EXCEPT !.stage = "gone"]
                        ELSE timer[n]]
    BY DEF Rearm
<1>7. timer' \in [Timers -> Alarms]
    BY <1>3, <1>4, <1>5, <1>6
<1>8. \A n \in Timers : [timer[n] EXCEPT !.stage = "gone"].stage = "gone"
                        /\ [timer[n] EXCEPT !.stage = "gone"].user = timer[n].user
    BY <1>3 DEF Alarms
<1>9. deletes' \in [Timers -> Nat]
    BY DeletedType DEF Rearm
<1> QED  BY <1>1, <1>2, <1>6, <1>7, <1>8, <1>9

(* The inductive invariant. *)
AInv ==
    /\ TypeOK
    /\ ArmedInOrder /\ RecordedIsOwn
    /\ PendingTimerIsTracked /\ EntryIsWatched
    /\ DoneIsWaiting /\ WaitingIsFound
    /\ RunsMatch

--------------------------------------------------------------------------------
(* Arming a timer and recording it keeps everything about timers.          *)
LEMMA RearmKeeps ==
    ASSUME AInv, NEW u \in Users, NEW by \in Rearmers, Rearm(u, by),
           entry' \in [Users -> Entries], entry'[u].present,
           entry'[u].timer = armed + 1,
           \A v \in Users \ {u} : entry'[v] = entry[v], stops' = stops
    PROVE  ArmedInOrder' /\ RecordedIsOwn' /\ PendingTimerIsTracked' /\ EntryIsWatched'
<1>0. /\ armed + 1 \in Timers /\ armed' = armed + 1
      /\ timer'[armed + 1] = [stage |-> "pending", by |-> by, user |-> u]
      /\ \A n \in Timers \ {armed + 1} :
            IF Cancels(u) /\ n = entry[u].timer
            THEN timer'[n].stage = "gone" /\ timer'[n].user = timer[n].user
            ELSE timer'[n] = timer[n]
    <2>1. Tables /\ deletes \in [Timers -> Nat]
        BY TypesOfTables DEF AInv, TypeOK
    <2> QED  BY <2>1, RearmFacts
<1> DEFINE new == armed + 1
<1>1. Tables
    BY TypesOfTables DEF AInv
<1>2. /\ new \in Timers /\ armed' = new /\ armed \in Nat
      /\ timer'[new] = [stage |-> "pending", by |-> by, user |-> u]
    BY <1>0, <1>1 DEF Tables
<1>3. \A n \in Timers \ {new} :
         IF Cancels(u) /\ n = entry[u].timer
         THEN timer'[n].stage = "gone" /\ timer'[n].user = timer[n].user
         ELSE timer'[n] = timer[n]
    BY <1>0
<1>4. \A n \in Timers : n \in Nat /\ (n > new <=> n # new /\ n > armed)
    BY <1>2 DEF Timers
<1>5. Cancels(u) => timer[entry[u].timer].stage = "pending"
    BY DEF Cancels
<1>6. \A v \in Users : entry[v].timer # 0 =>
          entry[v].timer \in Timers \ {new} /\ timer[entry[v].timer].user = v
  <2>1. \A v \in Users : entry[v].timer \in 0 .. MaxTimers
      BY <1>1 DEF Tables, Entries
  <2> QED  BY <1>2, <2>1 DEF AInv, RecordedIsOwn, Timers
<1> HIDE DEF new
<1>7. ArmedInOrder'
  <2> SUFFICES ASSUME NEW n \in Timers
               PROVE  timer'[n].stage = "new" <=> n > armed'
      BY DEF ArmedInOrder
  <2>1. CASE n = new
      BY <1>2, <1>4, <2>1
  <2>2. CASE n # new
      BY <1>2, <1>3, <1>4, <1>5, <2>2 DEF AInv, ArmedInOrder
  <2> QED  BY <2>1, <2>2
<1>8. RecordedIsOwn'
  <2> SUFFICES ASSUME NEW v \in Users, entry'[v].timer # 0
               PROVE  entry'[v].timer <= armed' /\ timer'[entry'[v].timer].user = v
      BY DEF RecordedIsOwn
  <2>1. CASE v = u
      BY <1>2, <1>4, <2>1 DEF new
  <2>2. CASE v # u
    <3>1. entry'[v].timer = entry[v].timer
        BY <2>2
    <3>2. entry[v].timer <= armed
        BY <3>1 DEF AInv, RecordedIsOwn
    <3>3. entry[v].timer <= armed' /\ entry[v].timer \in Timers
        BY <1>2, <1>4, <1>6, <3>1, <3>2 DEF new
    <3> QED  BY <1>3, <1>6, <3>1, <3>3
  <2> QED  BY <2>1, <2>2
<1>9. PendingTimerIsTracked'
  <2> SUFFICES ASSUME NEW n \in Timers, timer'[n].stage = "pending"
               PROVE  entry'[timer'[n].user].present
                      /\ entry'[timer'[n].user].timer = n
      BY DEF PendingTimerIsTracked
  <2>1. CASE n = new
      BY <1>2, <2>1 DEF new
  <2>2. CASE n # new
    <3>1. timer'[n] = timer[n] /\ ~(Cancels(u) /\ n = entry[u].timer)
        BY <1>3, <2>2
    <3>2. timer[n].user \in Users
        BY <1>1 DEF Tables, Alarms
    <3>3. entry[timer[n].user].present /\ entry[timer[n].user].timer = n
        BY <3>1 DEF AInv, PendingTimerIsTracked
    <3>4. n # 0
        BY DEF Timers
    <3>5. timer[n].user # u
        BY <3>1, <3>3, <3>4 DEF Cancels
    <3> QED  BY <3>1, <3>2, <3>3, <3>5
  <2> QED  BY <2>1, <2>2
<1>10. EntryIsWatched'
  <2> SUFFICES ASSUME NEW v \in Users, entry'[v].present, stops = 0
               PROVE  /\ entry'[v].timer # 0
                      /\ timer'[entry'[v].timer].stage \in {"pending", "fired", "clearing"}
      BY DEF EntryIsWatched
  <2>1. CASE v = u
      BY <1>2, <1>4, <2>1 DEF new, Timers
  <2>2. CASE v # u
    <3>1. entry'[v] = entry[v]
        BY <2>2
    <3>2. entry[v].timer # 0
          /\ timer[entry[v].timer].stage \in {"pending", "fired", "clearing"}
        BY <3>1 DEF AInv, EntryIsWatched
    <3>3. ~(Cancels(u) /\ entry[v].timer = entry[u].timer)
        BY <1>6, <2>2, <3>2 DEF Cancels
    <3>4. timer'[entry[v].timer] = timer[entry[v].timer]
        BY <1>3, <1>6, <3>2, <3>3
    <3> QED  BY <3>1, <3>2, <3>4
  <2> QED  BY <2>1, <2>2
<1> QED  BY <1>7, <1>8, <1>9, <1>10

(* A step that records no timer and starts none keeps everything about     *)
(* timers, as long as those that stop before their handler has run are     *)
(* cancelled by Clear.                                                     *)
Moves(old, new, quit) ==
    /\ new.user = old.user
    /\ \/ new.stage = old.stage
       \/ old.stage = "pending" /\ new.stage = "fired"
       \/ old.stage = "fired" /\ new.stage = "clearing"
       \/ old.stage = "pending" /\ new.stage = "gone" /\ quit

LEMMA TimersFrame ==
    ASSUME AInv, armed' = armed, stops' = 0 => stops = 0,
           \A u \in Users : entry'[u].present = entry[u].present
                            /\ entry'[u].timer = entry[u].timer,
           \A n \in Timers : Moves(timer[n], timer'[n], stops' # 0)
    PROVE  ArmedInOrder' /\ RecordedIsOwn' /\ PendingTimerIsTracked' /\ EntryIsWatched'
<1>1. /\ timer \in [Timers -> Alarms] /\ armed \in 0 .. MaxTimers
      /\ \A u \in Users : entry[u].timer \in 0 .. MaxTimers
    BY TypesOfTables DEF AInv, Tables, Entries
<1>2. \A u \in Users : entry[u].timer # 0 => entry[u].timer \in Timers
    BY <1>1 DEF Timers
<1>3. ArmedInOrder'
  <2> SUFFICES ASSUME NEW n \in Timers PROVE timer'[n].stage = "new" <=> n > armed'
      BY DEF ArmedInOrder
  <2>1. timer[n].stage = "new" <=> n > armed
      BY DEF AInv, ArmedInOrder
  <2> QED  BY <2>1 DEF Moves
<1>4. RecordedIsOwn'
    BY <1>2 DEF AInv, RecordedIsOwn, Moves
<1>5. PendingTimerIsTracked'
  <2> SUFFICES ASSUME NEW n \in Timers, timer'[n].stage = "pending"
               PROVE  entry'[timer'[n].user].present
                      /\ entry'[timer'[n].user].timer = n
      BY DEF PendingTimerIsTracked
  <2>1. timer[n].stage = "pending" /\ timer'[n].user = timer[n].user
      BY DEF Moves
  <2>2. timer[n].user \in Users
      BY <1>1 DEF Alarms
  <2> QED  BY <2>1, <2>2 DEF AInv, PendingTimerIsTracked
<1>6. EntryIsWatched'
    BY <1>2 DEF AInv, EntryIsWatched, Moves
<1> QED  BY <1>3, <1>4, <1>5, <1>6

(* A step that leaves the closures where they are keeps them found.        *)
LEMMA CallsFrame ==
    ASSUME AInv, \A u \in Users : entry'[u].done = entry[u].done,
           \A c \in Calls : /\ pull'[c].user = pull[c].user
                            /\ pull'[c].stage = "waiting" <=> pull[c].stage = "waiting"
    PROVE  DoneIsWaiting' /\ WaitingIsFound'
<1>1. /\ \A u \in Users : entry[u].done \in Calls \union {NoCall}
      /\ \A c \in Calls : pull[c].user \in Users
    BY TypesOfTables DEF AInv, Tables, Entries, Pulls
<1> QED  BY <1>1 DEF AInv, DoneIsWaiting, WaitingIsFound

(* What Take does to the calls.                                            *)
LEMMA TakeFacts ==
    ASSUME AInv, NEW u \in Users, NEW c \in Calls
    PROVE  /\ Take(u, pull)[c].user = pull[c].user
           /\ c = entry[u].done => Take(u, pull)[c].stage = "taken"
                                   /\ pull[c].stage = "waiting"
           /\ c # entry[u].done => Take(u, pull)[c] = pull[c]
<1>1. pull \in [Calls -> Pulls]
    BY TypesOfTables DEF AInv, Tables
<1>2. c # NoCall
    BY AccessAssumption
<1>3. c = entry[u].done => pull[c].stage = "waiting"
    BY <1>2 DEF AInv, DoneIsWaiting
<1>4. Take(u, pull)[c].user = pull[c].user
      /\ (c = entry[u].done => Take(u, pull)[c].stage = "taken")
      /\ (c # entry[u].done => Take(u, pull)[c] = pull[c])
    BY <1>1, <1>2 DEF Take, Pulls
<1> QED  BY <1>3, <1>4

(* Emptying a user's entry of its closure keeps the others found.          *)
LEMMA CallsTaken ==
    ASSUME AInv, NEW u \in Users, pull' = Take(u, pull), entry'[u].done = NoCall,
           \A v \in Users \ {u} : entry'[v].done = entry[v].done
    PROVE  DoneIsWaiting' /\ WaitingIsFound'
<1>1. /\ \A v \in Users : entry[v].done \in Calls \union {NoCall}
      /\ \A c \in Calls : pull[c].user \in Users
    BY TypesOfTables DEF AInv, Tables, Entries, Pulls
<1>2. ASSUME NEW v \in Users, entry'[v].done # NoCall
      PROVE  pull'[entry'[v].done].stage = "waiting" /\ pull'[entry'[v].done].user = v
  <2>1. v # u /\ entry'[v].done = entry[v].done /\ entry[v].done \in Calls
      BY <1>1, <1>2
  <2>2. pull[entry[v].done].stage = "waiting" /\ pull[entry[v].done].user = v
      BY <1>2, <2>1 DEF AInv, DoneIsWaiting
  <2>3. entry[v].done # entry[u].done
      BY <2>1, <2>2, AccessAssumption DEF AInv, DoneIsWaiting
  <2> QED  BY <2>1, <2>2, <2>3, TakeFacts
<1>3. ASSUME NEW c \in Calls, pull'[c].stage = "waiting"
      PROVE  entry'[pull'[c].user].done = c
  <2>1. c # entry[u].done /\ pull'[c] = pull[c]
      BY <1>3, TakeFacts
  <2>2. entry[pull[c].user].done = c
      BY <1>3, <2>1 DEF AInv, WaitingIsFound
  <2> QED  BY <1>1, <2>1, <2>2
<1> QED  BY <1>2, <1>3 DEF DoneIsWaiting, WaitingIsFound

(* A call that is taken has not been run.                                  *)
LEMMA TakenRunsMatch ==
    ASSUME AInv, NEW u \in Users, pull' = Take(u, pull),
           UNCHANGED <<runs, visit, stops>>
    PROVE  RunsMatch'
<1> SUFFICES ASSUME stops = 0, NEW c \in Calls
             PROVE  runs[c] = IF pull'[c].stage = "answered" THEN 1 ELSE 0
    BY DEF AInv, RunsMatch
<1>1. runs[c] = IF pull[c].stage = "answered" THEN 1 ELSE 0
    BY DEF AInv, RunsMatch
<1>2. pull'[c].stage = "answered" <=> pull[c].stage = "answered"
    BY TakeFacts
<1> QED  BY <1>1, <1>2

--------------------------------------------------------------------------------
(* What TypeOK says beside the tables. *)
Rest ==
    /\ \A u \in Users : entry[u].present \/ entry[u] = Absent
    /\ deletes \in [Timers -> Nat] /\ runs \in [Calls -> Nat]
    /\ visit \in [Users -> {"no", "check", "run", "timer", "done"}]
    /\ stops \in 0 .. 1 /\ crashed \in BOOLEAN

LEMMA TypeParts == TypeOK <=> Tables /\ Rest
BY DEF TypeOK, Tables, Rest, Entries, Alarms, Pulls

(* The same after a step. *)
LEMMA TypePartsNext == (Tables /\ Rest)' => TypeOK'
BY DEF TypeOK, Tables, Rest, Entries, Alarms, Pulls

(* A heartbeat keeps the invariant. *)
LEMMA HeartBeatStep ==
    ASSUME AInv, NEW u \in Users, ResetHeartBeatTimer(u)
    PROVE  AInv'
<1>1. Tables /\ Rest
    BY TypeParts DEF AInv
<1>2. "heartbeat" \in Rearmers /\ Rearm(u, "heartbeat")
    BY DEF Rearmers, ResetHeartBeatTimer
<1>3. /\ armed + 1 \in Timers /\ armed' \in 0 .. MaxTimers
      /\ timer' \in [Timers -> Alarms] /\ deletes' \in [Timers -> Nat]
    BY <1>1, <1>2, RearmFacts DEF Rest
<1>4. /\ entry' \in [Users -> Entries]
      /\ entry'[u].present /\ entry'[u].timer = armed + 1
      /\ entry'[u].done = entry[u].done
      /\ \A v \in Users \ {u} : entry'[v] = entry[v]
  <2> DEFINE e == [entry[u] EXCEPT !.present = TRUE, !.timer = armed + 1,
                                  !.arg = armed + 1]
  <2>1. entry \in [Users -> Entries] /\ entry[u] \in Entries
      BY <1>1 DEF Tables
  <2>2. armed + 1 \in 0 .. MaxTimers
      BY <1>3 DEF Timers
  <2>3. e \in Entries
      BY <2>1, <2>2 DEF Entries
  <2>4. e.present /\ e.timer = armed + 1 /\ e.done = entry[u].done
      BY <2>1 DEF Entries
  <2>5. entry' = [entry EXCEPT ![u] = e]
      BY DEF ResetHeartBeatTimer
  <2> HIDE DEF e
  <2> QED  BY <2>1, <2>3, <2>4, <2>5
<1>5. UNCHANGED <<pull, runs, visit, stops, crashed>>
    BY DEF ResetHeartBeatTimer, stopping
<1>6. TypeOK'
  <2>1. Tables'
      BY <1>1, <1>3, <1>4, <1>5 DEF Tables
  <2>2. Rest'
      BY <1>1, <1>3, <1>4, <1>5 DEF Rest
  <2> QED  BY <2>1, <2>2, TypePartsNext
<1>7. ArmedInOrder' /\ RecordedIsOwn' /\ PendingTimerIsTracked' /\ EntryIsWatched'
    BY <1>2, <1>4, <1>5, RearmKeeps
<1>8. DoneIsWaiting' /\ WaitingIsFound'
  <2>1. \A v \in Users : entry'[v].done = entry[v].done
      BY <1>4
  <2> QED  BY <1>5, <2>1, CallsFrame
<1>9. RunsMatch'
    BY <1>5 DEF AInv, RunsMatch
<1> QED  BY <1>6, <1>7, <1>8, <1>9 DEF AInv

(* PullData keeps the invariant. *)
LEMMA PushStep ==
    ASSUME AInv, NEW u \in Users, NEW c \in Calls, PushClosureAndReply(u, c)
    PROVE  AInv'
<1>1. Tables /\ Rest
    BY TypeParts DEF AInv
<1>2. "pull" \in Rearmers /\ Rearm(u, "pull")
    BY DEF Rearmers, PushClosureAndReply
<1>3. /\ armed + 1 \in Timers /\ armed' \in 0 .. MaxTimers
      /\ timer' \in [Timers -> Alarms] /\ deletes' \in [Timers -> Nat]
    BY <1>1, <1>2, RearmFacts DEF Rest
<1>4. /\ entry' \in [Users -> Entries]
      /\ entry'[u].present /\ entry'[u].timer = armed + 1 /\ entry'[u].done = c
      /\ \A v \in Users \ {u} : entry'[v] = entry[v]
  <2> DEFINE e == [present |-> TRUE, done |-> c, timer |-> armed + 1,
                   arg |-> KeptBlock(u)]
  <2>1. entry \in [Users -> Entries] /\ KeptBlock(u) \in 0 .. MaxTimers
      BY <1>1, AccessAssumption DEF Tables, Entries, KeptBlock
  <2>2. e \in Entries /\ e.present /\ e.timer = armed + 1 /\ e.done = c
      BY <1>3, <2>1 DEF Entries, Timers
  <2>3. entry' = [entry EXCEPT ![u] = e]
      BY DEF PushClosureAndReply, RecordedTimer
  <2> HIDE DEF e
  <2> QED  BY <2>1, <2>2, <2>3
<1>5. UNCHANGED <<runs, visit, stops, crashed>>
    BY DEF PushClosureAndReply, stopping
<1>6. /\ pull' \in [Calls -> Pulls]
      /\ pull'[c] = [stage |-> "waiting", user |-> u]
      /\ \A d \in Calls \ {c} : pull'[d] = Take(u, pull)[d]
      /\ pull[c].stage = "new"
  <2>1. Take(u, pull) \in [Calls -> Pulls]
      BY <1>1, TakeType
  <2>2. [stage |-> "waiting", user |-> u] \in Pulls
      BY DEF Pulls
  <2> QED  BY <2>1, <2>2 DEF PushClosureAndReply
<1>7. TypeOK'
  <2>1. Tables'
      BY <1>3, <1>4, <1>6 DEF Tables
  <2>2. Rest'
      BY <1>1, <1>3, <1>4, <1>5 DEF Rest
  <2> QED  BY <2>1, <2>2, TypePartsNext
<1>8. ArmedInOrder' /\ RecordedIsOwn' /\ PendingTimerIsTracked' /\ EntryIsWatched'
    BY <1>2, <1>4, <1>5, RearmKeeps
<1>9. /\ \A v \in Users : entry[v].done \in Calls \union {NoCall}
      /\ \A d \in Calls : pull[d].user \in Users
    BY <1>1 DEF Tables, Entries, Pulls
<1>10. DoneIsWaiting'
  <2> SUFFICES ASSUME NEW v \in Users, entry'[v].done # NoCall
               PROVE  /\ pull'[entry'[v].done].stage = "waiting"
                      /\ pull'[entry'[v].done].user = v
      BY DEF DoneIsWaiting
  <2>1. CASE v = u
      BY <1>4, <1>6, <2>1
  <2>2. CASE v # u
    <3>1. entry'[v].done = entry[v].done /\ entry[v].done \in Calls
        BY <1>4, <1>9, <2>2
    <3>2. pull[entry[v].done].stage = "waiting" /\ pull[entry[v].done].user = v
        BY <3>1 DEF AInv, DoneIsWaiting
    <3>3. entry[v].done # entry[u].done /\ entry[v].done # c
        BY <1>6, <2>2, <3>1, <3>2, AccessAssumption DEF AInv, DoneIsWaiting
    <3> QED  BY <1>6, <3>1, <3>2, <3>3, TakeFacts
  <2> QED  BY <2>1, <2>2
<1>11. WaitingIsFound'
  <2> SUFFICES ASSUME NEW d \in Calls, pull'[d].stage = "waiting"
               PROVE  entry'[pull'[d].user].done = d
      BY DEF WaitingIsFound
  <2>1. CASE d = c
      BY <1>4, <1>6, <2>1
  <2>2. CASE d # c
    <3>1. d # entry[u].done /\ pull'[d] = pull[d]
        BY <1>6, <2>2, TakeFacts
    <3>2. entry[pull[d].user].done = d
        BY <3>1 DEF AInv, WaitingIsFound
    <3> QED  BY <1>4, <1>9, <3>1, <3>2
  <2> QED  BY <2>1, <2>2
<1>12. RunsMatch'
  <2> SUFFICES ASSUME stops = 0, NEW d \in Calls
               PROVE  runs[d] = IF pull'[d].stage = "answered" THEN 1 ELSE 0
      BY <1>5 DEF AInv, RunsMatch
  <2>1. runs[d] = IF pull[d].stage = "answered" THEN 1 ELSE 0
      BY DEF AInv, RunsMatch
  <2>2. CASE d = c
      BY <1>6, <2>1, <2>2
  <2>3. CASE d # c
    <3>1. pull'[d].stage = "answered" <=> pull[d].stage = "answered"
        BY <1>6, <2>3, TakeFacts
    <3> QED  BY <2>1, <3>1
  <2> QED  BY <2>2, <2>3
<1> QED  BY <1>7, <1>8, <1>10, <1>11, <1>12 DEF AInv

(* SendtoAccess keeps the invariant. *)
LEMMA PopStep ==
    ASSUME AInv, NEW u \in Users, PopClosureAndReply(u)
    PROVE  AInv'
<1>1. Tables /\ Rest
    BY TypeParts DEF AInv
<1>2. /\ entry' \in [Users -> Entries]
      /\ entry'[u].present = entry[u].present /\ entry'[u].timer = entry[u].timer
      /\ entry'[u].done = NoCall
      /\ \A v \in Users \ {u} : entry'[v] = entry[v]
  <2>1. entry \in [Users -> Entries] /\ entry[u] \in Entries
      BY <1>1 DEF Tables
  <2>2. AfterPop(u) \in Entries
      BY <2>1 DEF Entries, AfterPop
  <2>3. /\ AfterPop(u).present = entry[u].present
        /\ AfterPop(u).timer = entry[u].timer /\ AfterPop(u).done = NoCall
      BY <2>1 DEF Entries, AfterPop
  <2>4. entry' = [entry EXCEPT ![u] = AfterPop(u)]
      BY DEF PopClosureAndReply
  <2> QED  BY <2>1, <2>2, <2>3, <2>4
<1>3. /\ UNCHANGED <<timer, armed, deletes, runs, visit, stops, crashed>>
      /\ pull' = Take(u, pull)
    BY DEF PopClosureAndReply, stopping
<1>4. TypeOK'
  <2>1. Tables'
      BY <1>1, <1>2, <1>3, TakeType DEF Tables
  <2>2. entry[u].present
      BY <1>1 DEF PopClosureAndReply, Rest, Absent
  <2>3. Rest'
      BY <1>1, <1>2, <1>3, <2>2 DEF Rest
  <2> QED  BY <2>1, <2>3, TypePartsNext
<1>5. ArmedInOrder' /\ RecordedIsOwn' /\ PendingTimerIsTracked' /\ EntryIsWatched'
    BY <1>2, <1>3, TimersFrame DEF Moves
<1>6. DoneIsWaiting' /\ WaitingIsFound'
    BY <1>2, <1>3, CallsTaken
<1>7. RunsMatch'
    BY <1>3, TakenRunsMatch
<1> QED  BY <1>4, <1>5, <1>6, <1>7 DEF AInv

(* Running a closure keeps the invariant. *)
LEMMA RunStep ==
    ASSUME AInv, NEW c \in Calls, Run(c)
    PROVE  AInv'
<1>1. Tables /\ Rest
    BY TypeParts DEF AInv
<1>2. UNCHANGED <<entry, timer, armed, deletes, visit, stops, crashed>>
    BY DEF Run, stopping
<1>3. /\ pull \in [Calls -> Pulls] /\ runs \in [Calls -> Nat]
      /\ pull[c].stage = "taken" /\ pull' = [pull EXCEPT ![c].stage = "answered"]
      /\ runs' = [runs EXCEPT ![c] = runs[c] + 1]
    BY <1>1 DEF Run, Tables, Rest
<1>4. /\ pull' \in [Calls -> Pulls] /\ runs' \in [Calls -> Nat]
      /\ pull'[c].stage = "answered" /\ pull'[c].user = pull[c].user
      /\ runs'[c] = runs[c] + 1
      /\ \A d \in Calls \ {c} : pull'[d] = pull[d] /\ runs'[d] = runs[d]
    BY <1>3 DEF Pulls
<1>5. TypeOK'
  <2>1. Tables' /\ Rest'
      BY <1>1, <1>2, <1>4 DEF Tables, Rest
  <2> QED  BY <2>1, TypePartsNext
<1>6. ArmedInOrder' /\ RecordedIsOwn' /\ PendingTimerIsTracked' /\ EntryIsWatched'
    BY <1>2, TimersFrame DEF Moves
<1>7. DoneIsWaiting' /\ WaitingIsFound'
    BY <1>2, <1>3, <1>4, CallsFrame
<1>8. RunsMatch'
    BY <1>2, <1>3, <1>4 DEF AInv, RunsMatch
<1> QED  BY <1>5, <1>6, <1>7, <1>8 DEF AInv

(* A timer that goes off keeps the invariant, until its handler has the    *)
(* mutex.                                                                  *)
LEMMA FireStep ==
    ASSUME AInv, NEW n \in Timers, TimerFires(n) \/ TimerReadsBlock(n)
    PROVE  AInv'
<1>1. Tables /\ Rest
    BY TypeParts DEF AInv
<1>2. UNCHANGED <<entry, armed, deletes, pull, runs, visit, stops, crashed>>
    BY DEF TimerFires, TimerReadsBlock, stopping
<1>3. timer \in [Timers -> Alarms]
    BY <1>1 DEF Tables
<1>4. /\ timer' \in [Timers -> Alarms]
      /\ \A k \in Timers : Moves(timer[k], timer'[k], stops' # 0)
  <2>1. CASE TimerFires(n)
      BY <1>3, <2>1 DEF TimerFires, Moves, Alarms
  <2>2. CASE TimerReadsBlock(n)
      BY <1>3, <2>2 DEF TimerReadsBlock, Moves, Alarms
  <2> QED  BY <2>1, <2>2
<1>5. TypeOK'
  <2>1. Tables' /\ Rest'
      BY <1>1, <1>2, <1>4 DEF Tables, Rest
  <2> QED  BY <2>1, TypePartsNext
<1>6. ArmedInOrder' /\ RecordedIsOwn' /\ PendingTimerIsTracked' /\ EntryIsWatched'
    BY <1>2, <1>4, TimersFrame
<1>7. DoneIsWaiting' /\ WaitingIsFound'
    BY <1>2, CallsFrame
<1>8. RunsMatch'
    BY <1>2 DEF AInv, RunsMatch
<1> QED  BY <1>5, <1>6, <1>7, <1>8 DEF AInv

(* A handler that erases its user keeps the invariant: no timer that can   *)
(* still fire is left behind.                                              *)
LEMMA ClearUserStep ==
    ASSUME AInv, NEW n \in Timers, ClearUserData(n)
    PROVE  AInv'
<1> DEFINE u == timer[n].user
<1> DEFINE stopped == {k \in Timers : k = n \/ (Cancels(u) /\ k = entry[u].timer)}
<1>1. Tables /\ Rest
    BY TypeParts DEF AInv
<1>2. u \in Users /\ timer[n].stage = "clearing"
    BY <1>1 DEF Tables, Alarms, ClearUserData
<1>3. /\ UNCHANGED <<armed, runs, visit, stops, crashed>>
      /\ pull' = Take(u, pull)
      /\ entry' = [entry EXCEPT ![u] = Absent]
    BY DEF ClearUserData, Erased, stopping
<1>4. timer' \in [Timers -> Alarms]
      /\ \A k \in Timers : /\ timer'[k].user = timer[k].user
                           /\ k \in stopped => timer'[k].stage = "gone"
                           /\ k \notin stopped => timer'[k] = timer[k]
  <2>1. timer' = [k \in Timers |-> IF k \in stopped
                                   THEN [timer[k] EXCEPT !.stage = "gone"]
                                   ELSE timer[k]]
      BY DEF ClearUserData
  <2>2. timer \in [Timers -> Alarms]
      BY <1>1 DEF Tables
  <2>3. \A k \in Timers : /\ [timer[k] EXCEPT !.stage = "gone"] \in Alarms
                          /\ [timer[k] EXCEPT !.stage = "gone"].stage = "gone"
                          /\ [timer[k] EXCEPT !.stage = "gone"].user = timer[k].user
      BY <2>2 DEF Alarms
  <2> HIDE DEF stopped
  <2> QED  BY <2>1, <2>2, <2>3
<1>5. \A k \in stopped : timer[k].stage # "new"
    BY <1>2 DEF Cancels
<1>6. \A k \in Timers : timer[k].stage = "pending" /\ timer[k].user = u
                        => k \in stopped
    BY DEF AInv, PendingTimerIsTracked, Cancels, Timers
<1>7. \A v \in Users \ {u} : entry[v].timer # 0 => entry[v].timer \notin stopped
  <2> SUFFICES ASSUME NEW v \in Users \ {u}, entry[v].timer # 0,
                      entry[v].timer \in stopped
               PROVE  FALSE
      OBVIOUS
  <2>1. timer[entry[v].timer].user = v
      BY DEF AInv, RecordedIsOwn
  <2>2. timer[n].user = u /\ (Cancels(u) => timer[entry[u].timer].user = u)
      BY <1>2 DEF AInv, RecordedIsOwn, Cancels
  <2> QED  BY <2>1, <2>2
<1>8. /\ entry' \in [Users -> Entries] /\ entry'[u] = Absent
      /\ \A v \in Users \ {u} : entry'[v] = entry[v]
  <2>1. Absent \in Entries
      BY AccessAssumption DEF Absent, Entries
  <2> QED  BY <1>1, <1>2, <1>3, <2>1 DEF Tables
<1>9. \A v \in Users : entry[v].timer # 0 => entry[v].timer \in Timers
    BY <1>1 DEF Tables, Entries, Timers
<1> HIDE DEF u, stopped
<1>10. deletes' \in [Timers -> Nat]
  <2>1. Deleted(RecordedBlock(u)) \in [Timers -> Nat]
      BY <1>1, DeletedType DEF Rest
  <2>2. deletes' = [k \in Timers |-> Deleted(RecordedBlock(u))[k]
                                     + (IF k = n THEN 1 ELSE 0)]
      BY DEF ClearUserData, u
  <2> HIDE DEF Deleted, RecordedBlock
  <2>3. \A k \in Timers : Deleted(RecordedBlock(u))[k] \in Nat
      BY <2>1
  <2>4. \A k \in Timers : Deleted(RecordedBlock(u))[k]
                           + (IF k = n THEN 1 ELSE 0) \in Nat
      BY <2>3
  <2> QED  BY <2>2, <2>4
<1>11. TypeOK'
  <2>1. Tables'
      BY <1>1, <1>2, <1>3, <1>4, <1>8, TakeType DEF Tables
  <2>2. Rest'
      BY <1>1, <1>3, <1>8, <1>10 DEF Rest
  <2> QED  BY <2>1, <2>2, TypePartsNext
<1>12. ArmedInOrder'
    BY <1>3, <1>4, <1>5 DEF AInv, ArmedInOrder
<1>13. RecordedIsOwn'
    BY <1>3, <1>4, <1>8, <1>9 DEF AInv, RecordedIsOwn, Absent
<1>14. PendingTimerIsTracked'
  <2> SUFFICES ASSUME NEW k \in Timers, timer'[k].stage = "pending"
               PROVE  entry'[timer'[k].user].present
                      /\ entry'[timer'[k].user].timer = k
      BY DEF PendingTimerIsTracked
  <2>1. timer'[k] = timer[k] /\ k \notin stopped
      BY <1>4
  <2>2. timer[k].user \in Users \ {u}
      BY <1>1, <1>6, <2>1 DEF Tables, Alarms
  <2> QED  BY <1>8, <2>1, <2>2 DEF AInv, PendingTimerIsTracked
<1>15. EntryIsWatched'
    BY <1>3, <1>4, <1>7, <1>8, <1>9 DEF AInv, EntryIsWatched, Absent
<1>16. DoneIsWaiting' /\ WaitingIsFound'
    BY <1>2, <1>3, <1>8, CallsTaken DEF Absent
<1>17. RunsMatch'
    BY <1>2, <1>3, TakenRunsMatch
<1> QED  BY <1>11, <1>12, <1>13, <1>14, <1>15, <1>16, <1>17 DEF AInv

(* Being asked to quit keeps the invariant.                                *)
LEMMA QuitStep ==
    ASSUME AInv, AskedToQuit
    PROVE  AInv'
<1>1. Tables /\ Rest
    BY TypeParts DEF AInv
<1>2. UNCHANGED <<entry, timer, armed, deletes, pull, runs, crashed>>
    BY DEF AskedToQuit
<1>3. /\ stops' \in 0 .. 1 /\ stops' # 0
      /\ visit' \in [Users -> {"no", "check", "run", "timer", "done"}]
    BY <1>1, AccessAssumption DEF AskedToQuit, Rest
<1>4. TypeOK'
  <2>1. Tables' /\ Rest'
      BY <1>1, <1>2, <1>3 DEF Tables, Rest
  <2> QED  BY <2>1, TypePartsNext
<1>5. ArmedInOrder' /\ RecordedIsOwn' /\ PendingTimerIsTracked' /\ EntryIsWatched'
    BY <1>2, <1>3, TimersFrame DEF Moves
<1>6. DoneIsWaiting' /\ WaitingIsFound'
    BY <1>2, CallsFrame
<1>7. RunsMatch'
    BY <1>3 DEF RunsMatch
<1> QED  BY <1>4, <1>5, <1>6, <1>7 DEF AInv

(* A step of Clear keeps the invariant: it touches timers only after the   *)
(* process was asked to quit.                                              *)
LEMMA ClearKeeps ==
    ASSUME AInv, NEW u \in Users, ClearStep(u)
    PROVE  AInv'
<1>1. Tables /\ Rest
    BY TypeParts DEF AInv
<1>2. UNCHANGED <<entry, armed, pull, stops>>
    BY DEF ClearStep, ClearChecks, ClearRuns, ClearCancels
<1>3. stops # 0
    BY DEF ClearStep, ClearChecks, ClearRuns, ClearCancels, AInv, RunsMatch
<1>4. /\ timer \in [Timers -> Alarms] /\ deletes \in [Timers -> Nat]
      /\ runs \in [Calls -> Nat] /\ crashed \in BOOLEAN
      /\ visit \in [Users -> {"no", "check", "run", "timer", "done"}]
      /\ entry[u].present \in BOOLEAN
      /\ entry[u].done \in Calls \union {NoCall}
    BY <1>1 DEF Tables, Rest, Entries
<1>5. /\ timer' \in [Timers -> Alarms]
      /\ \A k \in Timers : Moves(timer[k], timer'[k], stops' # 0)
  <2>1. CASE UNCHANGED timer
      BY <1>4, <2>1 DEF Moves
  <2>2. CASE Cancels(u) /\ timer' = [timer EXCEPT ![entry[u].timer].stage = "gone"]
      BY <1>2, <1>3, <1>4, <2>2 DEF Moves, Alarms, Cancels
  <2> QED  BY <2>1, <2>2 DEF ClearStep, ClearChecks, ClearRuns, ClearCancels
<1>6. deletes' \in [Timers -> Nat]
    BY <1>4, DeletedType DEF ClearStep, ClearChecks, ClearRuns, ClearCancels
<1>7. runs' \in [Calls -> Nat]
    BY <1>4 DEF ClearStep, ClearChecks, ClearRuns, ClearCancels
<1>8. visit' \in [Users -> {"no", "check", "run", "timer", "done"}]
    BY <1>4 DEF ClearStep, ClearChecks, ClearRuns, ClearCancels
<1>9. crashed' \in BOOLEAN
  <2>1. CASE crashed' = crashed
      BY <1>4, <2>1, Zenon
  <2>2. CASE crashed' = TRUE
      BY <2>2, Zenon
  <2>3. CASE crashed' = ~entry[u].present
      BY <2>3, Zenon
  <2> QED  BY <2>1, <2>2, <2>3, Zenon DEF ClearStep, ClearChecks, ClearRuns, ClearCancels
<1>10. TypeOK'
  <2>1. Tables' /\ Rest'
      BY <1>1, <1>2, <1>5, <1>6, <1>7, <1>8, <1>9 DEF Tables, Rest
  <2> QED  BY <2>1, TypePartsNext
<1>11. ArmedInOrder' /\ RecordedIsOwn' /\ PendingTimerIsTracked' /\ EntryIsWatched'
    BY <1>2, <1>5, TimersFrame
<1>12. DoneIsWaiting' /\ WaitingIsFound'
    BY <1>2, CallsFrame
<1>13. RunsMatch'
    BY <1>2, <1>3 DEF RunsMatch
<1> QED  BY <1>10, <1>11, <1>12, <1>13 DEF AInv

--------------------------------------------------------------------------------
(* The empty table satisfies the invariant.                                *)
LEMMA InvInit == Init => AInv
<1> SUFFICES ASSUME Init PROVE AInv
    OBVIOUS
<1>1. TypeOK
    BY TypeInit
<1>2. /\ \A u \in Users : entry[u] = Absent /\ visit[u] = "no"
      /\ \A n \in Timers : timer[n].stage = "new"
      /\ \A c \in Calls : pull[c].stage = "new" /\ runs[c] = 0
      /\ armed = 0
    BY DEF Init
<1>3. \A n \in Timers : n > 0
    BY DEF Timers
<1>4. ArmedInOrder
    BY <1>2, <1>3 DEF ArmedInOrder
<1>5. RecordedIsOwn /\ DoneIsWaiting /\ EntryIsWatched
    BY <1>2 DEF RecordedIsOwn, DoneIsWaiting, EntryIsWatched, Absent
<1>6. PendingTimerIsTracked /\ WaitingIsFound /\ RunsMatch
    BY <1>2 DEF PendingTimerIsTracked, WaitingIsFound, RunsMatch
<1> QED  BY <1>1, <1>4, <1>5, <1>6 DEF AInv

(* Every step keeps the invariant.                                         *)
LEMMA InvStep == AInv /\ [Next]_vars => AInv'
<1> SUFFICES ASSUME AInv, [Next]_vars PROVE AInv'
    OBVIOUS
<1>1. CASE \E u \in Users : ResetHeartBeatTimer(u)
    BY <1>1, HeartBeatStep
<1>2. CASE \E u \in Users : PopClosureAndReply(u)
    BY <1>2, PopStep
<1>3. CASE \E u \in Users, c \in Calls : PushClosureAndReply(u, c)
    BY <1>3, PushStep
<1>4. CASE \E c \in Calls : Run(c)
    BY <1>4, RunStep
<1>5. CASE \E n \in Timers : TimerStep(n)
    BY <1>5, FireStep, ClearUserStep DEF TimerStep
<1>6. CASE AskedToQuit
    BY <1>6, QuitStep
<1>7. CASE \E u \in Users : ClearStep(u)
    BY <1>7, ClearKeeps
<1>8. CASE UNCHANGED vars
  <2>1. UNCHANGED <<entry, timer, armed, deletes, pull, runs, visit, stops, crashed>>
      BY <1>8 DEF vars
  <2>2. TypeOK'
      BY <2>1 DEF AInv, TypeOK
  <2>3. ArmedInOrder' /\ RecordedIsOwn' /\ PendingTimerIsTracked' /\ EntryIsWatched'
      BY <2>1, TimersFrame DEF Moves
  <2>4. DoneIsWaiting' /\ WaitingIsFound'
      BY <2>1, CallsFrame
  <2>5. RunsMatch'
      BY <2>1 DEF AInv, RunsMatch
  <2> QED  BY <2>2, <2>3, <2>4, <2>5 DEF AInv
<1> QED  BY <1>1, <1>2, <1>3, <1>4, <1>5, <1>6, <1>7, <1>8 DEF Next, Requests

(* The invariant holds for ever.                                           *)
LEMMA Invariant == Spec => []AInv
BY InvInit, InvStep, PTL DEF Spec

--------------------------------------------------------------------------------
(* The table of connected users, its timers and its calls keep their types. *)
THEOREM AccessTyped == Spec => []TypeOK
<1>1. AInv => TypeOK
    BY DEF AInv
<1> QED  BY <1>1, Invariant, PTL

(* Whatever heartbeats, PullData calls, messages and timeouts do, a timer  *)
(* that can still fire is its user's recorded one: ResetHeartBeatTimer and *)
(* PushClosureAndReply cancel the recorded timer before they replace it,   *)
(* ClearUserData before it erases it.                                      *)
THEOREM Tracked == Spec => []PendingTimerIsTracked
<1>1. AInv => PendingTimerIsTracked
    BY DEF AInv
<1> QED  BY <1>1, Invariant, PTL

(* Until Clear is called every entry has a timer that can fire or a        *)
(* handler on its way to ClearUserData: none stays for ever.               *)
THEOREM Watched == Spec => []EntryIsWatched
<1>1. AInv => EntryIsWatched
    BY DEF AInv
<1> QED  BY <1>1, Invariant, PTL

(* No PullData call is forgotten while it waits: PushClosureAndReply takes *)
(* the closure it replaces, ClearUserData that of the entry it erases.     *)
THEOREM Found == Spec => []WaitingIsFound
<1>1. AInv => WaitingIsFound
    BY DEF AInv
<1> QED  BY <1>1, Invariant, PTL

(* Until Clear is called no closure is run twice, although handlers,       *)
(* PullData and SendtoAccess take closures out of the same table.          *)
THEOREM RunOnce == Spec => []ClosureRunOnce
<1>1. AInv => ClosureRunOnce
    BY DEF AInv, RunsMatch, ClosureRunOnce
<1> QED  BY <1>1, Invariant, PTL

--------------------------------------------------------------------------------
(* The block of a heartbeat's timer that can still fire is the recorded    *)
(* one.                                                                    *)
HeartBeatBlockRecorded ==
    \A n \in Timers :
        timer[n].stage = "pending" /\ timer[n].by = "heartbeat"
            => entry[timer[n].user].arg = n

Blocks == AInv /\ HeartBeatBlockRecorded /\ HeartBeatBlockDeleted

(* Deleting blocks takes nothing back, and counts each of them.            *)
LEMMA DeletedGrows ==
    ASSUME AInv, NEW blocks, NEW n \in Timers
    PROVE  /\ Deleted(blocks)[n] \in Nat /\ deletes[n] \in Nat
           /\ Deleted(blocks)[n] >= deletes[n]
           /\ n \in blocks => Deleted(blocks)[n] >= 1
<1>1. deletes \in [Timers -> Nat]
    BY DEF AInv, TypeOK
<1> QED  BY <1>1 DEF Deleted

(* A heartbeat's timer that is cancelled has its own block deleted.        *)
LEMMA CancelDeletes ==
    ASSUME Blocks, NEW u \in Users, NEW n \in Timers, Cancels(u), n = entry[u].timer,
           timer[n].by = "heartbeat"
    PROVE  Deleted(RecordedBlock(u))[n] >= 1
<1>1. timer[n].stage = "pending" /\ timer[n].user = u
    BY DEF Cancels, Blocks, AInv, RecordedIsOwn
<1>2. entry[u].arg = n
    BY <1>1 DEF Blocks, HeartBeatBlockRecorded
<1>3. n \in RecordedBlock(u)
    BY <1>2 DEF RecordedBlock
<1> QED  BY <1>3, DeletedGrows DEF Blocks

(* A step that arms no timer and stops timers only by cancelling the       *)
(* recorded one or once their handler ran keeps their blocks accounted for.*)
LEMMA BlocksFrame ==
    ASSUME Blocks, NEW u \in Users, NEW ran,
           \A n \in Timers :
               /\ timer'[n].by = timer[n].by /\ timer'[n].user = timer[n].user
               /\ timer'[n].stage = "pending" =>
                      /\ timer[n].stage = "pending"
                      /\ entry'[timer[n].user].arg = entry[timer[n].user].arg
               /\ timer'[n].stage = "gone" =>
                      \/ timer[n].stage = "gone"
                      \/ Cancels(u) /\ n = entry[u].timer
                      \/ n \in ran
               /\ deletes'[n] \in Nat /\ deletes'[n] >= deletes[n]
               /\ Cancels(u) /\ n = entry[u].timer =>
                      deletes'[n] >= Deleted(RecordedBlock(u))[n]
               /\ n \in ran => deletes'[n] >= 1
    PROVE  HeartBeatBlockRecorded' /\ HeartBeatBlockDeleted'
<1>1. HeartBeatBlockRecorded'
    BY DEF Blocks, HeartBeatBlockRecorded
<1>2. HeartBeatBlockDeleted'
  <2> SUFFICES ASSUME NEW n \in Timers, timer'[n].stage = "gone",
                      timer'[n].by = "heartbeat"
               PROVE  deletes'[n] >= 1
      BY DEF HeartBeatBlockDeleted
  <2>1. deletes[n] \in Nat /\ Deleted(RecordedBlock(u))[n] \in Nat
      BY DeletedGrows DEF Blocks
  <2>2. CASE timer[n].stage = "gone"
      BY <2>1, <2>2 DEF Blocks, HeartBeatBlockDeleted
  <2>3. CASE Cancels(u) /\ n = entry[u].timer
    <3>1. Deleted(RecordedBlock(u))[n] >= 1
        BY <2>3, CancelDeletes
    <3> QED  BY <2>1, <2>3, <3>1
  <2>4. CASE n \in ran
      BY <2>4
  <2> QED  BY <2>2, <2>3, <2>4
<1> QED  BY <1>1, <1>2

(* Arming a timer keeps the blocks accounted for, if a heartbeat records   *)
(* its block.                                                              *)
LEMMA RearmBlocks ==
    ASSUME Blocks, NEW u \in Users, NEW by \in Rearmers, Rearm(u, by),
           by = "heartbeat" => entry'[u].arg = armed + 1,
           \A v \in Users \ {u} : entry'[v] = entry[v]
    PROVE  HeartBeatBlockRecorded' /\ HeartBeatBlockDeleted'
<1> DEFINE new == armed + 1
<1>1. Tables /\ deletes \in [Timers -> Nat]
    BY TypesOfTables DEF Blocks, AInv, TypeOK
<1>2. new \in Timers /\ timer'[new] = [stage |-> "pending", by |-> by, user |-> u]
    BY <1>1, RearmFacts
<1>3. deletes' = Deleted(RecordedBlock(u))
    BY DEF Rearm
<1>4. \A n \in Timers \ {new} :
         /\ timer'[n].by = timer[n].by
         /\ IF Cancels(u) /\ n = entry[u].timer
            THEN timer'[n].stage = "gone"
            ELSE timer'[n] = timer[n]
    BY <1>1 DEF Rearm, Tables, Alarms
<1> HIDE DEF new
<1>5. HeartBeatBlockRecorded'
  <2> SUFFICES ASSUME NEW n \in Timers, timer'[n].stage = "pending",
                      timer'[n].by = "heartbeat"
               PROVE  entry'[timer'[n].user].arg = n
      BY DEF HeartBeatBlockRecorded
  <2>1. CASE n = new
      BY <1>2, <2>1 DEF new
  <2>2. CASE n # new
    <3>1. timer'[n] = timer[n] /\ ~(Cancels(u) /\ n = entry[u].timer)
        BY <1>4, <2>2
    <3>2. timer[n].user \in Users \ {u}
        BY <1>1, <3>1 DEF Tables, Alarms, Blocks, AInv, PendingTimerIsTracked,
                          Cancels, Timers
    <3> QED  BY <3>1, <3>2 DEF Blocks, HeartBeatBlockRecorded
  <2> QED  BY <2>1, <2>2
<1>6. HeartBeatBlockDeleted'
  <2> SUFFICES ASSUME NEW n \in Timers, timer'[n].stage = "gone",
                      timer'[n].by = "heartbeat"
               PROVE  deletes'[n] >= 1
      BY DEF HeartBeatBlockDeleted
  <2>1. n # new /\ timer[n].by = "heartbeat"
      BY <1>2, <1>4
  <2>2. CASE Cancels(u) /\ n = entry[u].timer
      BY <1>3, <2>1, <2>2, CancelDeletes
  <2>3. CASE ~(Cancels(u) /\ n = entry[u].timer)
    <3>1. deletes[n] >= 1
        BY <1>4, <2>1, <2>3 DEF Blocks, HeartBeatBlockDeleted
    <3>2. deletes'[n] \in Nat /\ deletes[n] \in Nat /\ deletes'[n] >= deletes[n]
        BY <1>3, DeletedGrows DEF Blocks
    <3> QED  BY <3>1, <3>2
  <2> QED  BY <2>2, <2>3
<1> QED  BY <1>5, <1>6

(* Every step keeps the blocks accounted for.                              *)
LEMMA BlocksStep == Blocks /\ [Next]_vars => Blocks'
<1> SUFFICES ASSUME Blocks, [Next]_vars PROVE Blocks'
    OBVIOUS
<1>0. AInv /\ AInv'
    BY InvStep DEF Blocks
<1>1. Tables /\ Rest
    BY <1>0, TypeParts DEF AInv
<1>2. /\ entry \in [Users -> Entries] /\ timer \in [Timers -> Alarms]
      /\ deletes \in [Timers -> Nat] /\ \A n \in Timers : deletes[n] \in Nat
    BY <1>1 DEF Tables, Rest
<1>3. CASE \E u \in Users : ResetHeartBeatTimer(u)
  <2> PICK u \in Users : ResetHeartBeatTimer(u)
      BY <1>3
  <2>1. "heartbeat" \in Rearmers /\ Rearm(u, "heartbeat")
      BY DEF Rearmers, ResetHeartBeatTimer
  <2>2. entry'[u].arg = armed + 1 /\ \A v \in Users \ {u} : entry'[v] = entry[v]
      BY <1>2 DEF ResetHeartBeatTimer, Entries
  <2> QED  BY <1>0, <2>1, <2>2, RearmBlocks DEF Blocks
<1>4. CASE \E u \in Users, c \in Calls : PushClosureAndReply(u, c)
  <2> PICK u \in Users, c \in Calls : PushClosureAndReply(u, c)
      BY <1>4
  <2>1. "pull" \in Rearmers /\ Rearm(u, "pull")
      BY DEF Rearmers, PushClosureAndReply
  <2>2. \A v \in Users \ {u} : entry'[v] = entry[v]
      BY <1>2 DEF PushClosureAndReply
  <2> QED  BY <1>0, <2>1, <2>2, RearmBlocks DEF Blocks
<1>5. ASSUME NEW u \in Users,
             /\ timer' \in [Timers -> Alarms]
             /\ \A n \in Timers :
                   /\ timer'[n].by = timer[n].by /\ timer'[n].user = timer[n].user
                   /\ timer'[n].stage = "pending" => timer[n].stage = "pending"
                   /\ timer'[n].stage = "gone" => timer[n].stage = "gone",
             \A v \in Users : entry'[v].arg = entry[v].arg,
             deletes' = deletes
      PROVE  Blocks'
  <2>1. \A n \in Timers : timer[n].user \in Users
      BY <1>2 DEF Alarms
  <2> QED  BY <1>0, <1>2, <1>5, <2>1
           DEF Blocks, HeartBeatBlockRecorded, HeartBeatBlockDeleted
<1>6. CASE \E u \in Users : PopClosureAndReply(u)
  <2> PICK u \in Users : PopClosureAndReply(u)
      BY <1>6
  <2>1. \A v \in Users : entry'[v].arg = entry[v].arg
      BY <1>2 DEF PopClosureAndReply, AfterPop, Entries
  <2> QED  BY <1>2, <1>5, <2>1 DEF PopClosureAndReply
<1>7. CASE \E c \in Calls : Run(c)
    BY <1>2, <1>5, <1>7, AccessAssumption DEF Run
<1>8. CASE \E n \in Timers : TimerFires(n) \/ TimerReadsBlock(n)
  <2> PICK n \in Timers : TimerFires(n) \/ TimerReadsBlock(n)
      BY <1>8
  <2>1. UNCHANGED <<entry, deletes>>
      BY DEF TimerFires, TimerReadsBlock
  <2>2. /\ timer' \in [Timers -> Alarms]
        /\ \A k \in Timers :
              /\ timer'[k].by = timer[k].by /\ timer'[k].user = timer[k].user
              /\ timer'[k].stage = "pending" => timer[k].stage = "pending"
              /\ timer'[k].stage = "gone" => timer[k].stage = "gone"
    <3>1. CASE TimerFires(n)
        BY <1>2, <3>1 DEF TimerFires, Alarms
    <3>2. CASE TimerReadsBlock(n)
        BY <1>2, <3>2 DEF TimerReadsBlock, Alarms
    <3> QED  BY <3>1, <3>2
  <2> QED  BY <1>5, <2>1, <2>2, AccessAssumption
<1>9. CASE \E n \in Timers : ClearUserData(n)
  <2> PICK n \in Timers : ClearUserData(n)
      BY <1>9
  <2> DEFINE u == timer[n].user
             stopped == {k \in Timers : k = n \/ (Cancels(u) /\ k = entry[u].timer)}
  <2>1. u \in Users
      BY <1>2 DEF Alarms
  <2>2. \A k \in Timers : timer[k].stage = "pending" /\ timer[k].user = u
                          => k \in stopped
      BY <1>0 DEF AInv, PendingTimerIsTracked, Cancels, Timers
  <2>3. \A k \in Timers : /\ timer'[k].by = timer[k].by /\ timer'[k].user = timer[k].user
                          /\ timer[k].user \in Users
                          /\ k \in stopped => timer'[k].stage = "gone"
                          /\ k \notin stopped => timer'[k] = timer[k]
      BY <1>2 DEF ClearUserData, Alarms
  <2>4. \A v \in Users \ {u} : entry'[v] = entry[v]
      BY <1>2 DEF ClearUserData
  <2>5. ASSUME NEW k \in Timers
        PROVE  /\ deletes'[k] \in Nat /\ deletes'[k] >= deletes[k]
               /\ deletes'[k] >= Deleted(RecordedBlock(u))[k]
               /\ k \in {n} => deletes'[k] >= 1
    <3> DEFINE d == Deleted(RecordedBlock(u))[k]
    <3>1. deletes'[k] = IF k = n THEN d + 1 ELSE d + 0
      <4>1. deletes' = [j \in Timers |-> Deleted(RecordedBlock(u))[j]
                                         + (IF j = n THEN 1 ELSE 0)]
          BY DEF ClearUserData
      <4> QED  BY <4>1
    <3>2. d \in Nat /\ d >= deletes[k] /\ deletes[k] \in Nat
        BY <1>0, DeletedGrows
    <3> HIDE DEF d
    <3>3. /\ deletes'[k] \in Nat /\ deletes'[k] >= deletes[k] /\ deletes'[k] >= d
          /\ k = n => deletes'[k] >= 1
        BY <3>1, <3>2
    <3> QED  BY <3>3 DEF d
  <2>6. ASSUME NEW k \in Timers
        PROVE  /\ timer'[k].stage = "pending" =>
                     /\ timer[k].stage = "pending"
                     /\ entry'[timer[k].user].arg = entry[timer[k].user].arg
               /\ timer'[k].stage = "gone" =>
                     \/ timer[k].stage = "gone"
                     \/ Cancels(u) /\ k = entry[u].timer
                     \/ k \in {n}
      BY <2>2, <2>3, <2>4
  <2> HIDE DEF u, stopped
  <2> DEFINE ran == {n}
  <2>7. \A k \in Timers :
               /\ timer'[k].by = timer[k].by /\ timer'[k].user = timer[k].user
               /\ timer'[k].stage = "pending" =>
                      /\ timer[k].stage = "pending"
                      /\ entry'[timer[k].user].arg = entry[timer[k].user].arg
               /\ timer'[k].stage = "gone" =>
                      \/ timer[k].stage = "gone"
                      \/ Cancels(u) /\ k = entry[u].timer
                      \/ k \in ran
               /\ deletes'[k] \in Nat /\ deletes'[k] >= deletes[k]
               /\ Cancels(u) /\ k = entry[u].timer =>
                      deletes'[k] >= Deleted(RecordedBlock(u))[k]
               /\ k \in ran => deletes'[k] >= 1
      BY <2>3, <2>5, <2>6
  <2> HIDE DEF ran
  <2>8. HeartBeatBlockRecorded' /\ HeartBeatBlockDeleted'
      BY <2>1, <2>7, BlocksFrame
  <2> QED  BY <1>0, <2>8 DEF Blocks
<1>10. CASE AskedToQuit
    BY <1>2, <1>5, <1>10, AccessAssumption DEF AskedToQuit
<1>11. CASE \E u \in Users : ClearChecks(u) \/ ClearRuns(u)
    BY <1>2, <1>5, <1>11 DEF ClearChecks, ClearRuns
<1>12. CASE \E u \in Users : ClearCancels(u)
  <2> PICK u \in Users : ClearCancels(u)
      BY <1>12
  <2>1. entry' = entry /\ deletes' = Deleted(RecordedBlock(u))
      BY DEF ClearCancels
  <2>2. \A n \in Timers :
           /\ timer'[n].by = timer[n].by /\ timer'[n].user = timer[n].user
           /\ timer'[n].stage = "pending" => timer[n].stage = "pending"
           /\ timer'[n].stage = "gone" => \/ timer[n].stage = "gone"
                                          \/ Cancels(u) /\ n = entry[u].timer
      BY <1>2 DEF ClearCancels, Alarms
  <2>3. \A n \in Timers :
           /\ deletes'[n] \in Nat /\ deletes'[n] >= deletes[n]
           /\ deletes'[n] >= Deleted(RecordedBlock(u))[n]
      BY <1>0, <2>1, DeletedGrows
  <2> DEFINE ran == {}
  <2>4. \A n \in Timers :
               /\ timer'[n].by = timer[n].by /\ timer'[n].user = timer[n].user
               /\ timer'[n].stage = "pending" =>
                      /\ timer[n].stage = "pending"
                      /\ entry'[timer[n].user].arg = entry[timer[n].user].arg
               /\ timer'[n].stage = "gone" =>
                      \/ timer[n].stage = "gone"
                      \/ Cancels(u) /\ n = entry[u].timer
                      \/ n \in ran
               /\ deletes'[n] \in Nat /\ deletes'[n] >= deletes[n]
               /\ Cancels(u) /\ n = entry[u].timer =>
                      deletes'[n] >= Deleted(RecordedBlock(u))[n]
               /\ n \in ran => deletes'[n] >= 1
      BY <2>1, <2>2, <2>3
  <2> HIDE DEF ran
  <2>5. HeartBeatBlockRecorded' /\ HeartBeatBlockDeleted'
      BY <2>4, BlocksFrame
  <2> QED  BY <1>0, <2>5 DEF Blocks
<1>13. CASE UNCHANGED vars
    BY <1>0, <1>13 DEF vars, Blocks, HeartBeatBlockRecorded, HeartBeatBlockDeleted
<1> QED  BY <1>3, <1>4, <1>6, <1>7, <1>8, <1>9, <1>10, <1>11, <1>12, <1>13
         DEF Next, Requests, TimerStep, ClearStep

(* The block of a heartbeat's timer is deleted when the timer is gone: by  *)
(* the unique_ptr of its handler, or with the timer by the HeartBeat, the  *)
(* PullData or the Clear that cancels it.                                  *)
THEOREM BlockDeleted == Spec => []HeartBeatBlockDeleted
<1>1. Init => Blocks
  <2> SUFFICES ASSUME Init PROVE Blocks
      OBVIOUS
  <2>1. \A n \in Timers : timer[n].stage = "new"
      BY DEF Init
  <2> QED  BY <2>1, InvInit
           DEF Blocks, HeartBeatBlockRecorded, HeartBeatBlockDeleted
<1>2. Blocks => HeartBeatBlockDeleted
    BY DEF Blocks
<1> QED  BY <1>1, <1>2, BlocksStep, PTL DEF Spec

--------------------------------------------------------------------------------
(* A step that touches neither closures nor calls is no step of LongPoll.  *)
LEMMA PollStutters ==
    ASSUME Tables, Tables', UNCHANGED <<pull, runs, stops>>,
           \A u \in Users : entry'[u].done = entry[u].done
    PROVE  UNCHANGED Poll!vars
<1>1. [u \in Users |-> entry'[u].done] = [u \in Users |-> entry[u].done]
    OBVIOUS
<1>2. [c \in Calls |-> pull'[c].stage] = [c \in Calls |-> pull[c].stage]
    OBVIOUS
<1> QED  BY <1>1, <1>2 DEF Poll!vars

(* Taking a closure is what LongPoll takes it for.                         *)
LEMMA TakeIsTaken ==
    ASSUME Tables, NEW u \in Users
    PROVE  [c \in Calls |-> Take(u, pull)[c].stage] = Poll!Taken(u)
<1> DEFINE stages == [c \in Calls |-> pull[c].stage]
<1>1. pull \in [Calls -> Pulls] /\ entry[u].done \in Calls \union {NoCall}
    BY DEF Tables, Entries
<1>2. CASE entry[u].done = NoCall
    BY <1>2 DEF Take, Poll!Taken
<1>3. CASE entry[u].done # NoCall
  <2> DEFINE d == entry[u].done
  <2>1. d \in Calls /\ Take(u, pull) = [pull EXCEPT ![d].stage = "taken"]
      BY <1>1, <1>3 DEF Take
  <2>2. Poll!Taken(u) = [stages EXCEPT ![d] = "taken"]
      BY <1>3 DEF Poll!Taken
  <2> HIDE DEF d
  <2>3. \A c \in Calls : Take(u, pull)[c].stage = IF c = d THEN "taken" ELSE pull[c].stage
      BY <1>1, <2>1 DEF Pulls
  <2> QED  BY <2>2, <2>3
<1> QED  BY <1>2, <1>3

LEMMA PollInit == Init => Poll!Init
<1> SUFFICES ASSUME Init PROVE Poll!Init
    OBVIOUS
<1>1. \A u \in Users : entry[u].done = NoCall
    BY DEF Init, Absent
<1>2. \A c \in Calls : pull[c].stage = "new"
    BY DEF Init
<1>3. runs = [c \in Calls |-> 0] /\ ~(stops > 0)
    BY DEF Init
<1> QED  BY <1>1, <1>2, <1>3 DEF Poll!Init

(* Whoever empties the entry of u takes its closure out.                   *)
LEMMA PollTakesOut ==
    ASSUME Tables, Tables', NEW u \in Users, pull' = Take(u, pull),
           entry'[u].done = NoCall, UNCHANGED <<runs, stops>>,
           \A v \in Users \ {u} : entry'[v].done = entry[v].done
    PROVE  [Poll!Next]_(Poll!vars)
<1>1. CASE entry[u].done = NoCall
  <2>1. pull' = pull /\ \A v \in Users : entry'[v].done = entry[v].done
      BY <1>1 DEF Take
  <2> QED  BY <2>1, PollStutters
<1>2. CASE entry[u].done # NoCall
  <2>1. [c \in Calls |-> pull'[c].stage] = Poll!Taken(u)
      BY TakeIsTaken
  <2>2. [v \in Users |-> entry'[v].done]
          = [[v \in Users |-> entry[v].done] EXCEPT ![u] = NoCall]
      OBVIOUS
  <2>3. Poll!TakeOut(u)
      BY <1>2, <2>1, <2>2 DEF Poll!TakeOut
  <2> QED  BY <2>3 DEF Poll!Next
<1> QED  BY <1>1, <1>2

LEMMA PollStep ==
    ASSUME AInv, AInv', [Next]_vars
    PROVE  [Poll!Next]_(Poll!vars)
<1>1. Tables /\ Tables'
    BY TypesOfTables, PTL DEF AInv
<1>2. entry \in [Users -> Entries] /\ pull \in [Calls -> Pulls]
    BY <1>1 DEF Tables
<1>3. ASSUME UNCHANGED <<pull, entry, runs, stops>> PROVE [Poll!Next]_(Poll!vars)
    BY <1>1, <1>3, PollStutters
<1>4. CASE \E u \in Users : ResetHeartBeatTimer(u)
  <2> PICK u \in Users : ResetHeartBeatTimer(u)
      BY <1>4
  <2>1. /\ UNCHANGED <<pull, runs, stops>>
        /\ \A v \in Users : entry'[v].done = entry[v].done
      BY <1>2 DEF ResetHeartBeatTimer, Entries, stopping
  <2> QED  BY <1>1, <2>1, PollStutters
<1>5. CASE \E u \in Users : PopClosureAndReply(u)
  <2> PICK u \in Users : PopClosureAndReply(u)
      BY <1>5
  <2>1. /\ pull' = Take(u, pull) /\ entry'[u].done = NoCall /\ UNCHANGED <<runs, stops>>
        /\ \A v \in Users \ {u} : entry'[v].done = entry[v].done
      BY <1>2 DEF PopClosureAndReply, AfterPop, Entries, stopping
  <2> QED  BY <1>1, <2>1, PollTakesOut
<1>6. CASE \E u \in Users, c \in Calls : PushClosureAndReply(u, c)
  <2> PICK u \in Users, c \in Calls : PushClosureAndReply(u, c)
      BY <1>6
  <2>1. pull[c].stage = "new" /\ entry'[u].done = c
      BY <1>2 DEF PushClosureAndReply, Entries
  <2>2. \A v \in Users \ {u} : entry'[v].done = entry[v].done
      BY <1>2 DEF PushClosureAndReply, Entries
  <2>3. [v \in Users |-> entry'[v].done]
          = [[v \in Users |-> entry[v].done] EXCEPT ![u] = c]
      BY <2>1, <2>2
  <2>4. /\ pull' = [Take(u, pull) EXCEPT ![c] = [stage |-> "waiting", user |-> u]]
        /\ Take(u, pull) \in [Calls -> Pulls]
      BY <1>1, TakeType DEF PushClosureAndReply
  <2>5. [k \in Calls |-> pull'[k].stage]
          = [[k \in Calls |-> Take(u, pull)[k].stage] EXCEPT ![c] = "waiting"]
      BY <2>4
  <2>6. [k \in Calls |-> pull'[k].stage] = [Poll!Taken(u) EXCEPT ![c] = "waiting"]
      BY <1>1, <2>5, TakeIsTaken
  <2>7. UNCHANGED <<runs, stops>>
      BY DEF PushClosureAndReply, stopping
  <2>8. Poll!Poll(u, c)
      BY <2>1, <2>3, <2>6, <2>7 DEF Poll!Poll
  <2> QED  BY <2>8 DEF Poll!Next
<1>7. CASE \E c \in Calls : Run(c)
  <2> PICK c \in Calls : Run(c)
      BY <1>7
  <2>1. [k \in Calls |-> pull'[k].stage]
          = [[k \in Calls |-> pull[k].stage] EXCEPT ![c] = "answered"]
      BY <1>2 DEF Run, Pulls
  <2>2. [v \in Users |-> entry'[v].done] = [v \in Users |-> entry[v].done]
      BY DEF Run
  <2>3. runs' = [runs EXCEPT ![c] = @ + 1] /\ stops' = stops
      BY DEF Run, stopping
  <2>4. Poll!Answer(c)
      BY <2>1, <2>2, <2>3 DEF Run, Poll!Answer, Poll!Answered
  <2> QED  BY <2>4 DEF Poll!Next
<1>8. CASE \E n \in Timers : TimerFires(n) \/ TimerReadsBlock(n)
    BY <1>3, <1>8 DEF TimerFires, TimerReadsBlock, stopping
<1>9. CASE \E n \in Timers : ClearUserData(n)
  <2> PICK n \in Timers : ClearUserData(n)
      BY <1>9
  <2> DEFINE u == timer[n].user
  <2>1. u \in Users
      BY <1>1 DEF Tables, Alarms
  <2>2. /\ pull' = Take(u, pull) /\ entry' = [entry EXCEPT ![u] = Absent]
        /\ UNCHANGED <<runs, stops>>
      BY DEF ClearUserData, Erased, stopping
  <2> HIDE DEF u
  <2>3. /\ entry'[u].done = NoCall
        /\ \A v \in Users \ {u} : entry'[v].done = entry[v].done
      BY <1>2, <2>1, <2>2 DEF Absent
  <2> QED  BY <1>1, <2>1, <2>2, <2>3, PollTakesOut
<1>10. CASE AskedToQuit
  <2>1. ~(stops > 0) /\ stops' > 0
      BY <1>10, AccessAssumption DEF AskedToQuit, AInv, TypeOK
  <2>2. UNCHANGED <<entry, pull, runs>>
      BY <1>10 DEF AskedToQuit
  <2>3. Poll!Close
      BY <2>1, <2>2 DEF Poll!Close
  <2> QED  BY <2>3 DEF Poll!Next
<1>11. CASE \E u \in Users : ClearRuns(u)
  <2> PICK u \in Users : ClearRuns(u)
      BY <1>11
  <2>1. stops > 0 /\ UNCHANGED <<entry, pull, stops>>
      BY DEF ClearRuns, AInv, RunsMatch, TypeOK
  <2>2. CASE entry[u].done # NoCall /\ runs' = [runs EXCEPT ![entry[u].done] = @ + 1]
    <3>1. Poll!ClosingAnswers(u)
        BY <2>1, <2>2 DEF Poll!ClosingAnswers, Poll!Answered
    <3> QED  BY <3>1 DEF Poll!Next
  <2> QED  BY <1>3, <2>1, <2>2 DEF ClearRuns
<1>12. CASE \E u \in Users : ClearChecks(u) \/ ClearCancels(u)
    BY <1>3, <1>12 DEF ClearChecks, ClearCancels
<1>13. CASE UNCHANGED vars
    BY <1>3, <1>13 DEF vars
<1> QED  BY <1>4, <1>5, <1>6, <1>7, <1>8, <1>9, <1>10, <1>11, <1>12, <1>13
         DEF Next, Requests, TimerStep, ClearStep

(* For its callers the table is a LongPoll: one call waits per user, the   *)
(* latest, each is taken once and answered by its taker, and every run of  *)
(* a closure is an answer (access_service.cc:246-392).  Until the process  *)
(* is asked to quit no call is answered twice; from then on the only       *)
(* answers beside the takers' are Clear's, to calls that are in the table. *)
(* What ImplementsLongPoll says beyond this, that takers do answer, is     *)
(* liveness.                                                               *)
THEOREM Implements == Spec => Poll!Init /\ [][Poll!Next]_(Poll!vars)
<1> QED  BY PollInit, PollStep, Invariant, PTL DEF Spec
================================================================================
