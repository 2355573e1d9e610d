SPECIFICATION FairSpec
CONSTANTS
    Users = {u1}
    Calls = {1, 2}
    NoCall = 0
    MaxTimers = 4
    MaxStops = 1
INVARIANTS TypeOK PendingTimerIsTracked EntryIsWatched WaitingIsFound ClosureRunOnce HeartBeatBlockDeleted
PROPERTIES SilentIsCleared PullIsAnswered ImplementsLongPoll
CONSTRAINT CallsInOrder
CHECK_DEADLOCK FALSE
