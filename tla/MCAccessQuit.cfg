SPECIFICATION Spec
CONSTANTS
    Users = {u1}
    Calls = {1, 2}
    NoCall = 0
    MaxTimers = 4
    MaxStops = 1
INVARIANTS ClosureRunOnceAtQuit
CONSTRAINT CallsInOrder
CHECK_DEADLOCK FALSE
