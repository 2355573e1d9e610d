SPECIFICATION Spec
CONSTANTS
    Users = {u1}
    Calls = {1, 2}
    NoCall = 0
    MaxTimers = 4
    MaxStops = 0
INVARIANTS BlockDeletedOnce
CONSTRAINT CallsInOrder
CHECK_DEADLOCK FALSE
