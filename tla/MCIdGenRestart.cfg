SPECIFICATION Spec
CONSTANTS
    Threads = {t1, t2}
    NoThread = NoThread
    Users = {1, 2, 3}
    BucketNum = 2
    BlockSize = 2
    Requests <- LogicRequests
    MaxRequests = 4
    MaxFaults = 0
    MaxCrashes = 1
PROPERTIES IdsIncrease
CHECK_DEADLOCK FALSE
