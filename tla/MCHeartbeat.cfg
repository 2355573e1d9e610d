SPECIFICATION FairSpec
CONSTANTS
    Period = 3
    Timeout = 4
    MaxTimers = 3
    MaxFaults = 3
INVARIANTS TypeOK HeartbeatsGoOn LiveClientStays
PROPERTY ClientSettles
