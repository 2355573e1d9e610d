SPECIFICATION FairSpec
CONSTANTS
    Threads = {t1, t2}
    NoThread = NoThread
    Users = {1, 2, 3}
    BucketNum = 2
    BlockSize = 2
    Requests <- MixedRequests
    MaxRequests = 4
    MaxFaults = 1
    MaxCrashes = 1
INVARIANTS TypeOK RepliesDisjoint
PROPERTIES IncreasesForEver ReservationNeverShrinks CoverLostOnlyAtBlockEnd RequestsAnswered
CHECK_DEADLOCK FALSE
