SPECIFICATION FairSpec
CONSTANTS
    a = a
    b = b
    c = c
    Users = {a, b}
    Senders = {a}
    Peers <- MixedPeers
    Messages <- SentMessages
    Ids = {1, 2, 3, 4, 5, 6}
    Savers = {1, 2}
    Handlers = {1, 2}
    NoMsg = NoMsg
    NoKey = NoKey
    NoSaver = NoSaver
    MaxMsgs = 3
    MaxTime = 2
    MaxFaults = 2
CONSTRAINT Budget
ACTION_CONSTRAINT FirstFree
INVARIANTS DbTypeOK CacheBehindStore SavedOnce OnePushPerMessage PushedIsStored AckedIsStored MailboxOrder
PROPERTIES CallIsAnswered ImplementsDelivery
CHECK_DEADLOCK FALSE
