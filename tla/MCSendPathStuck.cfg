SPECIFICATION FairSpec
CONSTANTS
    a = a
    b = b
    c = c
    Users = {a, b}
    Senders = {a}
    Peers <- PrivatePeers
    Messages <- SentMessages
    Ids = {1, 2, 3, 4}
    Savers = {w1, w2}
    Handlers = {h1, h2}
    NoMsg = NoMsg
    NoKey = NoKey
    NoSaver = NoSaver
    MaxMsgs = 1
    MaxTime = 1
    MaxFaults = 1
PROPERTIES SentIsAcked
CHECK_DEADLOCK FALSE
