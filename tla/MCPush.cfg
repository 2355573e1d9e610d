SPECIFICATION FairSpec
CONSTANTS
    a = a
    b = b
    m1 = m1
    m2 = m2
    s1 = s1
    s2 = s2
    Users = {a, b}
    Servers = {s1, s2}
    Messages = {m1, m2}
    Peers <- TwoPeers
    MsgIds <- MixedIds
    LastFetched = 2
    NoServer = NoServer
    MaxStarts = 2
    MaxFaults = 1
INVARIANTS TypeOK WaitingCallIsFound SeenIsStored
PROPERTIES ClientsListen LoneMessageArrives
CONSTRAINT FirstAtS1
CHECK_DEADLOCK FALSE
