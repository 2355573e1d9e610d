SPECIFICATION FairSpec
CONSTANTS
    a = a
    b = b
    m1 = m1
    m2 = m2
    s1 = s1
    s2 = s2
    Users = {b}
    Servers = {s1}
    Messages = {m1, m2}
    Peers <- OnlyB
    MsgIds <- IdsOfB
    LastFetched = 2
    NoServer = NoServer
    MaxStarts = 1
    MaxFaults = 0
PROPERTY StoredIsSeen
CHECK_DEADLOCK FALSE
