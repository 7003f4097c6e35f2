SPECIFICATION FairSpec
CONSTANTS
    p1 = p1
    p2 = p2
    t1 = t1
    long = long
    cut = cut
    NoProxy = NoProxy
    NoTopic = NoTopic
    Proxy = {p1, p2}
    Speaks = {}
    Topic = {t1, long}
    Cut <- OneLong
    Rssi = {1, 2}
    MaxOffers = 2
    MaxSubs = 2
    FaultKinds = {}
    MaxFaults = 0
PROPERTY
    Connects
CHECK_DEADLOCK FALSE
