SPECIFICATION FairSpec
CONSTANTS
    p1 = p1
    p2 = p2
    t1 = t1
    long = long
    cut = cut
    NoProxy = NoProxy
    NoTopic = NoTopic
    Proxy = {p1, p2}
    Speaks = {p1, p2}
    Topic = {t1, long}
    Cut <- OneLong
    Rssi = {1, 2}
    MaxOffers = 2
    MaxSubs = 2
    FaultKinds = {"loss", "dup", "slow", "restart", "forget", "crypto"}
    MaxFaults = 2
INVARIANTS
    TypeOK
    ConnectedWithItsProxy
    ProxyKnowsTopics
PROPERTY
    Connects
CHECK_DEADLOCK FALSE
