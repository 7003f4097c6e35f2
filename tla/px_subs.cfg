SPECIFICATION Spec
CONSTANTS
    c1 = c1
    c2 = c2
    c3 = c3
    t1 = t1
    all = all
    NoMac = NoMac
    NoTopic = NoTopic
    Mac = {c1, c2, c3}
    Topic = {t1, all}
    Published = {t1}
    Covers <- Filters
    MaxClients = 2
    MaxSubs = 2
INVARIANTS
    TypeOK
    OneSlotPerClient
    StoredWasAsked
    SubscribedOrTaken
    ForwardedToAll
SYMMETRY AnyNames
