SPECIFICATION FairSpec
CONSTANTS
    s1 = s1
    s2 = s2
    app = app
    lwip = lwip
    NoMac = NoMac
    Src = {s1, s2}
    Task = {app}
    Sizes = {2, 3, 5}
    CountMod = 3
    MaxFragments = 2
    Sessions = 2
    Timeout = 1
    IdMod = 4
    MaxWire = 1
    MaxMessages = 2
    SlowStart = TRUE
    MaxRestarts <- FirstOnce
    MaxLosses = 1
    MaxRepeats = 1
INVARIANTS
    TypeOK
    DeliveredWhole
    OneSessionPerMessage
PROPERTY
    SessionsEnd
CHECK_DEADLOCK FALSE
