SPECIFICATION Spec
CONSTANTS
    m1 = m1
    m2 = m2
    m3 = m3
    m4 = m4
    NoMac = NoMac
    Mac = {m1, m2, m3, m4}
    Size = 3
    Hash <- Clustered
    Timeout = 0
    Sleep <- Sleeps
    Factor = 1
    Margin = 0
    BatteryMin = 0
    MaxClock = 2
    Word = 8
INVARIANTS
    TypeOK
    EveryPeerFound
PROPERTIES
    ImplementsPeerSet
    SilentPeersLeave
CHECK_DEADLOCK FALSE
