SPECIFICATION Spec
CONSTANTS
    a = a
    b = b
    g = g
    d = d
    NoNode = NoNode
    Node = {a, b, g, d}
    Gateways = {g}
    Hears <- CrossingAndMute
    MaxHandshakes = 2
    MaxPeers = 1
    MaxRoutes = 4
    MaxRuns <- BusyA
    FaultKinds = {"loss", "dup", "silence", "restart", "rotate", "nack"}
    MaxFaults = 1
    Prompt = FALSE
INVARIANTS
    TypeOK
    KeyIsOurs
    EphemeralsServeOnce
    ResponderKeyIsInitiators
    PeerHasRoute
    OneContextPerMac
CHECK_DEADLOCK FALSE
