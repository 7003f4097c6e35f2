SPECIFICATION FairSpec
CONSTANTS
    a = a
    b = b
    g = g
    d = d
    NoNode = NoNode
    Node = {a, g}
    Gateways = {g}
    Hears <- Clique
    MaxHandshakes = 1
    MaxPeers = 1
    MaxRoutes = 2
    MaxRuns <- EachFive
    FaultKinds = {"loss", "silence"}
    MaxFaults = 2
    Prompt = TRUE
PROPERTIES
    ResponderAgreesAtOnce
    ExchangeEnds
    NeighboursJoin
CHECK_DEADLOCK FALSE
