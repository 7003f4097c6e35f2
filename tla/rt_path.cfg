SPECIFICATION NetSpec
CONSTANTS
    n1 = n1
    n2 = n2
    n3 = n3
    n4 = n4
    NoNode = NoNode
    Node = {n1, n2, n3, n4}
    Links <- Kite
    Infinity = 5
    MaxRoutes = 3
    MaxAdv = 3
    Lifetime = 1
    Silence = 1
    MayFail = {n4}
    MayCut <- Side
    MaxFaults = 1
    MaxLosses = 0
    MaxDelays = 1
    Relays = {n1, n2, n3, n4}
    Gateway = n3
    HeardGateway = {n1, n2}
    Sources = {n1, n2}
    Outside = Outside
    Traffic = {n4, Outside}
PROPERTIES
    NearerEachHop
    PacketsEnd
