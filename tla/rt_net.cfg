SPECIFICATION FairSpec
CONSTANTS
    n1 = n1
    n2 = n2
    n3 = n3
    n4 = n4
    NoNode = NoNode
    Node = {n1, n2, n3, n4}
    Links <- Kite
    Infinity = 5
    MaxRoutes = 3
    MaxAdv = 3
    Lifetime = 1
    Silence = 1
    MayFail = {n4}
    MayCut <- Side
    MaxFaults = 1
    MaxLosses = 1
    MaxDelays = 1
INVARIANTS
    TypeOK
    LoopFreeUntilFault
PROPERTY
    Converges
