SPECIFICATION ServiceSpec
CONSTANTS
    n1 = n1
    n2 = n2
    none = none
    http = http
    long = long
    cut = cut
    Node = {n1, n2}
    Name <- Names
    Cut <- CutNames
    Port = {1}
    NoNode = none
    MaxServices = 2
    MaxAdv = 1
    Lifetime = 1
    MaxLate = 1
INVARIANTS
    FoundIsLatest
    HeardIsFound
PROPERTY
    GoneInTheEnd
