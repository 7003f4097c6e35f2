SPECIFICATION Spec
CONSTANTS
    c1 = c1
    c2 = c2
    c3 = c3
    p1 = p1
    p2 = p2
    p3 = p3
    NoChild = NoChild
    Child = {c1, c2, c3}
    MaxChildren = 2
    BufSize = 2
    MsgSize = 2
    Message <- Messages
    Room = {1, 3}
    Parent = {p1, p2, p3}
    MaxParents = 2
    Interval = {1, 2}
    Time = {1, 2}
    Epochs = 3
    MaxResets = 2
    MaxFailures = 1
INVARIANTS
    ParentsSurvive
PROPERTIES
    ImplementsQueue
    SleepLosesNothing
