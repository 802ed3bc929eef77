SPECIFICATION AgentsSpec
CONSTANTS
    Sources = {s1, s2}
    Places = {p1, p2}
    Nodes = {n1}
    DomKinds = {removed, modified}
    NodeRemoved = removed
    listener = listener
    interval = interval
    timer = timer
    Others = {listener, interval, timer}
    Meant <- MCMeant
    NoPlace = NoPlace
    NoRow = NoRow
    MaxLine = 2
    MaxCalls = 2
    MaxPauses = 1
    MaxReloads = 1
    Capacity = 2
    MaxSent = 4
    MaxRepeat = 3
    MaxStops = 2
    MaxEvals = 2
SYMMETRY Symmetry
INVARIANTS
    StoreAgrees
    RowsAgree
    HitsAreCounted
    LogIsHonest
    PublishedAddsUp
CHECK_DEADLOCK FALSE
