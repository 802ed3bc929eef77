SPECIFICATION FairSpec
CONSTANTS
    c1 = c1
    c2 = c2
    plain = plain
    gone = gone
    odd = odd
    worker = worker
    Calls = {c1, c2}
    Members = {plain}
    SubTargets = {worker}
    NoTarget = NoTarget
    NoCall = NoCall
    NoResult = NoResult
    Inexpressible = {}
    Unencodable = {}
    Absent <- MCAbsent
    MaxId = 2
    MaxInbound = 2
    MaxEvents = 2
    MaxCopies = 1
    PeerMayClose = TRUE
    LinkMayFail = FALSE
    TargetsMayDie = FALSE
PROPERTIES
    EveryCallResolves
