SPECIFICATION FairSpec
CONSTANTS
    c1 = c1
    c2 = c2
    plain = plain
    gone = gone
    odd = odd
    worker = worker
    Calls = {c1, c2}
    Members = {plain, gone, odd}
    SubTargets = {worker}
    NoTarget = NoTarget
    NoCall = NoCall
    NoResult = NoResult
    Inexpressible = {}
    Unencodable = {odd}
    Absent <- MCAbsent
    MaxId = 2
    MaxInbound = 2
    MaxEvents = 2
    MaxCopies = 2
    PeerMayClose = TRUE
    LinkMayFail = TRUE
    TargetsMayDie = TRUE
INVARIANTS
    NoCallerForgotten
    ReplyCorrelated
    SubTargetsCatchUp
PROPERTIES
    SecondCallShortCircuits
    ImplementsCallService
    CallResolves
    NextCommandFreesAll
