SPECIFICATION FairSpec
CONSTANTS
    a = a
    b = b
    image = image
    c1 = c1
    c2 = c2
    c3 = c3
    Callers = {c1, c2, c3}
    Sources = {a, b, image}
    Fetchable = {a, b}
    Size <- MCSize
    Budget = 3
    MaxPage = 1
    NoText = NoText
    NoCaller = NoCaller
    Silent = Silent
    Closed = Closed
    Failures = {"session"}
    MayCancel = TRUE
    MayClear = TRUE
INVARIANTS
    Accounting
    CacheIsCurrent
    SingleFlight
PROPERTIES
    EvictsOnlyWhatItMust
    FollowersReturn
CHECK_DEADLOCK FALSE
