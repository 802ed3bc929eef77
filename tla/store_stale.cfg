SPECIFICATION FairSpec
CONSTANTS
    a = a
    b = b
    image = image
    c1 = c1
    c2 = c2
    c3 = c3
    Callers = {c1, c2, c3}
    Sources = {a}
    Fetchable = {a}
    Size <- MCSize
    Budget = 3
    MaxPage = 1
    NoText = NoText
    NoCaller = NoCaller
    Silent = Silent
    Closed = Closed
    Failures = {}
    MayCancel = FALSE
    MayClear = TRUE
INVARIANTS
    FreshAfterClear
CHECK_DEADLOCK FALSE
