SPECIFICATION FairSpec
CONSTANTS
    enable = enable
    reload = reload
    Methods = {enable, reload}
    NoMethod = NoMethod
    MaxPages = 2
    MaxRequests = 2
    MaxEvents = 1
    MaxCalls = 3
INVARIANTS
    NothingDropped
    CorrelatesUnlessSkipped
PROPERTIES
    AnswerArrives
CHECK_DEADLOCK FALSE
