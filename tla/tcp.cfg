SPECIFICATION FairSpec
CONSTANTS
    MaxMessages = 4
    MaxBad = 1
    Deadline = 2
INVARIANTS
    TargetReleased
PROPERTIES
    ImplementsTransport
    HandshakeReturns
    FramesArrive
CHECK_DEADLOCK FALSE
