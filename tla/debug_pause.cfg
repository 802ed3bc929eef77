SPECIFICATION FairSpec
CONSTANTS
    line3 = line3
    Lines = {line3}
    NoModel = NoModel
    MaxPause = 1
    MaxBp = 1
    MaxNoise = 1
    MaxActions = 1
    Capacity = 2
INVARIANTS
    PauseShownIsReal
CHECK_DEADLOCK FALSE
