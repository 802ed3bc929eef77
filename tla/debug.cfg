SPECIFICATION FairSpec
CONSTANTS
    line3 = line3
    Lines = {line3}
    NoModel = NoModel
    MaxPause = 2
    MaxBp = 2
    MaxNoise = 1
    MaxActions = 3
    Capacity = 2
INVARIANTS
    AgentCatchesUp
    MarksAreReal
    ValuesOfThePauseShown
PROPERTIES
    PauseReachesUser
CHECK_DEADLOCK FALSE
