SPECIFICATION Spec
CONSTANTS
    x = x
    e = e
    g = g
    lf = lf
    cr = cr
    scope = scope
    list = list
    NoObject = NoObject
    NoTotal = NoTotal
    NoValues = NoValues
    Kinds = {"text", "source", "messages", "frames", "tokens", "captures", "maps", "values", "panel", "tree", "members", "fields", "marks", "view", "stack"}
    MaxText = 5
    MaxSource = 4
    MaxBody = 9
    Traffic <- MCTraffic
    Damages <- MCDamages
    MaxWritten = 2
    Targets <- MCTargets
    Methods <- MCMethods
    Parameters <- MCParameters
    MaxTokens = 4
    MaxCaptures = 3
    Authored <- MCAuthored
    Maps <- MCMaps
    Generated <- MCGenerated
    AuthoredLines = {0, 1}
    AuthoredColumns = {0, 1, 2, 3, 4}
    MaxLoads = 4
    MaxOps = 5
    Objects <- MCObjects
    Props <- MCProps
    Internals <- MCInternals
    Reported <- MCReported
    PageSize = 2
    RootRows <- MCRootRows
    WatchRows <- MCWatchRows
    GetterValues = {list, NoObject}
    Totals = {2, 3}
    MaxOperations = 5
    MaxClicks = 9
    MaxTree = 5
    PropertyNames = {"p", "q"}
    Enumerated = {1, 2}
    Variants <- MCVariants
    Types = {1, 2, 3}
    FieldNames = {"f", "g"}
    MaxMembers = 3
    MaxFields = 5
    MaxMarks = 6
    MarkLines <- MCMarkLines
    MarkEdits = {"condition", "probe"}
    Blackboxed = {"lib"}
    PauseEvents <- MCPauses
    ViewMargin = 1
    ParseMargin = 2
    ViewedIds = {1, 2}
    ViewedTexts <- MCViewedTexts
    Languages = {"script", "style", "plain"}
    Screens <- MCScreens
    MaxRepaints = 4
    MaxStack = 5
INVARIANTS
    TextsAreFaithful
    MessagesSurviveTheWire
    LinesShowTheirColours
    MapsAreInverse
    RowsAreProperties
    RowsReachWhatTheyShow
    GeneratedTypesFit
    ClicksReachWhatTheyShow
CHECK_DEADLOCK FALSE
