SPECIFICATION ShellSpec
CONSTANTS
    app = app
    lib = lib
    Urls = {app, lib}
    NoUrl = NoUrl
    NoScript = NoScript
    None = None
    MaxScript = 3
    MaxPage = 1
    MaxClicks = 2
    Capacity = 2
SYMMETRY Symmetry
INVARIANTS
    IndexesAgree
    ScriptsAreFound
    ClicksReachTheirSource
    TextsAreTheirs
CHECK_DEADLOCK FALSE
