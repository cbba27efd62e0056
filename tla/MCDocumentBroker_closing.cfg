SPECIFICATION FairSpec
CONSTANTS
    NSessions = 1
    Writers = {1}
    Owners = {1}
    OwnerTermination = TRUE
    AlwaysSaveOnExit = TRUE
    LimStoreFailures = 2
    ReportsWasModified = FALSE
    Events = {"edit", "save", "uploadfail", "crash", "shutdown"}
    Timers = {"saveNow", "uploadNow", "settled", "stale", "saveLost", "load", "idle"}
    Budget = 2
    MaxQueue = 2
PROPERTY ClosingEnds
PROPERTY SavingEnds
PROPERTY LoadingEnds
