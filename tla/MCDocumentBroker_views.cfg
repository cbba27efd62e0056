SPECIFICATION Spec
CONSTANTS
    NSessions = 2
    Writers = {1, 2}
    Owners = {1}
    OwnerTermination = TRUE
    AlwaysSaveOnExit = FALSE
    LimStoreFailures = 2
    ReportsWasModified = TRUE
    Events = {"edit", "save", "closedocument", "reject", "jsdialog", "savefail", "uploadfail", "foreign", "resize"}
    Timers = {"saveNow", "uploadNow", "settled", "saveLost"}
    Budget = 2
    MaxQueue = 2
PROPERTY CleanExit
PROPERTY StatusNeverRegresses
INVARIANT WaitersAnswered
INVARIANT UploadedIsStoredUnlessOverlap
