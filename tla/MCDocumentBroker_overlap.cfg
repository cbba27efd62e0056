SPECIFICATION Spec
CONSTANTS
    NSessions = 1
    Writers = {1}
    Owners = {1}
    OwnerTermination = TRUE
    AlwaysSaveOnExit = FALSE
    LimStoreFailures = 2
    ReportsWasModified = TRUE
    Events = {"edit", "save"}
    Timers = {"saveNow", "uploadNow", "settled"}
    Budget = 3
    MaxQueue = 2
INVARIANT UploadedIsStored
