SPECIFICATION Spec
CONSTANTS
    NSessions = 1
    Writers = {1}
    Owners = {1}
    OwnerTermination = TRUE
    AlwaysSaveOnExit = FALSE
    LimStoreFailures = 2
    ReportsWasModified = TRUE
    Events = {"edit", "activity", "savetostorage", "rename", "versionrestore", "diskfull", "early", "terminate"}
    Timers = {"saveNow", "uploadNow", "autosave", "saveTimeout", "noConnect", "httpThrown", "stale"}
    Budget = 2
    MaxQueue = 2
INVARIANT TypeOK
INVARIANT ActivityBacked
INVARIANT UploadedIsStoredUnlessOverlap
