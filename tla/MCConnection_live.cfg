SPECIFICATION FairSpec
CONSTANTS
    MaxReconnects = 1
    MaxFaults = 2
    MaxSends = 0
    MaxViews = 1
    MaxFocus = 0
    Refusals = {"unloading", "failed"}
    Endings = {"idle", "recycling", "reload", "drop"}
    Images = TRUE
    Blocking = FALSE
PROPERTY RetriesEnd
PROPERTY SlurpDrains
CHECK_DEADLOCK FALSE
