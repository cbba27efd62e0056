SPECIFICATION Spec
CONSTANTS
    MaxReconnects = 1
    MaxFaults = 2
    MaxSends = 2
    MaxViews = 2
    MaxFocus = 1
    Refusals = {"unloading", "failed", "limit", "password"}
    Endings = {"idle", "recycling", "reload", "drop"}
    Images = TRUE
    Blocking = TRUE
INVARIANT ErrorAfterRetry
CHECK_DEADLOCK FALSE
