SPECIFICATION Spec
CONSTANTS
    Parts = {0, 1}
    Pos = {1}
    Areas <- AreasStay
    DocTypes = {"spreadsheet", "presentation"}
    Limit = 1
    MaxEdits = 1
    MaxMoves = 3
    Faults = {"evict", "elapse", "inactive", "reconnect"}
INVARIANT ShownIsCurrent
INVARIANT CachedIsCurrent
INVARIANT SettledIsShown
PROPERTY ImplementsView
CHECK_DEADLOCK FALSE
