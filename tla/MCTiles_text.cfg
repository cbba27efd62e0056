SPECIFICATION Spec
CONSTANTS
    Parts = {0}
    Pos = {1, 2}
    Areas <- AreasMove
    DocTypes = {"text"}
    Limit = 1
    MaxEdits = 1
    MaxMoves = 3
    Faults = {"evict", "forget", "elapse", "repaint", "inactive", "reconnect"}
INVARIANT TypeOK
INVARIANT CacheIsCurrent
INVARIANT DeltasChain
INVARIANT ShownIsCurrent
INVARIANT SettledIsShown
CHECK_DEADLOCK FALSE
