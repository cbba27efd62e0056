SPECIFICATION Spec
CONSTANTS
    Parts = {0}
    Pos = {1, 2}
    Areas <- AreasMove
    DocTypes = {"text"}
    Limit = 1
    MaxEdits = 1
    MaxMoves = 3
    Faults = {}
INVARIANT SettledIsCurrent
CHECK_DEADLOCK FALSE
