SPECIFICATION Spec
CONSTANTS
    MaxIndex = 3
    Parts = {0, 1}
    Sizes = {30, 247}
    Sheets <- TwoSheets
    Zooms <- TwoZooms
    ViewPx = 20
    Scrolls = {0, 9}
    Ranges = {{1, 2}}
    MaxEdits = 2
    Budget = 3
INVARIANTS TypeOK PositionsAgree PixelFindsElement PrintMapsToTile ZoomKeepsCells ViewFollows
CHECK_DEADLOCK FALSE
