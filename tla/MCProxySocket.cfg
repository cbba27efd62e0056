SPECIFICATION FairSpec
CONSTANTS
    MaxInflight = 3
    MaxLevel = 2
    MaxUp = 2
    MaxDown = 2
    MaxFaults = 2
INVARIANT TypeOK
INVARIANT InflightCounts
INVARIANT OrderedUnlessCrowded
INVARIANT NeverTwice
INVARIANT NothingLost
INVARIANT ClosedForGood
PROPERTY SilenceEnds
CHECK_DEADLOCK FALSE
