SPECIFICATION FairSpec
CONSTANTS
    d1 = d1
    Options <- BackgroundSleep
    Outside <- OutsideHere
    Descendants <- OneDescendant
    MaxSignals = 0
    MaxStops = 0
PROPERTIES
    LimitReachesDescendants
CHECK_DEADLOCK FALSE
