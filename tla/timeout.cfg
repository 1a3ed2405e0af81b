SPECIFICATION FairSpec
CONSTANTS
    d1 = d1
    Options <- OptionsHere
    Outside <- OutsideHere
    Descendants <- OneDescendant
    MaxSignals = 1
    MaxStops = 1
INVARIANTS
    TypeOK
    FlagsClear
    StartGated
    WaitsForAll
    StatusTells
    NoStraySignal
PROPERTIES
    Ends
    LimitEnforced
    KillAfterEnforced
CHECK_DEADLOCK FALSE
