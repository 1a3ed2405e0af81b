SPECIFICATION FairSpec
CONSTANTS
    Chars <- CharsHere
    Inputs <- InputsHere
    Settings <- SettingsHere
    maxprocs = 2
    nargs = 2
    nline = 4
INVARIANTS
    Delivered
    ChildrenTracked
    StatusTells
PROPERTIES
    Terminates
CHECK_DEADLOCK FALSE
