SPECIFICATION FairSpec
CONSTANTS
    Options <- OptionsHere
    eight = 0
    MaxRequests = 1
    MaxOffers = 1
    MaxFlushes = 1
    MaxSessions = 2
INVARIANTS
    Agree
PROPERTIES
    Quiesces
    FlushEnds
CHECK_DEADLOCK FALSE
