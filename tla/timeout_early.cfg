SPECIFICATION Spec
CONSTANTS
    d1 = d1
    Options <- KillAfter
    Outside <- OutsideHere
    Descendants <- OneDescendant
    MaxSignals = 1
    MaxStops = 0
INVARIANTS
    KillNotEarly
CHECK_DEADLOCK FALSE
