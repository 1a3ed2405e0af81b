SPECIFICATION FairSpec
CONSTANTS
    Size = 8
    SubLens <- SubLensHere
    MaxBytes = 18
INVARIANTS
    InBounds
    QueriesAgree
PROPERTIES
    
    Drained
CHECK_DEADLOCK FALSE
