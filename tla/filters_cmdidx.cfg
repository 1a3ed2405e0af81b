SPECIFICATION Spec
CONSTANTS
    Fds <- FdsHere
    Lookups <- NoLookups
    Registries <- NoRegistries
    ArgShapes <- TeeShapes
    FlagSets <- FlagSetsHere
INVARIANT CmdIdxInBounds
CHECK_DEADLOCK FALSE
