SPECIFICATION Spec
CONSTANTS
    Fds <- StdioFds
    Lookups <- NoLookups
    Registries <- StdioRegistry
    ArgShapes <- NoShapes
    FlagSets <- FlagSetsHere
INVARIANT FdRightsExact
CHECK_DEADLOCK FALSE
