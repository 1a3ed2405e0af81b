SPECIFICATION Spec
CONSTANTS
    Fds <- FdsHere
    Lookups <- LookupsHere
    Registries <- RegistriesHere
    ArgShapes <- ShapesHere
    FlagSets <- FlagSetsHere
INVARIANTS
    TypeOK
    NamespaceExact
    ArgLimitsExact
    OneFdRightsExact
    FirstFdEnforced
    ProgramsLoadable
CHECK_DEADLOCK FALSE
