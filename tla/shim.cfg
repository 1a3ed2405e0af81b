SPECIFICATION Spec
CONSTANTS
    DirA = DirA
    DirB = DirB
    Unrestricted = Unrestricted
    NoDir = NoDir
    Fds <- FdsHere
    Dirs <- DirsHere
    IoctlCmds <- IoctlsHere
    SafeIoctls <- SafeHere
    RightsSets <- RightsHere
    IoctlLists <- ListsHere
    FD_LIMITS = 2
    LOOKUP_MAX = 1
    ALLOW_MAX = 1
    IOCTL_MAX = 2
    FLUSH_CHUNK = 20
    JUMP_BUDGET = 15
    MaxCalls = 3
    FdTables <- TablesHere
    FcntlRights <- FcntlHere
INVARIANTS
    TypeOK
    AllOrNothing
    RegistryFaithful
    ArgLimitsEnforced
    FsConfined
    RightsEnforced
PROPERTIES
    OnlyTightens
CHECK_DEADLOCK FALSE
