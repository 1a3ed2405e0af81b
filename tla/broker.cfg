SPECIFICATION FFairSpec
CONSTANTS
    h1 = h1
    Hosts <- HostsHere
    Ports <- PortsHere
    broker_ports <- ListedHere
    NoPort <- ZeroPort
    MaxConnects = 2
    Timeouts = TRUE
    Flags <- FlagsHere
    Files <- FilesHere
    Remotes <- RemotesHere
    MaxUrls = 2
    MaxTries = 2
INVARIANTS
    TypeOK
    AnswerSkewedByTimeouts
    PortPolicy
    
    FileWhole
PROPERTIES
    WaitEnds
    BrokerLeaves
CHECK_DEADLOCK FALSE
