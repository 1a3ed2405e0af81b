SPECIFICATION FairSpec
CONSTANTS
    h1 = h1
    h2 = h2
    Hosts <- HostsHere
    Ports <- PortsHere
    broker_ports <- ListedHere
    NoPort <- ZeroPort
    MaxConnects = 2
    Timeouts = TRUE
INVARIANT AnswerMatchesRequest
CHECK_DEADLOCK FALSE
