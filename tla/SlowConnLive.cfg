SPECIFICATION FairSpec
CONSTANTS
    NumConns = 2
    Servers = {7}
    Clients = {3}
    TsPeers = {7, 3}
    EcnPeers = {}
    PORT_MAX = 4
    PORT_FIRST_EPH = 2
    ListenPorts = {1}
    Listeners = {1, 2}
    ReusePort = TRUE
    BACKLOG = 1
    KOUT_LEN = 1
    RETRIES = 1
    ARP_RETRIES = 1
    NumFlows = 1
    NumBufs = 2
    MaxLost = 1
PROPERTIES Answered 
CHECK_DEADLOCK FALSE
