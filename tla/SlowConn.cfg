SPECIFICATION Spec
CONSTANTS
    NumConns = 3
    Servers = {7}
    Clients = {2, 3}
    TsPeers = {7, 2}
    EcnPeers = {}
    PORT_MAX = 4
    PORT_FIRST_EPH = 2
    ListenPorts = {1}
    Listeners = {1}
    ReusePort = FALSE
    BACKLOG = 1
    KOUT_LEN = 1
    RETRIES = 0
    ARP_RETRIES = 0
    NumFlows = 2
    NumBufs = 2
    MaxLost = 0
INVARIANTS
    NoAbort Registered  TupleUnique  AcceptMeetsSyn 
CHECK_DEADLOCK FALSE
