CONSTANTS
    SB_SIZE = 2
    MaxData = 3
    MaxWrite = 2
    Windows = {1, 3}
    MaxLoss = 1
    MaxOld = 4
    MaxNoBuf = 1
    SEQS = 32
    RB_SIZE = 4
    IRS = 29
    TCP_INITIAL_WINDOW = 5
    MaxPos = 8
    MaxLen = 3
    QSIZE = 2
    MAXEVENTS = 2
    READ = 1
    MaxArrived = 1
    MaxWrites = 1
    MaxCtl = 2
SPECIFICATION MtcpSpec
INVARIANTS
    StreamExact
    
    EventKept
 
CHECK_DEADLOCK FALSE
