CONSTANTS
    SEQ = 16
    TRIM = 7
    RX_LEN = 1
    TX_LEN = 2
    TCP_MSS = 1
    WND16 = 4
    WND24 = 64
    BSEQ = 16
    Cores = {c1, c2}
    Home = c1
    ToSend = 3
    ToReceive = 0
    MaxMoves = 2
    MaxTimeouts = 1
    MaxBumps = 1
    Conns = {c1, c2}
    NULL = NULL
    RXB = 2
    TXB = 2
    KIN = 1
    ATX = 1
    Events = {5}
    MaxRx = 0
    MaxTx = 1
    MaxArx = 0
    MaxGen = 1
    CloseEarly = FALSE
    Reuse = FALSE
SPECIFICATION ProgressSpec
PROPERTIES
    
    BumpsLeave
CHECK_DEADLOCK FALSE
