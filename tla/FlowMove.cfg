CONSTANTS
    SEQ = 16
    TRIM = 7
    RX_LEN = 2
    TX_LEN = 2
    TCP_MSS = 1
    WND16 = 4
    WND24 = 64
    BSEQ = 16
    Cores = {c1, c2}
    Home = c1
    ToSend = 2
    ToReceive = 1
    MaxMoves = 1
    MaxTimeouts = 1
    MaxBumps = 2
SPECIFICATION Spec
INVARIANTS
    
    NothingDoubled
CHECK_DEADLOCK FALSE
