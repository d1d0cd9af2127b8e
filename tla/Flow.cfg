CONSTANTS
    SEQ = 12
    TRIM = 6
    RX_LEN = 3
    TX_LEN = 3
    TCP_MSS = 2
    WND16 = 4
    WND24 = 8
    BSEQ = 4
    SeqOffsets = {0, 1, 2, 3, 4, 9, 10, 11}
    AckOffsets = {0, 1, 2, 3, 4, 11}
    Lens = {0, 1, 2}
    Fins = {FALSE, TRUE}
    Flags = {"syn", "other"}
    TxBumps = {0, 1, 2}
    RxBumps = {0, 1, 3}
    InitSeq = 9
    MaxMult = 1
    MaxQavail = 6
SPECIFICATION SideSpec
CONSTRAINT Bounded
INVARIANTS
    TypeOK
    SendBuffer
    
    OooInterval
    SegmentExact
PROPERTY EndOfStream
CHECK_DEADLOCK FALSE
