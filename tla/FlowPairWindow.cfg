CONSTANTS
    SEQ = 16
    TRIM = 7
    RX_LEN = 2
    TX_LEN = 3
    TCP_MSS = 2
    WND16 = 4
    BSEQ = 4
    WND24 = 64
    StreamA = 3
    StreamB = 0
    SeqA = 3
    SeqB = 5
    Stream <- MCStream
    InitSeq <- MCInitSeq
    Closers = {"a"}
    MaxFaults = 0
SPECIFICATION FairSpec
PROPERTY WindowReopens
CHECK_DEADLOCK FALSE
