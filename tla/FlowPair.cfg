CONSTANTS
    SEQ = 16
    TRIM = 7
    RX_LEN = 2
    TX_LEN = 2
    TCP_MSS = 2
    WND16 = 4
    BSEQ = 4
    WND24 = 64
    StreamA = 3
    StreamB = 0
    SeqA = 3
    SeqB = 5
    Stream <- MCStream
    InitSeq <- MCInitSeq
    Closers = {"a"}
    MaxFaults = 1
SPECIFICATION FairSpec
INVARIANTS
    StreamIntegrity
    NothingFreedEarly
    BuffersAgree
PROPERTY Delivery
CHECK_DEADLOCK FALSE
