CONSTANTS
    SB_SIZE = 2
    MaxData = 2
    MaxWrite = 2
    Windows = {3}
    MaxLoss = 2
    MaxOld = 3
    MaxNoBuf = 0
SPECIFICATION SendSpec
INVARIANT AllAcked
CHECK_DEADLOCK FALSE
