SPECIFICATION WSpec
CONSTANTS
    N = 2
    BATCH = 2
    PROBE = 2
    MaxMsgs = 3
    DELTA = 1
    MaxLoop = 1
    Kinds = {"kout", "arx", "atx"}
INVARIANTS
    WakeInv WakeupOrBlind
CHECK_DEADLOCK FALSE
PROPERTIES
    ImplementsFifo TakenOrBlind
