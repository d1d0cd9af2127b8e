CONSTANTS
    Conns = {c1}
    NULL = NULL
    RXB = 2
    TXB = 2
    KIN = 1
    ATX = 1
    Events = {2, 5}
    MaxRx = 3
    MaxTx = 2
    MaxArx = 2
    MaxGen = 1
    CloseEarly = TRUE
    Reuse = FALSE
SPECIFICATION Spec
INVARIANTS
    
    Accounted
    EventsInOrder
CHECK_DEADLOCK FALSE
