SPECIFICATION TablesSpec
CONSTANTS
    DMA_MEM_SIZE = 7
    Lengths = {1, 2, 3}
    ENTRIES = 11
    NBSZ = 2
    FLOWST_NUM = 4
    Tuples = {1, 2, 3, 4, 5}
    Hash <- MCHash
    LookupCores = {c1}
    MaxCloses = 1
    RETA_SIZE = 7
    fp_cores_max = 5
    V_MIN = 4
    WAIT = 2
INVARIANTS
    
    Partition
    LookupFinds OwnFlow
    
 
CHECK_DEADLOCK FALSE
