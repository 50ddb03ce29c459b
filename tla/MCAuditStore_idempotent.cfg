SPECIFICATION StoreSpec
CONSTANTS
    Conn <- MCConn
    Id <- MCId
    MaxAttempts = 2
    MaxPuts = 1
INVARIANTS
    AckedIsInTheFile
CHECK_DEADLOCK FALSE
