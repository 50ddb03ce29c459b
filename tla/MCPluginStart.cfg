SPECIFICATION StartSpec
CONSTANTS
    Conn <- MCConn
    Id <- MCId
    MaxAttempts = 2
    MaxPuts = 1
    Schema <- MCSchema
    AuditTable <- MCAuditTable
    RoutingColumns <- MCRoutingColumns
INVARIANTS
    OneRowPerId
    GatesCanWrite
    NothingWithoutTheBlockSeam
PROPERTIES
    ImplementsLog
