SPECIFICATION Spec
CONSTANTS
    AcsCalls <- AllCalls
    Outside <- Wakers
    Heartbeats <- Never
    Backup = "backup"
    PPPoE = TRUE
    Resolves <- Either
    Opens <- AnyOpen
    Ends <- OkOrFail
    AcksFirst = TRUE
    MaxQueue = 1
    MaxRestarts = 1
INVARIANTS
    TypeOK
    OneSessionAtATime
    InformCarriesStored
PROPERTIES
    ReportedBeforeForgotten
CHECK_DEADLOCK FALSE
