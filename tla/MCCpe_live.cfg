SPECIFICATION Spec
CONSTANTS
    AcsCalls <- Working
    Outside <- Tidings
    Heartbeats <- Either
    Backup = "backup"
    PPPoE = FALSE
    Resolves <- Always
    Opens <- AnyOpen
    Ends <- OkOrFail
    AcksFirst = FALSE
    MaxQueue = 2
    MaxRestarts = 0
PROPERTIES
    ConnectionRequestReported
    HeartbeatGoesOn
    OtherServerTried
CHECK_DEADLOCK FALSE
