SPECIFICATION Spec
CONSTANTS
    AcsCalls <- Traceroutes
    Outside <- Requests
    Heartbeats <- Never
    Backup = "backup"
    PPPoE = FALSE
    Resolves <- Always
    Opens <- OnlyOpen
    Ends <- OkOrFail
    AcksFirst = FALSE
    MaxQueue = 2
    MaxRestarts = 0
INVARIANTS
    OneSessionAtATime
CHECK_DEADLOCK FALSE
