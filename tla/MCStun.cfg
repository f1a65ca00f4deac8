SPECIFICATION Spec
CONSTANTS
    Threads = {t1, t2}
    Fds <- OneFd
    IPs <- TwoIPs
    Ports <- OnePort
    Stamps <- TwoStamps
    Ids = {i1, i2}
    Punctual = TRUE
    MaxWakes = 2
INVARIANTS
    TypeOK
    SocketOwned
    AcsToldOfAddress
    KeepAliveRuns
    ConnectionRequestOnce
PROPERTIES
    StopsWhenDisabled
CHECK_DEADLOCK FALSE
