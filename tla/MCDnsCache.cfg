SPECIFICATION Spec
CONSTANTS
    N = 2
    Clients = {c1}
    MaxInflight = 2
    MaxRetransmits = 1
    MaxReissues = 1
    MaxTimeouts = 0
    Domains = 1
    Dotted = TRUE
    Codes <- AllCodes
    Nets <- FirstChokes
    Hosts <- OneHost
    Numerics <- OneNumeric
INVARIANTS
    Consistent
    DownServerIsProbed
    RequestIsDriven
    OneRefresh
PROPERTIES
    ResolutionCallsBack
CHECK_DEADLOCK FALSE
