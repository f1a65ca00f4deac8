SPECIFICATION Spec
CONSTANTS
    Requests = {r1, r2, r3}
    Framings <- AllFramings
    Attempts <- AllAttempts
    MaxContinues = 1
INVARIANTS
    RequestDriven
    IdleWatched
    AssertionsHold
    ReplyMatches
PROPERTIES
    KeepsPromise
    RequestEnds
CHECK_DEADLOCK FALSE
