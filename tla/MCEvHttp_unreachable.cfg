SPECIFICATION Spec
CONSTANTS
    Requests = {r1, r2}
    Framings <- AllFramings
    Attempts <- AllAttempts
    MaxContinues = 0
INVARIANTS
    FreedNotTouched
CHECK_DEADLOCK FALSE
