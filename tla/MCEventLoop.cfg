SPECIFICATION Spec
CONSTANTS
    Events <- TwoEvents
    Fds <- OneFd
    Fd <- FdOf
    Wants <- WantsOf
    Persistent <- TheReader
    Delays <- LongerThanLag
    Deferreds = {d}
    None = None
    MaxDeferred = 1
    MaxOps = 2
    MaxLag = 1
    MaxLate = 2
INVARIANTS
    CountersAgree
    NotBeforeItsTime
PROPERTIES
    DueIsRun
CHECK_DEADLOCK FALSE
