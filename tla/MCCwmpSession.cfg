SPECIFICATION Spec
CONSTANTS
    AcsMethods <- TwoMethods
    Holds <- MayHold
    Headers <- MaybeHeader
    MaxCalls = 3
    MaxOutstanding = 3
INVARIANTS
    TypeOK
    CallsAnsweredInTurn
    QueuesDrained
PROPERTIES
    SuccessMeansAnswered
    ExchangeSpec
    TransferReportedBeforeSuccess
    SessionEnds
CHECK_DEADLOCK FALSE
