CONSTANTS
    PollInterval = 2
    OperationTimeout = 5
    MaxTime = 8

SPECIFICATION FairSpec

INVARIANTS
    TypeOK
    Truthful
    PollRate

PROPERTIES
    ImplementsContract
    AwaitReturns

\* Once the handler has returned and the clock has reached its bound, nothing
\* is left to happen.
CHECK_DEADLOCK FALSE
