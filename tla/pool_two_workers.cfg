CONSTANTS
    Requested = 2
    Tasks <- MCTasks
    Kind <- MCKind
    Bytes <- MCBytes
    NoTask = NoTask
SPECIFICATION FairSpec
INVARIANT TypeOK
INVARIANT PoolInv
INVARIANT ReportComplete
INVARIANT BytesAccounted
INVARIANT NoSendOnClosed
PROPERTY RunReturns
PROPERTY ImplementsContract
CHECK_DEADLOCK FALSE
