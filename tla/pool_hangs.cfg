CONSTANTS
    Requested = 2
    Tasks <- MCTasks
    Kind <- MCKind
    Bytes <- MCBytes
    NoTask = NoTask
SPECIFICATION FairSpec
PROPERTY RunAlwaysReturns
CHECK_DEADLOCK FALSE
