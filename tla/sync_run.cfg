CONSTANTS
    Requested = 2
    Tasks <- MCTasks
    Kind <- MCKind
    Bytes <- MCBytes
    NoTask = NoTask
    WithReports = TRUE
SPECIFICATION SyncFairSpec
INVARIANT SuccessMeansSynced
INVARIANT NothingCutOff
PROPERTY CommandEnds
CHECK_DEADLOCK FALSE
