CONSTANTS
    Outcomes <- MCOutcomes
    Milli = 10
    Scribble = 0
    MaxRecords = 2
    MaxArrays = 8
    None = None
SPECIFICATION Spec
INVARIANT AsMeasured
PROPERTY Detached
CHECK_DEADLOCK FALSE
