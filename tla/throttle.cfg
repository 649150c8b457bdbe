CONSTANTS
    Workers = {w1, w2}
    Limits <- MCLimits
    Second = 2
    FullBuffer = 3
    FileSizes = {1, 4}
    MaxCopies = 2
    MaxTime = 5
SYMMETRY Symmetry
SPECIFICATION Spec
INVARIANT RateKept
INVARIANT SleepsShort
CHECK_DEADLOCK FALSE
