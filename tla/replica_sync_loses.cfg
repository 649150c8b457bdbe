CONSTANTS
    Keys <- MCKeys
    Versions <- MCVersions
    SizeOf <- MCSizeOf
    Workers = {w1, w2}
    Scenarios <- MixedSync
    Absent = Absent
    NoOp = NoOp
SPECIFICATION Spec
SYMMETRY Symmetry
INVARIANT NewestWins
CHECK_DEADLOCK FALSE
