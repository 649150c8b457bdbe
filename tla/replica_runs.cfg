CONSTANTS
    Keys <- MCKeys
    Versions <- MCVersions
    SizeOf <- MCSizeOf
    Workers = {w1, w2}
    Scenarios <- PassingScenarios
    Absent = Absent
    NoOp = NoOp
SPECIFICATION Spec
SYMMETRY Symmetry
INVARIANT NoFalseCopy
INVARIANT CleanRunConverges
INVARIANT ReportsTrue
INVARIANT NewestWins
INVARIANT OneWaySettles
CHECK_DEADLOCK FALSE
