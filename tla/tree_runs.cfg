CONSTANTS
    Nodes <- MCNodes
    Workers = {w1, w2, w3}
    Scenarios <- MCScenarios
    Absent = Absent
    Dir = Dir
    NoOp = NoOp
SPECIFICATION Spec
SYMMETRY Symmetry
INVARIANT TreesConverge
INVARIANT SyncMeets
INVARIANT TwoRunsSuffice
PROPERTY OnlyImageChanges
CHECK_DEADLOCK FALSE
