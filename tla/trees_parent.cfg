CONSTANTS
    Nodes <- MCNodes
    Workers = {w1, w2}
    Scenarios <- UpScenarios
    Absent = Absent
    Dir = Dir
    NoOp = NoOp
SPECIFICATION Spec
SYMMETRY Symmetry
PROPERTY RemovesAtDestination
CHECK_DEADLOCK FALSE
