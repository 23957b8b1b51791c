CONSTANTS
    Executions = {e1, e2}
    Tasks = {a, b, c, d}
    Dependencies <- DiamondDependencies
    Order <- DiamondOrder
    Compensable = {a, b, d}
    NoTask = NoTask
    MaxSize = 2
    CheckpointIntervals = {2}
    a = a
    b = b
    c = c
    d = d
SPECIFICATION Spec
SYMMETRY Symmetry
CHECK_DEADLOCK FALSE
INVARIANTS
    NoPartialSuccess
