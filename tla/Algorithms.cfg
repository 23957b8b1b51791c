CONSTANTS
    Tasks = {a, b, c, d}
    TaskOrder <- InsertionOrder
    MaxEdges = 4
    TextInputs <- SomeTextInputs
    GoalInputs <- SomeGoalInputs
    IndexInputs <- SomeIndexInputs
    LogInputs <- SomeLogInputs
    AuditInputs <- SomeRepos
    GateInputs <- SomeGateInputs
    MergeInputs <- SomeMergeInputs
    a = a
    b = b
    c = c
    d = d
SPECIFICATION AlgorithmsSpec
CHECK_DEADLOCK FALSE
INVARIANTS
    SortedIsTopological
    CycleVerdictIsRight
    RedactionIsComplete
    EvaluatorsAgree
    IndexIsMonotone
    AcceptedIsConsistent
    GatesAreEarned
    MergeIsEarned
