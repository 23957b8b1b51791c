CONSTANTS
    Tasks = {t1, t2}
    Contexts = {ungated, single, double}
    ungated = ungated
    single = single
    double = double
    Gates <- GateCounts
SPECIFICATION FairTracedSpec
INVARIANTS
    UsedOnce
    IdleWhenLeft
    OperationsAreGated
PROPERTIES
    ExceptionsPropagate
    EventuallyIdle
    VerdictIsCompletion
