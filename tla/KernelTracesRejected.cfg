CONSTANTS
    Tasks = {t1, t2}
    Contexts = {ungated, single, double}
    ungated = ungated
    single = single
    double = double
    Gates <- GateCounts
SPECIFICATION TracedSpec
INVARIANTS
    RealTracesPass
