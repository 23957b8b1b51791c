CONSTANTS
    Items = {t1, t2, t3, t4}
    NoItem = NoItem
    NoTask = NoTask
    Consumers = {c1, c2}
    MaxQueueDepth = 2
    KeyOf <- KeysOfTasks
    Requested <- DefaultAndAbove
    t1 = t1
    t2 = t2
    t3 = t3
    t4 = t4
    k1 = k1
    k2 = k2
    k3 = k3
    Subagents = {s1, s2}
    MaxSpawns = 3
    MaxConcurrency = 2
    Schedules = {once, later, hourly}
    Recurring = {hourly}
    Period = 2
    MaxTime = 4
    MaxEntries = 3
SPECIFICATION FairUsedSpec
CHECK_DEADLOCK FALSE
INVARIANTS
    LanesTypeOK
    ExactlyOncePerKey
    NoLostWakeup
    SubagentsAreCounted
PROPERTIES
    OvertakenOnce
    DefaultPriorityServed
    SchedulesAreKept
