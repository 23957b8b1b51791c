CONSTANTS
    Items = {t1, t2, t3, t4}
    NoItem = NoItem
    NoTask = NoTask
    Consumers = {c1, c2}
    MaxQueueDepth = 2
    KeyOf <- KeysOfTasks
    Requested <- BelowDefaultAbove
    t1 = t1
    t2 = t2
    t3 = t3
    t4 = t4
    k1 = k1
    k2 = k2
    k3 = k3
    Subagents = {s1}
    MaxSpawns = 0
    MaxConcurrency = 2
    Schedules = {hourly}
    Recurring = {hourly}
    Period = 2
    MaxTime = 1
    MaxEntries = 0
SPECIFICATION FairUsedSpec
CHECK_DEADLOCK FALSE
PROPERTIES
    EveryTaskServed
