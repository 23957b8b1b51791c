CONSTANTS
    Schedules = {once, later, hourly}
    Recurring = {hourly}
    MaxQueueDepth = 2
    Period = 2
    MaxTime = 4
    MaxEntries = 3
SPECIFICATION Spec
CHECK_DEADLOCK FALSE
INVARIANTS
    OneTimeReturned
