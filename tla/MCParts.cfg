SPECIFICATION Spec
CONSTANTS
    j1 = j1
    j2 = j2
    Jobs = {j1, j2}
    Interval = 1
    Life = 2
    MaxJobs = 2
    Horizon = 3
    c1 = c1
    c2 = c2
    Callers = {c1, c2}
    Slots = 1
    Requests = 2
    Notes = 2
    Asks = 2
    Drain = 2
INVARIANT
    CodexIsFaithful
PROPERTIES
    ScheduleIsKept
    CancelIsClean
    
CHECK_DEADLOCK FALSE
