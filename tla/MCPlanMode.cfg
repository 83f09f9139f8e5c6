SPECIFICATION Spec
CONSTANTS
    Turn = turn
    Host = host
    Hosts = {TRUE, FALSE}
    MaxTurns = 2
    MaxHostOps = 2
    MaxCrashes = 1
PROPERTIES
    PlanIsKept
    DeferredExitEnds
CHECK_DEADLOCK FALSE
