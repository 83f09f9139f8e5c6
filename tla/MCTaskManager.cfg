SPECIFICATION Spec
CONSTANTS
    t1 = t1
    t2 = t2
    k1 = k1
    Tasks = {t1, t2}
    Killers = {k1}
    Foreground = {t2}
    Closer = closer
    MaxCompleted = 0
    NoTask = none
INVARIANTS
    NoLostProcess
PROPERTIES
    OneFinalOutcome
    
CHECK_DEADLOCK FALSE
