\* Liveness: no symmetry; two threads, two prompts.
CONSTANTS
    Threads = {t1, t2}
    Prompts = {p1, p2}
    NoPrompt = NoPrompt
    NoThread = NoThread
    Outcomes = {"completed", "cancelled"}
    DrainAfterCancel = FALSE
    MaxRotations = 1
SPECIFICATION FairSpec
PROPERTIES
    ImplementsFairSerialSession
    
CHECK_DEADLOCK FALSE
