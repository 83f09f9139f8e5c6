SPECIFICATION MemorySpec
CONSTANTS
    Jobs = {j1, j2}
    NoJob = NoJob
    MaxTurns = 3
    MaxFolds = 1
    MaxEnds = 1
    w1 = w1
    w2 = w2
    w3 = w3
    p1 = p1
    p2 = p2
    p3 = p3
    e1 = e1
    e2 = e2
    e3 = e3
    s1 = s1
    NoWriter = NoWriter
    Writers = {w1, w2, w3}
    Stores = {p1, p2}
    StoreOf <- MCStoreOf
    Entry = {e1, e2, e3}
    Limit = 2
    Operations <- MCOperations
    MaxOps = 2
    MaxEdits = 2
    MaxReadFaults = 1
    MaxDeaths = 1
    Turns = 3
    MaxSessions = 3
    Folds = 1
    Procs = {p1, p2, p3}
    Workspace <- MCWorkspace
    Ids = {s1}
    TurnIds = {1, 2}
    TailLimit = 3
    Faults = 1
    Kills = 1
INVARIANTS
    MemoryIsKept
    CyclesAreFlushedOnce
    NotesAreSafe

    
CHECK_DEADLOCK FALSE
