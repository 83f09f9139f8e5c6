SPECIFICATION StoresSpec
CONSTANTS
    Batches <- MCBatches
    Texts <- MCTexts
    MaxTurns = 2
    Keep = 2
    Protect = 1
    Window = 4
    Retain = 1
    Tail_ = 5
    c1 = c1
    tool = tool
    tui = tui
    Children = {c1}
    Edits = 3
    Resumes = 2
    Mergers = {tool, tui}
    Tui = tui
    f1 = f1
    f2 = f2
    Files = {f1, f2}
    Changes = 3
    Queries = 2
    Crashes = 1
    Activity = 5
    s1 = s1
    s2 = s2
    nobody = nobody
    Sessions = {s1, s2}
    Nobody = nobody
    Generations = 3
    Commands = 2
    Notices = 2
    PatchFiles <- MCPaths
    Disks <- MCDisks
    Outside <- MCOutside
    Patches <- MCPatches
    Meddles = 1
INVARIANTS
    
    
    TranscriptIsWhole
    
PROPERTIES
    ResultsAreKept
CHECK_DEADLOCK FALSE
