SPECIFICATION LayersSpec
CONSTANTS
    w1 = w1
    w2 = w2
    r = r
    Calls = {w1, w2, r}
    Batches <- MCBatches
    LockOf <- MCLockOf
    NoLock = "no lock"
    Mutating = {w1, w2}
    Workers = 2
    Limits = {2, NoLimit}
    NoLimit = NoLimit
    MaxResubmits = 2
    MaxInterjections = 2
    Todo = "todo"
    Elsewhere = {"shell"}
    a1 = a1
    a2 = a2
    Askers = {a1, a2}
    MaxStale = 3
    Wires = {"chat", "anthropic", "responses", "converse"}
    MaxBlocks = 3
    MaxPieces = 2
    MaxAnswers = 2
    NoTool = NoTool
    Targets = {"anthropic", "anthropic-compatible", "converse", "strict", "thinking", "codex", "grok"}
    CallIds = {"call_1", "fc_1"}
    MaxMessages = 4
INVARIANTS
    TranscriptIsTrue
    WritersTakeTurns
    
    ModelIsHeard
PROPERTIES
    StartsAreAllowed
    
CHECK_DEADLOCK FALSE
