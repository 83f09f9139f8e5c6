\* Safety and refinement: three host threads, two prompts.
CONSTANTS
    Threads = {t1, t2, t3}
    Prompts = {p1, p2}
    NoPrompt = NoPrompt
    NoThread = NoThread
    Outcomes = {"completed", "cancelled", "error", "interrupted"}
    DrainAfterCancel = TRUE
    MaxRotations = 1
    k1 = k1
    Kids = {k1}
    MaxTasks = 2
    Externals = {2}
    MaxLogins = 1
    Providers = {"grok", "claude"}
    First = "grok"
    MaxTries = 2
    MaxEnters = 1
    MaxExpiries = 1
    Endings = {"completed", "cancelled"}
    KidOutcomes = {"completed"}
SPECIFICATION TerminalSpec
SYMMETRY Symmetric
INVARIANTS
    TurnsAreExclusive
    TeardownIsSafe
    PromptsGoOneWay
PROPERTIES
    BarrierHolds
    TerminalIsTrue
    CancelIsSeen
    ImplementsSerialSession
CHECK_DEADLOCK FALSE
