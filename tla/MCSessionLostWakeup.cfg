\* submit_prompt against a drainer that is about to leave.
CONSTANTS
    Threads = {t1, t2}
    Prompts = {p1, p2}
    NoPrompt = NoPrompt
    NoThread = NoThread
    Outcomes = {"completed"}
    DrainAfterCancel = FALSE
    MaxRotations = 0
SPECIFICATION Spec
SYMMETRY Symmetric
INVARIANTS
    SubmittedPromptIsConsumed
CHECK_DEADLOCK FALSE
