\* Safety: two tool threads, two children, nesting allowed.
SPECIFICATION Spec
CONSTANTS
  Children = {c1, c2}
  Callers = {k1, k2}
  Main = main
  MaxWorkers = 2
  MaxDepth = 2
  MaxResumes = 1
SYMMETRY Symmetric
INVARIANTS
    RunsAreTracked
    CancelTargetsRun
    ShutdownIsOrderly
CHECK_DEADLOCK FALSE
