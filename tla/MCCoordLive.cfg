SPECIFICATION FairSpec
CONSTANTS
  Children = {c1, c2}
  Callers = {k1}
  Main = main
  MaxWorkers = 1
  MaxDepth = 1
  MaxResumes = 0
PROPERTIES
    WaitersGo
CHECK_DEADLOCK FALSE
