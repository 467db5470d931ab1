SPECIFICATION FairSpec
CONSTANTS
  w1 = w1
  w2 = w2
  c1 = c1
  c2 = c2
  Config <- Loops
  Entry <- FirstIf
  Ids <- MCIds
  Edges <- MCEdges
  Workers = {w1, w2}
  Callers = {}
  MaxIndex = 3
  AttemptCap = 4
  MaxFaults = 0
INVARIANTS ExecutedOnce LoopRunsAsPlanned
PROPERTIES RunSettles
CHECK_DEADLOCK FALSE
