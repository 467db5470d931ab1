SPECIFICATION FairSpec
CONSTANTS
  w1 = w1
  w2 = w2
  c1 = c1
  c2 = c2
  Config <- JoinAll
  Entry <- FirstBranches
  Ids <- MCIds
  Edges <- MCEdges
  Workers = {w1, w2}
  Callers = {}
  MaxIndex = 1
  AttemptCap = 2
  MaxFaults = 1
INVARIANTS WorkRemains
PROPERTIES RunSettles
CHECK_DEADLOCK FALSE
