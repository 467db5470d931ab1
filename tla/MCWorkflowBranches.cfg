SPECIFICATION Spec
CONSTANTS
  w1 = w1
  w2 = w2
  c1 = c1
  c2 = c2
  Config <- Branches
  Entry <- FirstFork
  Ids <- MCIds
  Edges <- MCEdges
  Workers = {w1, w2}
  Callers = {c1, c2}
  MaxIndex = 1
  AttemptCap = 2
  MaxFaults = 0
SYMMETRY Symmetry
INVARIANTS StartsAfterSource SuccessHasEnd AcceptedStays
CHECK_DEADLOCK FALSE
