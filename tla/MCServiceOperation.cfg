SPECIFICATION FairSpec
CONSTANTS
  o1 = o1
  o2 = o2
  first = first
  again = again
  Ops = {o1, o2}
  Calls = {first, again}
  OpOf <- MCOpOf
  Earlier <- MCEarlier
  BatchSize = 1
  MaxFaults = 1
INVARIANTS SuccessIsReal TrackedToTheEnd
PROPERTIES Implements NotSentAgain OperationSettles
