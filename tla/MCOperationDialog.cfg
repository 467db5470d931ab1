SPECIFICATION FairSpec
CONSTANTS
  o1 = o1
  o2 = o2
  Ops = {o1, o2}
  NoOp = NoOp
  MaxInFlight = 2
  Patient = TRUE
INVARIANTS EventIsTrue TimersOwned ProgressIsBacked
PROPERTIES ProgressEnds PollingStops
CHECK_DEADLOCK FALSE
