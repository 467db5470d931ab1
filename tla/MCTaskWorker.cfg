SPECIFICATION FairSpec
CONSTANTS
  start = start
  stop = stop
  again = again
  s1 = s1
  s2 = s2
  NoTask = NoTask
  Requests <- MCRequests
  Serials <- MCSerials
  SerialOf <- MCSerialOf
  CommandTimeout <- MCCommandTimeout
  QueueMax = 1
  MaxRetries = 3
  RetryDelay = 2
  GracePeriod = 5
  TaskMaxTime = 1200
  MaxRestarts = 1
INVARIANTS LedgerAgrees NoSerialLeak NoStrayCommand
PROPERTIES TimeoutMeansUnkillable Implements AcceptedFinishes
CHECK_DEADLOCK FALSE
