SPECIFICATION FairSpec
CONSTANTS
  i1 = i1
  scheduled = scheduled
  Instances = {i1}
  Checkers = {scheduled}
  NoInstance = NoInstance
  Threshold = 2
  Retries = 1
  MaxFaults = 2
 
PROPERTIES DelistedOnlyWhenStale  DeadIsDelisted DeafIsNoticed
