SPECIFICATION SchedulerSpec
CONSTANTS
  off = off
  back = back
  Columns <- MCColumns
  Unsaved = {"flag"}
  Original <- MCOriginal
  Values = {"old", "new", "on", "off", "kept", "deleted"}
  Requests = {off, back}
  Wanted <- MCWanted
  Scheduler = Scheduler
  Worker = Worker
  Triggers = {Scheduler, Worker}
  Nobody = Nobody
  NoRow = NoRow
  Minute = 2
  MaxDrift = 1
  Horizon = 7
  Fires = {0, 2}
  MaxFaults = 1
INVARIANTS RunMatchesVersion ConflictNeedsOverrun NoTimeMissed
PROPERTIES Implements TriggersAreBounded
CHECK_DEADLOCK FALSE
