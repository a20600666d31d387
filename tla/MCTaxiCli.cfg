\* One driver more than the table holds, so that pipe ends are inherited; drivers and the
\* command line die.
CONSTANTS
  Drivers = {d1, d2, d3}
  Timers = {1}
  None = None
  MaxDrivers = 2
  MaxTime = 2
  Terminable = {d1}
  Killable = {d2}
  CliKillable = TRUE
SPECIFICATION FairSpec
INVARIANTS BusyHasTimer OneAtATime
PROPERTIES TaskRunsToItsEnd CliNeverHangs NoOrphans
CHECK_DEADLOCK FALSE
