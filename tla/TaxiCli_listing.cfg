\* A driver that was told to stop is listed.
CONSTANTS
  Drivers = {d1, d2}
  Timers = {1}
  None = None
  MaxDrivers = 2
  MaxTime = 0
  Terminable = {d1}
  Killable = {}
  CliKillable = FALSE
SPECIFICATION FairSpec
PROPERTY ListingCompletes
CHECK_DEADLOCK FALSE
