SPECIFICATION FairSpec
CONSTANTS
  Machines <- SomeMachines
  Grace = 1
  MaxFaults = 1
  Alarms = {door, pump}
  Critical = {door}
  door = door
  pump = pump
  Dedup = 1
  Window = 1
  MaxReports = 3
INVARIANT PictureIsTrue
PROPERTY StormIsTold
PROPERTY SilenceIsTold
CHECK_DEADLOCK FALSE
