SPECIFICATION FairSpec
CONSTANTS
  Machines <- WatchedOnly
  Grace = 1
  MaxFaults = 0
  Alarms = {door, pump}
  Critical = {door}
  door = door
  pump = pump
  Dedup = 1
  Window = 1
  MaxReports = 0
PROPERTY ConnectionSilenceIsTold
CHECK_DEADLOCK FALSE
