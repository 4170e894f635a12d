CONSTANTS
  Machines = {m1}
  Variants = {"a", "b"}
  NSessions = 4
  NHosts = 4
  Debounce = 2
  MaxRequests = 2
  MaxFaults = 2
  MaxCriticals = 1
SPECIFICATION Spec
INVARIANTS OneHost HostsAreReachable StopLeavesNothing Quiesced AppliedIsRunning
PROPERTIES GenerationsAreFresh EventuallyConnected
CONSTRAINT Explored
