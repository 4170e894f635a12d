SPECIFICATION Spec
CONSTANTS
  a = a
  b = b
  L1 = L1
  L2 = L2
  w1 = w1
  w2 = w2
  NoLot = NoLot
  NoBuffer = NoBuffer
  NoEvent = NoEvent
  NoOne = NoOne
  Offers <- OpenClose
  Endpoints = {a}
  Workers = {w1}
  Lots = {L1, L2}
  NumSinks = 1
  NumAlarmSinks = 1
  GlobalRoute = FALSE
  Cap = 3
  MaxAttempts = 2
  Limit = 3
  PreLotMax = 1
  MaxLotRows = 1
  Stuck = {a}
  Faults = {"disk", "release", "start"}
  MaxSeq = 2
  MaxFaults = 2
  MaxCrashes = 1
  MaxEdits = 2
INVARIANT TypeOK
INVARIANT HeldIsInMemory
CHECK_DEADLOCK FALSE
