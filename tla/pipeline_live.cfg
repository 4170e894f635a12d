SPECIFICATION FairSpec
CONSTANTS
  a = a
  b = b
  L1 = L1
  L2 = L2
  w1 = w1
  w2 = w2
  NoLot = NoLot
  NoBuffer = NoBuffer
  NoEvent = NoEvent
  NoOne = NoOne
  Offers <- PlainPair
  Endpoints = {a, b}
  Workers = {w1}
  Lots = {L1, L2}
  NumSinks = 1
  NumAlarmSinks = 1
  GlobalRoute = FALSE
  Cap = 1
  MaxAttempts = 2
  Limit = 3
  PreLotMax = 1
  MaxLotRows = 1
  Stuck = {a}
  Faults = {"sink", "mark"}
  MaxSeq = 3
  MaxFaults = 1
  MaxCrashes = 1
  MaxEdits = 0
PROPERTY OtherMachineUnblocked
CHECK_DEADLOCK FALSE
