SPECIFICATION Spec
CONSTANTS
  a = a
  b = b
  L1 = L1
  L2 = L2
  w1 = w1
  w2 = w2
  NoLot = NoLot
  NoBuffer = NoBuffer
  NoEvent = NoEvent
  NoOne = NoOne
  Offers <- PublishOffers
  Endpoints = {a}
  Workers = {w1, w2}
  Lots = {L1, L2}
  NumSinks = 2
  NumAlarmSinks = 2
  GlobalRoute = TRUE
  Cap = 1
  MaxAttempts = 2
  Limit = 3
  PreLotMax = 1
  MaxLotRows = 1
  Stuck = {}
  Faults = {"sink", "mark", "shed"}
  MaxSeq = 2
  MaxFaults = 1
  MaxCrashes = 1
  MaxEdits = 1
INVARIANT DispatchedMeansQueued
PROPERTY TerminalIsForever
SYMMETRY WorkerSymmetry
CHECK_DEADLOCK FALSE
