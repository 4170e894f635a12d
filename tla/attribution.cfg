SPECIFICATION Spec
CONSTANTS
  MgPorts = {"1", "2"}
  Modules = {PM1, PM2}
  MgEvents = {"portCasPlaced", "pmWaferStarted", "pmStepStarted",
              "pmWaferFinished", "portCasRemoved"}
  OnGap = {"abandon", "lose"}
  Refusals <- Bands
  MaxBatches = 2
  MaxFaults = 1
  MaxWafers = 4
  MaxLots = 4
  MaxJobs = 4
INVARIANTS AttributionSound FilesDoNotMix DepartedForgotten
PROPERTY WholeLotInOneFile
SYMMETRY ModuleSymmetry
CHECK_DEADLOCK FALSE
