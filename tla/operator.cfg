SPECIFICATION FairSpec
CONSTANTS
  None = None
  Profiles <- SomeProfiles
  Original <- TwoMachines
  HandEdits <- Hand
  Fresh <- AddedMachine
  MaxRows = 2
  MaxClicks = 3
  MaxHand = 1
  MaxStarts = 2
  MaxCommands = 1
INVARIANT NoEditDiscarded
INVARIANT EnabledAsAsked
INVARIANT AppliedMeansRunning
INVARIANT OneServiceOwned
PROPERTY FileIsApplied
CONSTRAINT Explored
CHECK_DEADLOCK FALSE
