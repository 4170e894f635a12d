SPECIFICATION FairSpec
CONSTANTS
  emitter = emitter
  drainer = drainer
  NoThread = NoThread
  Senders = {emitter}
  Workers = {drainer}
  Spooling = {TRUE, FALSE}
  Keeping = {TRUE, FALSE}
  SpoolLimit = 1
  MaxMsg = 2
  MaxHost = 2
  MaxTroubles = 2
INVARIANT NothingLost
INVARIANT Ordered
INVARIANT AckedIsStored
INVARIANT RepeatsRecognised
PROPERTY SpoolDrains
CHECK_DEADLOCK FALSE
