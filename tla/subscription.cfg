SPECIFICATION FairSpec
CONSTANTS
  v = v
  w = w
  NoWorker = NoWorker
  Workers = {v, w}
  NBands = 2
  MaxAttempts = 2
  MaxEpoch = 2
  MaxTroubles = 1
INVARIANT AcceptedBandsReport
PROPERTY SupersededSilent
PROPERTY NoLateReset
PROPERTY EventuallySubscribed
CHECK_DEADLOCK FALSE
