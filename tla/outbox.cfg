SPECIFICATION FairSpec
CONSTANTS
  p = p
  q = q
  t1 = t1
  t2 = t2
  NoPartition = NoPartition
  Kinds = {"http", "legacy", "mqtt"}
  Partitions = {p, q}
  Broken = {q}
  Threads = {t1, t2}
  Cap = 2
  Limit = 2
  Strikes = 2
  MaxRows = 2
  MaxTroubles = 2
INVARIANT NothingLost
INVARIANT ArrivalOrder
PROPERTY ImplementsDelivery
PROPERTY Drains
CHECK_DEADLOCK FALSE
