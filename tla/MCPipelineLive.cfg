CONSTANTS
  b1 = b1
  Url = {u1}
  Batch = {b1}
  BatchOf <- OneBatch
  Client = {c1}
  Sweeper = {s1}
  Worker = {w1, w2}
  MaxAttempts = 2
  MaxTransient = 0
  MaxFaults = 2
  SlowChecks = TRUE
  LockLoss = TRUE
  NoBatch = NoBatch
  NoUrl = NoUrl
  NoWorker = NoWorker
SPECIFICATION FairSpec
PROPERTIES EveryUrlSettles EveryBatchEnds
