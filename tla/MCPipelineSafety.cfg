CONSTANTS
  b1 = b1
  Url = {u1, u2}
  Batch = {b1}
  BatchOf <- OneBatch
  Client = {c1}
  Sweeper = {s1}
  Worker = {w1, w2}
  MaxAttempts = 2
  MaxTransient = 2
  MaxFaults = 0
  SlowChecks = TRUE
  LockLoss = FALSE
  NoBatch = NoBatch
  NoUrl = NoUrl
  NoWorker = NoWorker
SPECIFICATION PipelineSpec
SYMMETRY Symm
INVARIANTS SingleChecker NoEarlyGiveUp
