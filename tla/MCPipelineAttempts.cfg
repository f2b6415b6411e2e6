CONSTANTS
  b1 = b1
  Url = {u1}
  Batch = {b1}
  BatchOf <- OneBatch
  Client = {c1}
  Sweeper = {s1}
  Worker = {w1}
  MaxAttempts = 4
  MaxTransient = 4
  MaxFaults = 0
  SlowChecks = FALSE
  LockLoss = FALSE
  NoBatch = NoBatch
  NoUrl = NoUrl
  NoWorker = NoWorker
SPECIFICATION PipelineSpec
INVARIANTS AttemptsPerRound
