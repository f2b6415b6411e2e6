SPECIFICATION TablesSpec
CONSTANTS
  u1 = u1
  u2 = u2
  u3 = u3
  b1 = b1
  b2 = b2
  Url = {u1, u2, u3}
  Batch = {b1, b2}
  BatchOf <- MCBatchOf
  Client = {c1, c2}
  NoBatch = NoBatch
  Failure = {f1, f2}
  Extra = {slow}
  Act = {w1, w2}
  MaxAlerts = 2
  Browser = {w1, w2}
  MaxUnverified = 2
  MaxFailed = 2
  LockTime = 1
  MaxSignIns = 3
SYMMETRY TablesSymm
INVARIANTS CountersMatchRows TerminalIsSettled ProcessingHasWork VerdictMatchesRows IndInv
  OpenFailureHasCause Reconciled
  FailuresAddUp GraceHolds LockStopsSignIns SessionsFollowPassword
PROPERTIES SettledRowsStay CompletedIsFinal
CHECK_DEADLOCK FALSE
