SPECIFICATION LimitsSpec
CONSTANTS
  Check = {k1, k2, k3}
  Limit = 2
  LeaseTtl = 2
  Job = {j1}
  Demo = {d1}
  MaxSlots = 1
  SlotTtl = 4
  Permit = {p1, p2, p3}
  Rate = 2
  Window = 2
  Lag = 1
  Timeout = 2
  CertTimeout = 1
  PermitWait = 1
  MaxRedirects = 1
  QuotaMax = 1
  QuotaWindow = 1
INVARIANTS AtMostLimit IndInv RateHolds SlotLossHasCause QuotaExpires
PROPERTIES PoolNeverStuck EveryCheckEnds
