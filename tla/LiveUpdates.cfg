CONSTANTS
  Conn = {c1, c2}
  NoStream = NoStream
  Failed = Failed
  MaxRevs = 2
  MaxFaults = 1
SPECIFICATION FairSpec
INVARIANTS OneStream StaleHasCause
PROPERTIES EndShown
CHECK_DEADLOCK FALSE
