CONSTANTS
  Conn = {c1, c2}
  NoStream = NoStream
  Failed = Failed
  MaxRevs = 2
  MaxFaults = 0
SPECIFICATION FairSpec
PROPERTY NeverStale
CHECK_DEADLOCK FALSE
