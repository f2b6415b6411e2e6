CONSTANTS
  Conn = {c1, c2}
  NoStream = NoStream
  Failed = Failed
  MaxRevs = 2
  MaxFaults = 0
SPECIFICATION Spec
PROPERTY NoLeakedClient
CHECK_DEADLOCK FALSE
