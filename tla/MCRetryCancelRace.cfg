CONSTANTS
  u1 = u1
  u2 = u2
  u3 = u3
  b1 = b1
  b2 = b2
  Url = {u1, u2, u3}
  Batch = {b1, b2}
  BatchOf <- MCBatchOf
  Client = {c1}
  NoBatch = NoBatch
SPECIFICATION Spec
CHECK_DEADLOCK FALSE
PROPERTIES CancelledIsFinal
