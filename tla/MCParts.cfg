SPECIFICATION PartsSpec
CONSTANTS
  CsvMax = 2
  CellMax = 1
  TextMax = 4
  u1 = u1
  u2 = u2
  b1 = b1
  Url = {u1, u2}
  Batch = {b1}
  BatchOf <- MCBatchOf
  NoBatch = NoBatch
  Tx = {t1, t2, t3}
  Launch = {l1, l2}
  Service = {api, worker}
  Listener = {api}
  NFiles = 2
  Request = {r1, r2}
  NPages = 3
  MaxResults = 2
SYMMETRY Symm
INVARIANTS CsvKeepsTable WorkersNeverDeadlock CancelRetryNoDeadlock
  SchemaFirst StraysHaveCause
  OneBatch ListsShowTheirPage
PROPERTIES ImplementsStore
CHECK_DEADLOCK FALSE
