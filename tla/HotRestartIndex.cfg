CONSTANTS
  p1 = p1
  p2 = p2
  Paths = {p1, p2}
  Timestamps = {0, 1, 2}
  Kinds = {"modified"}
  MaxFiles = 2
  MaxBatch = 2
  MaxRows = 4
  Batches <- MCBatches
SPECIFICATION RSpec
INVARIANTS IndexConsistent
CHECK_DEADLOCK TRUE
