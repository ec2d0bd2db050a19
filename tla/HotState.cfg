CONSTANTS
  p1 = p1
  p2 = p2
  p3 = p3
  Paths = {p1, p2, p3}
  Timestamps = {0, 1, 2}
  Kinds = {"opened", "modified"}
  MaxFiles = 2
  MaxBatch = 2
  Batches <- MCBatches
SPECIFICATION Spec
INVARIANTS TypeOK ViewIsTopList IndexExact SortPrefix
PROPERTIES DeltaReplays OnlyNewerReplaces ImplementsLatestWins CallReturns
CHECK_DEADLOCK TRUE
