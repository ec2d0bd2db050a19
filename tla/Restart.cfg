CONSTANTS
  claude = claude
  xbel = xbel
  Sources = {claude, xbel}
  Cursored = {claude}
  MaxBatch = 2
  Interval = 1
  DbMayFail = TRUE
  MaxEvents = 2
  MaxRows = 4
  MaxRestarts = 1
  p1 = p1
  p2 = p2
  Paths = {p1, p2}
  Timestamps = {0, 1, 2}
  Kinds = {"modified"}
  MaxFiles = 2
SPECIFICATION MCSpec
INVARIANTS IngestTypeOK WrittenOnceInOrder DiskBehindMemory BacklogBounded ReadIsShown NewestFirstAfterRestart
PROPERTIES EventuallyShown
CHECK_DEADLOCK TRUE
