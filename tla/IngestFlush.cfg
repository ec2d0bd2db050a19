CONSTANTS
  claude = claude
  xbel = xbel
  Sources = {claude}
  Cursored = {claude}
  MaxBatch = 2
  Interval = 1
  DbMayFail = FALSE
  MaxEvents = 2
  MaxRows = 6
  MaxRestarts = 0
SPECIFICATION Spec
PROPERTIES FlushedInTime
CHECK_DEADLOCK TRUE
