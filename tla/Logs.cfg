CONSTANTS
  x1 = x1
  Paths = {x1}
  Tools = {"Read", "Write", "Edit"}
  Rels = {1, 4}
  Width = 2
  Gap = 1
  Window = 2
  MaxDelay = 1
  MaxLines = 3
  MaxRotations = 1
  Times = {1, 3, 6}
  Clock = {3, 4}
  Ahead = 1
  MaxTruncs = 1
SPECIFICATION MCSpec
INVARIANTS LogsTypeOK NotInFuture LostOnlyIfTorn LifecycleStable PassedWasParsed LatestReported
PROPERTIES OnceInOrder CatchesUp CodexCatchesUp
CHECK_DEADLOCK FALSE
