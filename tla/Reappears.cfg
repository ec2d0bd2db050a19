CONSTANTS
  d1 = d1
  d2 = d2
  n = n
  left = left
  right = right
  Dirs = {d1, d2}
  Names = {n}
  Populated = {d1}
  Tools = {"Read", "Write", "Edit"}
  Ops = {"Update", "Delete"}
  Threads = {1, 2}
  MaxThreads = 1
  Watched = {"log"}
  Gap = 2
  Window = 4
  Week = 14
  Ahead = 2
  Slack = 2
  Young = 4
  MaxFiles = 3
  MaxMonitors = 1
  MaxSessions = 2
  MaxTime = 8
  Second = 2
  MaxChanges = 3
  Monitors = {left, right}
  Filters = {"all", "user"}
  ActionFilters = {"all", "deleted"}
  MaxClicks = 3
SPECIFICATION MCSpec
CHECK_DEADLOCK FALSE
PROPERTY ReappearedIsCreated
