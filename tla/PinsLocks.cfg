CONSTANTS
  x1 = x1
  x2 = x2
  x3 = x3
  c1 = c1
  c2 = c2
  panel = panel
  Paths = {x1}
  Conns = {c1, c2}
  Panel = panel
  Free = Free
  NoPin = NoPin
  GuiOps <- MCGuiAll
  IpcOps <- MCIpcAll
  DbMayFail = TRUE
  Files = {x1, x2}
  Queries = {x3}
  Capacity = 1
  NoFile = NoFile
  NoQuery = NoQuery
SPECIFICATION MCSpec
INVARIANTS LoopTypeOK SummaryIsOfPath ResultsAreOfBar
PROPERTIES CommandsReturn AnswerArrives
CHECK_DEADLOCK TRUE
