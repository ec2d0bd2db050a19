CONSTANTS
  x1 = x1
  x2 = x2
  x3 = x3
  c1 = c1
  c2 = c2
  panel = panel
  Paths = {x1, x2}
  Conns = {c1, c2}
  Panel = panel
  Free = Free
  NoPin = NoPin
  GuiOps <- MCGuiAll
  IpcOps <- MCIpcAll
  DbMayFail = TRUE
SPECIFICATION Spec
INVARIANTS PinsTypeOK UniquePins ShelfMatchesTable OnlyFailedDiffer
PROPERTIES ReplyHoldsOnBoth
CHECK_DEADLOCK TRUE
