CONSTANTS
  x1 = x1
  x2 = x2
  x3 = x3
  c1 = c1
  c2 = c2
  panel = panel
  Paths = {x1, x2}
  Conns = {}
  Panel = panel
  Free = Free
  NoPin = NoPin
  GuiOps <- MCGuiDrag
  IpcOps <- MCNone
  DbMayFail = FALSE
SPECIFICATION Spec
PROPERTIES OrderSurvivesRestart
CHECK_DEADLOCK TRUE
