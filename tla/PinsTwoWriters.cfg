CONSTANTS
  x1 = x1
  x2 = x2
  x3 = x3
  c1 = c1
  c2 = c2
  panel = panel
  Paths = {x1, x2}
  Conns = {c1, c2}
  Panel = panel
  Free = Free
  NoPin = NoPin
  GuiOps <- MCGuiSaved
  IpcOps <- MCIpcAll
  DbMayFail = FALSE
SPECIFICATION Spec
INVARIANTS QuietAgreement
CHECK_DEADLOCK TRUE
