------------------------------- MODULE MCPins -------------------------------
EXTENDS Pins

CONSTANTS x1, x2, x3, c1, c2, panel

MCGuiAll == {"pin", "unpin", "reorder"}
MCGuiSaved == {"pin", "unpin"}
MCGuiDrag == {"pin", "reorder"}
MCIpcAll == {"pin", "unpin"}
MCNone == {}
=============================================================================
