SPECIFICATION ScreenSpec
CONSTANTS
  SCREEN_WIDTH = 2
  SCREEN_HEIGHT = 3
  Proc = {p1, p2}
  Text <- Texts
  Bypassed <- BypassedCells
SYMMETRY Symmetric
INVARIANTS CursorPerProcess TerminalFollows
