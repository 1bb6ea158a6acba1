SPECIFICATION MCSpec
CONSTANTS
  Writers = {w1, w2}
  COLS = 3
  ROWS = 2
  TAB = 2
  BYTE = 6
  Callers = {p1, p2, p3}
  SIZE = 4
  Lengths = {0, 1, 3}
  BITS = 5
  Widths <- MCWidths
  Precisions <- MCPrecisions
  Texts = {0, 1, 3, 5}
INVARIANTS CursorOnScreen StaysInBuffer 
CHECK_DEADLOCK FALSE
