CONSTANTS
  Sessions = {s1, s2}
  PaneIds = {p1}
  MaxChunks = 1
  AllowDescendants = TRUE
  None = None
SPECIFICATION PipeSpec
INVARIANTS StreamWholeThenExit
PROPERTY DropReturnsUnlessHeld
CHECK_DEADLOCK FALSE
