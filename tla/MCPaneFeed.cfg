CONSTANTS
  Kinds = {"text", "escM", "begin", "end", "title", "link", "status", "done", "garbled", "bg", "da1", "da2", "decrqm", "terminfo"}
  MaxUnits = 3
  CutWithin = 2
  MaxScroll = 1
  MAX_BATCH = 2
  DragKinds = {"text"}
  Rows = 2
  Cols = 3
SPECIFICATION FeedSpec
INVARIANT ShowsWholeFrames
INVARIANT EveryQueryAnswered
INVARIANT PaintIsCurrent
INVARIANT CopiedIsHighlighted
CHECK_DEADLOCK FALSE
