CONSTANTS
  None = None
  MaxConns = 2
  MaxPaneId = 2
  MaxRequests = 2
  MaxBreaks = 1
  MaxFrames = 1
  AttemptLimits = {0, 2}
  Initial = 3
  Cap = 5
SPECIFICATION LinkSpec
INVARIANT AckedWasServed
INVARIANT OutputGoesHome
PROPERTY RetryEnds
PROPERTY LostPanesEnd
CHECK_DEADLOCK FALSE
