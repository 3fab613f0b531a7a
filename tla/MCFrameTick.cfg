SPECIFICATION TickSpec
CONSTANTS
  Target = 2
  MinPoll = 1
  IdleThreshold = 6
  MaxIdlePoll = 5
  MaxDraw = 3
  TTL = 4
  MAX_TOASTS = 3
  GiveUpAfter = 3
  AtStart = 2
  MaxBus = 2
  MaxChanges = 3
INVARIANT DrawnInTime
INVARIANT StatusIsItsOwn
CHECK_DEADLOCK FALSE
