CONSTANTS
  Agents = {agent}
  NoAgent = None
  MaxTasks = 0
  MaxInbox = 0
  NumTasks = 0
  Shape = "fanout"
  None = None
  Sessions = {1, 2, 3}
  PaneIds = {0, 1, 2}
  MaxChunks = 0
  AllowDescendants = FALSE
  NumAgents = 1
  Reconnecting = TRUE
  MaxAttempts = 1
  MaxPanes = 2
  SpawnMayFail = TRUE
  ScreenMayFail = TRUE
  Keys = {"gateway", "esc", "n", "enter", "x"}
SPECIFICATION AppSpec
INVARIANTS Lockstep RunningOwnsItsChild
CHECK_DEADLOCK FALSE
