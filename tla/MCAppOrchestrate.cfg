CONSTANTS
  Agents = {agent}
  NoAgent = None
  MaxTasks = 2
  MaxInbox = 4
  NumTasks = 2
  Shape = "fanout"
  None = None
  Sessions = {1, 2}
  PaneIds = {0, 1}
  MaxChunks = 1
  AllowDescendants = FALSE
  NumAgents = 0
  Reconnecting = FALSE
  MaxAttempts = 3
  MaxPanes = 2
  SpawnMayFail = FALSE
  ScreenMayFail = FALSE
  Keys = {}
SPECIFICATION AppSpec
INVARIANTS TaskHasItsPane NoOutputLost
PROPERTIES DrivesTheLoop RunCompletes ImplementsRun
CHECK_DEADLOCK FALSE
