CONSTANTS
  Agents = {agent}
  NoAgent = None
  MaxTasks = 0
  MaxInbox = 0
  NumTasks = 0
  Shape = "fanout"
  None = None
  Sessions = {1, 2}
  PaneIds = {0, 1}
  MaxChunks = 0
  AllowDescendants = TRUE
  NumAgents = 2
  Reconnecting = FALSE
  MaxAttempts = 3
  MaxPanes = 2
  SpawnMayFail = FALSE
  ScreenMayFail = TRUE
  Keys = {"gateway", "x", "z", "quit"}
SPECIFICATION AppSpec
PROPERTIES VerdictIsFinal KilledOnlyOnPurpose ExitIsNoticed QuitEndsEverything
CHECK_DEADLOCK FALSE
