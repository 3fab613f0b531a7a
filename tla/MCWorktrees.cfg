CONSTANTS
  None = None
  Apps = {a, b}
  ShortIds = {i1, i2}
  LaunchCwd = LaunchCwd
  AgentsPerApp = 2
  MaxPicked = 1
  Picking = {b}
  Reconnecting = {a}
  MaxFailures = 2
SPECIFICATION WtSpec
INVARIANT AgentsAreIsolated
INVARIANT NothingLeftUnsaid
PROPERTY TakesOnlyItsOwn
CHECK_DEADLOCK FALSE
