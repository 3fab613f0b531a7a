CONSTANTS
  Agents = {a1, a2}
  NoAgent = NoAgent
  MaxTasks = 2
  MaxInbox = 2
SPECIFICATION Spec
INVARIANTS BadDepNeverDispatched
PROPERTY DispatchedAtMostOnce
