CONSTANTS
  Clients = {c1, c2}
  Askers = {c1}
  Silent = {c2}
  InitialAgents = 0
  MaxSessions = 1
  MaxChunks = 1
  MaxCommands = 2
  AllowDescendants = TRUE
  SocketBuffer = 1
SPECIFICATION DaemonSpec
INVARIANTS StreamInOrder ViewIsCurrent NoStaleWriter
CHECK_DEADLOCK FALSE
  
