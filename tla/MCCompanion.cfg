CONSTANTS
  Clients = {c1, c2}
  Capacity = 1
  MaxSnapshots = 3
  MaxFailures = 1
SPECIFICATION CompanionSpec
PROPERTIES ForwardAfterGreeting CatchesUp
CHECK_DEADLOCK FALSE
