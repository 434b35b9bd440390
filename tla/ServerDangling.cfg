\* A server is destroyed before its connections.
CONSTANTS
  Client = {c1, c2}
  Descriptors = 3
  MaxOpens = 0
  MaxThreads = 1
  MaxPicks = 2
SPECIFICATION ServerSpec
CHECK_DEADLOCK FALSE
INVARIANT NoDanglingServer
