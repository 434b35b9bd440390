\* Three clients, up to two threads, the spare descriptor and two more.
CONSTANTS
  Client = {c1, c2, c3}
  Descriptors = 3
  MaxOpens = 1
  MaxThreads = 2
  MaxPicks = 3
SPECIFICATION ServerSpec
CHECK_DEADLOCK FALSE
INVARIANTS SpareIsOwn MapTracksConnections OnItsLoop
PROPERTIES ClientIsServed ClosedIsRemoved
