\* Descriptors run out while clients still come.
CONSTANTS
  Client = {c1, c2}
  Descriptors = 2
  MaxOpens = 0
  MaxThreads = 1
  MaxPicks = 2
SPECIFICATION ServerSpec
CHECK_DEADLOCK FALSE
PROPERTY HandleReadReturns
