SPECIFICATION Safety
CONSTANTS
  Timer = {r, a}
  Repeating = {r}
  Delay = {2}
  Interval = 2
  Slow = FALSE
  MaxLate = 3
  MaxQueue = 2
PROPERTIES
  NotRunOnceCancelledInBatch
