SPECIFICATION Spec
CONSTANTS
  Timer = {r, a}
  Repeating = {r}
  Delay = {1}
  Interval = 2
  Slow = TRUE
  MaxLate = 3
  MaxQueue = 2
PROPERTIES
  TimerExpires
