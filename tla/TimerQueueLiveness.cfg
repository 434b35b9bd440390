\* Time passes only while the loop is blocked.
SPECIFICATION Spec
CONSTANTS
  Timer = {r, a}
  Repeating = {r}
  Delay = {0, 1, 3}
  Interval = 2
  Slow = FALSE
  MaxLate = 3
  MaxQueue = 2
PROPERTIES
  TimerExpires
  RepeatingTimerRepeats
