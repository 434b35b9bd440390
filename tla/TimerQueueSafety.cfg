\* Time may pass at any step of the loop.
SPECIFICATION Safety
CONSTANTS
  Timer = {r, a}
  Repeating = {r}
  Delay = {0, 2}
  Interval = 2
  Slow = TRUE
  MaxLate = 3
  MaxQueue = 2
INVARIANTS
  TypeOK
  NeverEarly
  InOnePlace
  CancelSticks
  CancelFollowsAdd
  ArmedForFirst
