\* A hangup is reported besides what was asked for.
CONSTANTS
  Chan = {c1, c2}
  Fd = {f1, f2}
  Event = {"in"}
  Unasked = {"hup"}
  KInitSize = 1
  DestroysInHandler = FALSE
SPECIFICATION Spec
INVARIANT EventsInVector
