\* A handler destroys another channel.
CONSTANTS
  Chan = {c1, c2}
  Fd = {f1, f2}
  Event = {"in"}
  Unasked = {"hup"}
  KInitSize = 1
  DestroysInHandler = TRUE
SPECIFICATION Spec
INVARIANT HandledIsAlive
