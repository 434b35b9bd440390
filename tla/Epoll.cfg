\* Three channels on two descriptors, and room for one event at first.
CONSTANTS
  Chan = {c1, c2, c3}
  Fd = {f1, f2}
  Event = {"in", "out"}
  Unasked = {}
  KInitSize = 1
  DestroysInHandler = FALSE
SPECIFICATION Spec
INVARIANTS RegistrationAgrees HandledIsAlive
PROPERTY EveryEventIsHandled
