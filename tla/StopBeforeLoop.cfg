SPECIFICATION ThreadSpec
CONSTANTS
  Main = main
  Thread = {main}
  Task = {a, b}
  IO = {io}
  PollTimesOut = FALSE
  QueuesOutside = FALSE
CHECK_DEADLOCK FALSE
PROPERTIES
  StopEndsThread
