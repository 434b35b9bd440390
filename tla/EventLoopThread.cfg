\* The thread of the EventLoopThread object is the only foreign thread.
SPECIFICATION ThreadSpec
CONSTANTS
  Main = main
  Thread = {main}
  Task = {a, b}
  IO = {io}
  PollTimesOut = FALSE
  QueuesOutside = FALSE
CHECK_DEADLOCK FALSE
INVARIANTS
  GetLoopGivesLoop
  LoopOutlivesUsers
PROPERTIES
  HandedOverTaskRuns
  StopOfRunningLoopJoins
