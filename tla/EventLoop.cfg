\* Two foreign threads and no poll timeout: only the eventfd can wake the
\* owner, so a missing wakeup cannot hide behind the timeout.
SPECIFICATION Spec
CONSTANTS
  Thread = {t1, t2}
  Task = {a, b, c}
  IO = {io}
  PollTimesOut = FALSE
  QueuesOutside = FALSE
INVARIANTS
  InOrderExactlyOnce
  NoSleepOnWork
  EfdReadSucceeds
PROPERTIES
  ImplementsTaskQueue
  QuitEndsRunningLoop
  QueuedTaskRuns
