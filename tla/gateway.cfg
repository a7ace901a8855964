SPECIFICATION FairSpec
CONSTANTS
  RemoteTasks = {r1, r2}
  LocalTasks = {l1}
  Boot = boot
  Durations = {day, halfday}
  Threads = {t1, t2}
  QueueSize = 1
INVARIANTS NoSendOnClosed
PROPERTIES ImplementsTaskQueue RequestsAnswered ShutdownEnds AcceptedRuns
CHECK_DEADLOCK FALSE
