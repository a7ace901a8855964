SPECIFICATION Spec
CONSTANTS
  RemoteTasks = {r1, r2}
  LocalTasks = {l1}
  Boot = boot
  Durations = {day, halfday}
  Threads = {t1, t2}
  QueueSize = 1
INVARIANT RegisteredJobsTick
CHECK_DEADLOCK FALSE
