SPECIFICATION FairSpec
CONSTANTS
  Workers = {w1}
  NoWorker = NoWorker
  Clients = {c1, c2}
  Threads = {t1, t2}
  MaxVersion = 2
  QueueSize = 1
  MaxRevision = 1
  MaxChanges = 1
  Faults = {"send", "api", "outer"}
INVARIANTS NothingStuck ErrorsExplained
PROPERTIES AckedDeployResolves
