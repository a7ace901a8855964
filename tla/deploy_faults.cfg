SPECIFICATION Spec
CONSTANTS
  Workers = {w1}
  NoWorker = NoWorker
  Clients = {c1, c2}
  Threads = {t1, t2}
  MaxVersion = 2
  QueueSize = 1
  MaxRevision = 2
  MaxChanges = 1
  Faults = {"send", "db", "api", "timeout", "inner", "outer"}
SYMMETRY Symmetry
INVARIANTS OneJobPerVersion ActiveIsSuccess ActiveWorkerHasCR
PROPERTIES ImplementsRecords
