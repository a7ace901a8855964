SPECIFICATION Spec
CONSTANTS
  Workers = {w1}
  NoWorker = NoWorker
  Clients = {c1, c2}
  Threads = {t1, t2}
  MaxVersion = 1
  QueueSize = 2
  MaxRevision = 0
  MaxChanges = 0
  Faults = {}
SYMMETRY Symmetry
INVARIANT DeletedHasNoCR
