SPECIFICATION FairSpec
CONSTANTS
  Rdbs = {r1}
  Kvs = {k1}
  Clients = {c1, c2}
  Threads = {t1, t2}
  QueueSize = 1
  Faults = {"send", "db", "rdb", "inner", "outer"}
INVARIANTS ActiveHasSchema DeletedSchemaGone
PROPERTY AckedCreateResolves
