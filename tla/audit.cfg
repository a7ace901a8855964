SPECIFICATION Spec
CONSTANTS
  LastUid = 3
  Orphans = {2}
  PageSize = 1
  Faults = {"db", "api", "inner"}
INVARIANTS AuditRepairs
PROPERTY KnownUsersSpared
