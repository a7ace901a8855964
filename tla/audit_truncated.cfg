SPECIFICATION Spec
CONSTANTS
  LastUid = 2
  Orphans = {}
  PageSize = 1
  Faults = {"truncate"}
PROPERTY KnownUsersSpared
