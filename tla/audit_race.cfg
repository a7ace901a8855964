SPECIFICATION Spec
CONSTANTS
  LastUid = 2
  Orphans = {}
  PageSize = 1
  Faults = {}
PROPERTY OwnersSpared
