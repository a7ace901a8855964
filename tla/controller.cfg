SPECIFICATION Spec
CONSTANTS
  MaxSpec = 2
  MaxFaults = 2
  Scenarios = {{"api", "restart", "relist", "subDelete", "blindDelete"}, {"recreate"}}
INVARIANTS TypeOK ClusterFollowsCR NothingLeft Healed RunningIsTrue
CHECK_DEADLOCK FALSE
