SPECIFICATION FairSpec
CONSTANTS
  k1 = k1
  k2 = k2
  Keys = {k1, k2}
  Requests = {r1, r2}
  Asks <- MCAsks
  MaxDeploys = 1
  MaxKinds = 1
  Faults = {"db", "net", "api", "outer", "inner"}
INVARIANTS RowKept ClusterFollowsRow ActiveWasDeployed
PROPERTIES StatusResolves PodsFollow
CHECK_DEADLOCK FALSE
