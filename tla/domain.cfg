SPECIFICATION FairSpec
CONSTANTS
  Domains = {d1}
  MaxRows = 2
  Attempts = 2
  Clients = {c1}
  Clusters = {TRUE, FALSE}
  Faults = {"db", "dns", "api", "outer", "inner"}
INVARIANTS VerifiedWasProven RouteIsComplete DeletedLeavesNothing
PROPERTIES VerdictStands PendingResolves
CHECK_DEADLOCK FALSE
