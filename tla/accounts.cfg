SPECIFICATION FairSpec
CONSTANTS
  e1 = e1
  e2 = e2
  u1 = u1
  u2 = u2
  Emails = {e1, e2}
  Requests = {r1, r2}
  Values = {v1}
  Special = special
  MaxCodes = 1
  MaxRestarts = 1
  Uids = {u1, u2}
  UidsOf <- MCUidsOf
  Faults = {"db", "net", "outer"}
INVARIANTS PasswordHasCode AnswersAreTrue DatabasesAccounted
PROPERTIES CodeSpent DatabaseFollows
CHECK_DEADLOCK FALSE
