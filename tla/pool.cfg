SPECIFICATION UserDBFairSpec
CONSTANTS
  Users = {u1, u2, u3}
  Callers = {c1, c2}
  Handles = {h1, h2, h3, h4}
  PoolSize = 2
  Nil = Nil
INVARIANTS MapAndListAgree OpenExactlyPooled
PROPERTIES CallReturns
