SPECIFICATION UserDBSpec
CONSTANTS
  Users = {u1, u2}
  Callers = {c1, c2}
  Handles = {h1, h2, h3}
  PoolSize = 1
  Nil = Nil
PROPERTY ReturnsOpen
