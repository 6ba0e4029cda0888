SPECIFICATION DrivenSpec
CONSTANTS
  p1 = p1
  p2 = p2
  c1 = c1
  c2 = c2
  as = as
  bs = bs
  x = x
  y = y
  None = None
  Procs = {p1}
  Protected = {p1}
  Calls = {c1}
  Criteria = {k1, k2}
  Contents = {as, bs}
  Digests = {x, y}
  Oracle <- MCOracle
  MaxGenerations = 1
  MaxVersion = 9
  MaxDisturbances = 0
PROPERTY CriteriaAccounted
CHECK_DEADLOCK FALSE
