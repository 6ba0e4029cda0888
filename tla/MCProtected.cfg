SPECIFICATION Spec
CONSTANTS
  p1 = p1
  p2 = p2
  c1 = c1
  c2 = c2
  as = as
  bs = bs
  x = x
  y = y
  None = None
  Procs = {p1, p2}
  Protected = {p1}
  Calls = {c1, c2}
  Criteria = {k1}
  Contents = {as, bs}
  Digests = {x, y}
  Oracle <- MCOracle
  MaxGenerations = 2
  MaxVersion = 12
  MaxDisturbances = 1
SYMMETRY Symmetry
INVARIANTS SingleInvocation OracleDecides ProtectedAuditAccepts
CHECK_DEADLOCK FALSE
