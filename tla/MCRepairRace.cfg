SPECIFICATION AuditedSpec
CONSTANTS
  Procs = {p1, p2}
  Attempts = {1, 2, 3, 4}
  Generations = {1, 2}
  Digests = {d1, d2}
  Obligations = {o1}
  None = None
  LocalCommand = FALSE
  MaxVersion = 16
SYMMETRY Symmetry
CONSTRAINTS FewReconciliations FourthForRepair
CHECK_DEADLOCK FALSE
INVARIANTS
  ReadersAccept
  RetryBoundary
  AuditAccepts
