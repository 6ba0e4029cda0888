SPECIFICATION Spec
CONSTANTS
  Procs = {p1, p2}
  Attempts = {1, 2, 3}
  Generations = {1, 2}
  Digests = {d1, d2}
  Obligations = {o1}
  None = None
  LocalCommand = TRUE
  MaxVersion = 13
SYMMETRY Symmetry
CHECK_DEADLOCK FALSE
INVARIANTS
  TypeOK
  AuthorityCoherent
  CandidateLineage
  EvidenceBindsFrozen
PROPERTIES
  IntegrityIsFinal
  TerminalIsFinal
  AdmittedByStore
