SPECIFICATION Spec
CONSTANTS
  Procs = {p1}
  Attempts = {1, 2, 3, 4}
  Generations = {1, 2}
  Digests = {d1, d2}
  Obligations = {o1, o2}
  None = None
  LocalCommand = FALSE
  MaxVersion = 15
SYMMETRY Symmetry
CHECK_DEADLOCK FALSE
INVARIANTS
  CloseoutSound
PROPERTIES
  OneVersionPerChange
