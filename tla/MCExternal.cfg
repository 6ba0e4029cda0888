SPECIFICATION Spec
CONSTANTS
  p1 = p1
  p2 = p2
  None = None
  Procs = {p1, p2}
  MaxAttempts = 2
SYMMETRY Symmetry
INVARIANTS ReplacementAfterAbsence ResultFromCompletion RecordsCoherent NothingLeftOpen
PROPERTY EndedOnce
CHECK_DEADLOCK FALSE
