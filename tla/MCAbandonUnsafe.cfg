SPECIFICATION Spec
CONSTANTS
  p1 = p1
  p2 = p2
  None = None
  Procs = {p1, p2}
  MaxAttempts = 2
SYMMETRY Symmetry
PROPERTY AbandonedOnceSafe
CHECK_DEADLOCK FALSE
