SPECIFICATION Spec
CONSTANTS
  p1 = p1
  p2 = p2
  i1 = i1
  i2 = i2
  i3 = i3
  move = move
  append = append
  None = None
  Procs = {p1, p2}
  Ids = {i1, i2, i3}
  Bodies = {move}
  Appending = {}
  MaxVersion = 3
  MaxAnswers = 1
SYMMETRY Symmetry
CONSTRAINT FewAnswers
INVARIANTS AppliedFresh OneWinnerPerVersion RepliesStayTrue
PROPERTY ExecutesOnce
