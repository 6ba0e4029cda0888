CONSTANTS
  t1 = t1
  t2 = t2
  u1 = u1
  u2 = u2
  i1 = i1
  f1 = f1
  n1 = n1
  None = None
  Threads <- MCThreads
  Turns <- MCTurns
  Items <- MCItems
  Messages <- MCMessages
  Final <- MCFinal
  Unphased <- MCUnphased
  Directives <- MCDirectives
  MaxStray = 1
  MaxAgentMessages = 2
SPECIFICATION Spec
INVARIANTS ResultIsOwnTurn LeavesNoProcess
PROPERTIES RequestsAwaited ImplementsWorker TurnEnds
CHECK_DEADLOCK FALSE
