SPECIFICATION FairSpec
CONSTANTS
  p1 = p1
  p2 = p2
  e1 = e1
  e2 = e2
  None = None
  Procs = {p1, p2}
  EventIds = {e1, e2}
  MaxAttempts = 2
  MaxDeliveries = 2
  Events <- Deliveries
INVARIANTS ReplayAuthority StreamEndsAttempt TerminalForDispatch
PROPERTIES DecidedOnce DispatchEnds
CHECK_DEADLOCK FALSE
