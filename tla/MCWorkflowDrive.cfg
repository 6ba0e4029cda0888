SPECIFICATION DriveSpec
CONSTANTS
  Procs = {1, 2}
  Attempts = {1, 2, 3, 4, 5, 6, 7, 8, 9}
  Generations = {1, 2}
  Digests = {d1, d2}
  Obligations = {o1}
  None = None
  LocalCommand = TRUE
  MaxVersion = 40
  Base = d1
  MaxOperations = 16
  MaxInvocations = 2
  MaxTampers = 1
  MaxFailures = 1
CHECK_DEADLOCK FALSE
INVARIANTS
  RecordBindsAuthority
  FrozenAfterImplementation
  WritersExclusive
PROPERTIES
  RefusedOnlyWhenLost
  DriveEnds
