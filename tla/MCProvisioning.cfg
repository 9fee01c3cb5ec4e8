SPECIFICATION Spec
CONSTANTS
  p1 = p1
  p2 = p2
  p3 = p3
  a = a
  Old = Old
  None = None
  Procs = {p1, p2, p3}
  Projects = {a}
  CommandsOf <- MCCommandsOf
  MaxRunning = 2
  MaxCrashes = 1
CHECK_DEADLOCK FALSE
INVARIANTS IdentityConsistent FailedLeavesNothing RestoredSameAccount
PROPERTIES OwnRollback PreviousKept
