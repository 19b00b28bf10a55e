\* sem.c:70's assertion.
CONSTANTS
  SemProcs = {p1, p2, p3}
  InitValue = 1
  MaxValue = 1
  SemMaxTimeout = 2
SPECIFICATION UserSemSpec
INVARIANTS
  WaiterStillWaits
CHECK_DEADLOCK FALSE
