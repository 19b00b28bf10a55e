\* A tick between do_sleep and schedule.
CONSTANTS
  Procs = {p1, p2, p3}
  InitProc = p1
  Idle = idle
  Levels = 2
  Base = 2
  MaxSleep = 2
  Interactive = {p1, p2, p3}
SPECIFICATION Spec
INVARIANTS
  NeverQueuedTwice
CHECK_DEADLOCK FALSE
