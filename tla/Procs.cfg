\* Three processes that compute, yield, sleep, fork and exit on two levels;
\* initproc and up to three user processes or threads, with kills and other
\* sleeps, or with waits for one child; two address spaces of five pages through
\* four calls, and two zones of six and three page frames with blocks of up to four.
CONSTANTS
  Procs = {init, p1, p2, p3}
  InitProc = init
  UserMain = p1
  NoProc = none
  Idle = idle
SPECIFICATION Spec
SYMMETRY ProcSymmetry
INVARIANTS
  SchedSound
  LifeSound
  VmmSound
  BuddySound
PROPERTIES
  DeadlinesSpec
CHECK_DEADLOCK FALSE
