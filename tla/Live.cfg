\* Three threads and a lock; notes,
\* RWMutex, io.Pipe, timers, netchan and rpc; three processes that never yield or
\* sleep, on two levels; initproc and up to two user processes or threads; up to
\* four processes and seven identifiers.
CONSTANTS
  None = None
  Procs = {init, p1, p2}
  InitProc = init
  UserMain = p1
  NoProc = none
  Idle = idle
SPECIFICATION Spec
PROPERTIES
  AskedIsServed
  AllSleepersReturn
  LockIsServed
  CloseEndsCalls
  EveryTimerFires
  NetDelivers
  EveryCallEnds
  RunnableRuns
  OrphansReaped
  WalkEnds
CHECK_DEADLOCK FALSE
