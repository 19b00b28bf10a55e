\* Three processes: a semaphore of one token with timeouts up to two ticks, one
\* event, a box of one slot for a small and a big message, and a pipe of two bytes
\* whose positions overflow after the fifth.
CONSTANTS
  SemProcs = {p1, p2, p3}
  InitValue = 1
  MaxValue = 1
  SemMaxTimeout = 2
  EventProcs = {p1, p2, p3}
  Events = {"e"}
  EventMaxTimeout = 1
  MboxProcs = {p1, p2, p3}
  Msgs = {m1, m2}
  Big = {m2}
  NoMsg = nomsg
  MaxSlots = 1
  MboxMaxTimeout = 2
  PipeProcs = {p1, p2, p3}
  Bytes = {0, 1}
  PIPE_BUFSIZE = 2
  OffRange = 5
  PipeMaxLen = 3
SPECIFICATION Spec
SYMMETRY IpcSymmetry
INVARIANTS
  UserSemSound
  EventSound
  MboxSound
  KPipeSound
PROPERTIES
  SemaphoreSpec
  RendezvousSpec
CHECK_DEADLOCK FALSE
