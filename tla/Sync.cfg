\* Three threads, goroutines or processes, and a fourth that sleeps on the note or
\* uses a type of package sync with them.  A lock is reused once: the threads can
\* ask for six semaphores and get four, so that sem_init can fail.  The counter of
\* a note wraps after its third value below zero.  There are two runtime
\* semaphores, groups and conditions that make up to three and two, two readers
\* and two writers of an io.Pipe, a console buffer of two bytes whose positions
\* overflow after the fifth, and up to five processes with nine identifiers.
CONSTANTS
  Ms = {g1, g2, g3}
  MaxSems = 4
  MaxDestroys = 1
  Sleepers = {main}
  Wakers = {g1, g2, g3}
  Half = 4
  MaxTokens = 6
  MaxSurplus = 4
  SemaGs = {g1, g2, g3}
  Addrs = {1, 2}
  MaxCount = 2
  MutexGs = {g1, g2, g3, main}
  RWGs = {g1, g2, g3, main}
  GroupGs = {g1, g2, g3, main}
  MaxCounter = 2
  MaxGroupSemas = 3
  CondGs = {g1, g2, g3, main}
  MaxItems = 2
  MaxCondSemas = 2
  Readers = {"r1", "r2"}
  Writers = {"w1", "w2"}
  IoMaxLen = 2
  None = none
  StdinProcs = {g1, g2, g3}
  Chars = {0, 1}
  STDIN_BUFSIZE = 2
  OffMax = 5
  StdinMaxLen = 2
  MAX_PROCESS = 5
  MAX_PID = 10
SPECIFICATION Spec
SYMMETRY SyncSymmetry
INVARIANTS
  LockSound
  SemaSound
  MutexSound
  WaitGroupSound
  CondSound
  StdinSound
  PidSound
PROPERTIES
  LockIsMutex
  NoteSound
  RWMutexSound
  IoPipeSound
  MutexSpec
CHECK_DEADLOCK FALSE
