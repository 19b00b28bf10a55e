------------------------------- MODULE MCSync -------------------------------
(***************************************************************************)
(* The ways in which threads, goroutines and processes wait for each other *)
(* and share what they have, each checked by itself in one run: the locks, *)
(* notes and semaphores of the Go runtime, packages sync and io, and the   *)
(* kernel's console and process identifiers.  The variable part chooses    *)
(* the component that moves; the others stay as their Init left them.      *)
(***************************************************************************)
EXTENDS RuntimeLock, RuntimeNote, Sema, SyncMutex, RWMutex, WaitGroup,
        SyncCond, IoPipe, Stdin, Pid, TLC

\* What the components ask of their constants.
ASSUME SyncAssumption == NoteAssumption /\ SemaAssumption /\
                         MutexAssumption /\ RWAssumption /\
                         WaitGroupAssumption /\ CondAssumption /\
                         IoPipeAssumption /\ StdinAssumption /\ PidAssumption

VARIABLE part  \* the component

\* The other components stay as they are.
Still(c) ==
  /\ UNCHANGED part
  /\ IF c = "lock" THEN TRUE ELSE UNCHANGED lockVars
  /\ IF c = "note" THEN TRUE ELSE UNCHANGED noteVars
  /\ IF c = "sema" THEN TRUE ELSE UNCHANGED semaVars
  /\ IF c = "mutex" THEN TRUE ELSE UNCHANGED mutexVars
  /\ IF c = "rwmutex" THEN TRUE ELSE UNCHANGED rwVars
  /\ IF c = "group" THEN TRUE ELSE UNCHANGED groupVars
  /\ IF c = "cond" THEN TRUE ELSE UNCHANGED condVars
  /\ IF c = "iopipe" THEN TRUE ELSE UNCHANGED ioVars
  /\ IF c = "stdin" THEN TRUE ELSE UNCHANGED stdinVars
  /\ IF c = "pid" THEN TRUE ELSE UNCHANGED pidVars

Init == /\ part \in {"lock", "note", "sema", "mutex", "rwmutex", "group",
                     "cond", "iopipe", "stdin", "pid"}
        /\ LockInit /\ NoteInit /\ SemaInit /\ SyncMutexInit /\ RWInit /\
           GroupInit /\ CondInit /\ IoInit /\ StdinInit /\ PidInit
        /\ part # "sema" => count = [a \in Addrs |-> 0]

NextLock == part = "lock" /\ LockNext /\ Still("lock")
NextNote == part = "note" /\ NoteNext /\ Still("note")
NextSema == part = "sema" /\ SemaNext /\ Still("sema")
NextSyncMutex == part = "mutex" /\ SyncMutexNext /\ Still("mutex")
NextRW == part = "rwmutex" /\ RWNext /\ Still("rwmutex")
NextGroup == part = "group" /\ GroupNext /\ Still("group")
NextCond == part = "cond" /\ CondNext /\ Still("cond")
NextIo == part = "iopipe" /\ IoNext /\ Still("iopipe")
NextStdin == part = "stdin" /\ StdinNext /\ Still("stdin")
NextPid == part = "pid" /\ PidNext /\ Still("pid")

Next == NextLock \/ NextNote \/ NextSema \/ NextSyncMutex \/ NextRW \/
        NextGroup \/ NextCond \/ NextIo \/ NextStdin \/ NextPid

Spec == Init /\ [][Next]_<<part, lockVars, noteVars, semaVars, mutexVars,
                           rwVars, groupVars, condVars, ioVars, stdinVars,
                           pidVars>>

\* Threads, goroutines and processes are interchangeable.
SyncSymmetry == Permutations(Ms)
=============================================================================
