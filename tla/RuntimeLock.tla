----------------------------- MODULE RuntimeLock ----------------------------
(***************************************************************************)
(* runtime.lock, runtime.unlock, runtime.destroylock and initsema of the   *)
(* Go runtime's ucore port (patch/src/pkg/runtime/ucore/thread.c) over the *)
(* kernel's user semaphores.  The threads run user code, so they           *)
(* interleave between any two accesses to the shared Lock; every system    *)
(* call is atomic up to the point where it sleeps.                         *)
(***************************************************************************)
EXTENDS Integers, FiniteSets, KSem

CONSTANTS Ms,          \* the M's of one Go process
          MaxSems,     \* bound: semaphores the kernel has memory for
          MaxDestroys  \* bound: how often the Lock is finalised and reused

ASSUME LockAssumption == /\ IsFiniteSet(Ms)
                         /\ MaxSems \in Nat
                         /\ MaxDestroys \in Nat

VARIABLES
  lockKey,   \* l->key
  lockSema,  \* l->sema: 0, a semaphore id, or what a failed sem_init returned
  sems,      \* the kernel semaphores of the process; the id is the index
  lockPc,    \* where each thread is
  op,        \* the operation it is in: "lock" or "unlock"
  mine,      \* initsema's local: the semaphore it has just created
  destroys   \* how often destroylock has run

lockVars == <<lockKey, lockSema, sems, lockPc, op, mine, destroys>>

-----------------------------------------------------------------------------
SemIds == 1 .. MaxSems

\* Before the final system call of the slow path.
Slow == {"test", "init", "alloc", "cas", "free", "sem"}

PCs == {"idle", "asleep", "woken", "inside"} \cup Slow

\* semu_list_search finds a semaphore of the process that is still valid.
Valid(s) == s \in 1 .. Len(sems) /\ sems[s].valid

LockInit == /\ lockKey = 0
            /\ lockSema = 0
            /\ sems = <<>>
            /\ lockPc = [t \in Ms |-> "idle"]
            /\ op = [t \in Ms |-> "lock"]
            /\ mine = [t \in Ms |-> 0]
            /\ destroys = 0

-----------------------------------------------------------------------------
\* lock: xadd(&l->key, 1); the thread that moves it from 0 to 1 has the lock.
LockOffByOne(t) ==
  /\ lockPc[t] = "idle"
  /\ lockKey' = lockKey + 1
  /\ op' = [op EXCEPT ![t] = "lock"]
  /\ lockPc' = [lockPc EXCEPT ![t] = IF lockKey' > 2 THEN "test" ELSE "inside"]
  /\ UNCHANGED <<lockSema, sems, mine, destroys>>

Lock(t) ==
  /\ lockPc[t] = "idle"
  /\ lockKey' = lockKey + 1
  /\ op' = [op EXCEPT ![t] = "lock"]
  /\ lockPc' = [lockPc EXCEPT ![t] = IF lockKey' > 1 THEN "test" ELSE "inside"]
  /\ UNCHANGED <<lockSema, sems, mine, destroys>>

\* unlock: xadd(&l->key, -1); a positive result means somebody is waiting.
UnlockMissesOne(t) ==
  /\ lockPc[t] = "inside"
  /\ lockKey' = lockKey - 1
  /\ op' = [op EXCEPT ![t] = "unlock"]
  /\ lockPc' = [lockPc EXCEPT ![t] = IF lockKey' > 1 THEN "test" ELSE "idle"]
  /\ UNCHANGED <<lockSema, sems, mine, destroys>>

Unlock(t) ==
  /\ lockPc[t] = "inside"
  /\ lockKey' = lockKey - 1
  /\ op' = [op EXCEPT ![t] = "unlock"]
  /\ lockPc' = [lockPc EXCEPT ![t] = IF lockKey' > 0 THEN "test" ELSE "idle"]
  /\ UNCHANGED <<lockSema, sems, mine, destroys>>

\* if(l->sema == 0) initsema(&l->sema, 0), in lock and in unlock.
TestSema(t) ==
  /\ lockPc[t] = "test"
  /\ lockPc' = [lockPc EXCEPT ![t] = IF lockSema = 0 THEN "init" ELSE "sem"]
  /\ UNCHANGED <<lockKey, lockSema, sems, op, mine, destroys>>

\* initsema reads *psema again ...
LockInitSema(t) ==
  /\ lockPc[t] = "init"
  /\ lockPc' = [lockPc EXCEPT ![t] = IF lockSema # 0 THEN "sem" ELSE "alloc"]
  /\ UNCHANGED <<lockKey, lockSema, sems, op, mine, destroys>>

\* ... asks the kernel for a semaphore (ipc_sem_init) ...
LockSemInit(t) ==
  /\ lockPc[t] = "alloc"
  /\ \/ /\ Len(sems) < MaxSems
        /\ sems' = Append(sems, sem_init(0))
        /\ mine' = [mine EXCEPT ![t] = Len(sems) + 1]
     \/ /\ Len(sems) = MaxSems
        /\ mine' = [mine EXCEPT ![t] = ENoMem]
        /\ UNCHANGED sems
  /\ lockPc' = [lockPc EXCEPT ![t] = "cas"]
  /\ UNCHANGED <<lockKey, lockSema, op, destroys>>

\* ... and installs it with cas, unless another thread was faster.
Cas(t) ==
  /\ lockPc[t] = "cas"
  /\ \/ /\ lockSema = 0
        /\ lockSema' = mine[t]
        /\ mine' = [mine EXCEPT ![t] = 0]
        /\ lockPc' = [lockPc EXCEPT ![t] = "sem"]
     \/ /\ lockSema # 0
        /\ lockPc' = [lockPc EXCEPT ![t] = "free"]
        /\ UNCHANGED <<lockSema, mine>>
  /\ UNCHANGED <<lockKey, sems, op, destroys>>

\* The loser of the race gives its own semaphore back (ipc_sem_free).
FreeMine(t) ==
  /\ lockPc[t] = "free"
  /\ sems' = IF Valid(mine[t]) THEN [sems EXCEPT ![mine[t]] = free(@)] ELSE sems
  /\ mine' = [mine EXCEPT ![t] = 0]
  /\ lockPc' = [lockPc EXCEPT ![t] = "sem"]
  /\ UNCHANGED <<lockKey, lockSema, op, destroys>>

\* lock's sem_wait(l->sema, 0): lock ignores what it returns, so -E_INVAL for
\* an id that is not a semaphore looks like success.
LockSemWait(t) ==
  /\ lockPc[t] = "sem" /\ op[t] = "lock"
  /\ \/ /\ Valid(lockSema)
        /\ sems' = [sems EXCEPT ![lockSema] = down(@, t)]
        /\ lockPc' = [lockPc EXCEPT ![t] = IF downTakes(sems[lockSema]) THEN "inside" ELSE "asleep"]
     \/ /\ ~Valid(lockSema)
        /\ lockPc' = [lockPc EXCEPT ![t] = "inside"]
        /\ UNCHANGED sems
  /\ UNCHANGED <<lockKey, lockSema, op, mine, destroys>>

\* unlock's sem_post(l->sema).
LockSemPostWakesAll(t) ==
  /\ lockPc[t] = "sem" /\ op[t] = "unlock"
  /\ Valid(lockSema)
  /\ sems' = [sems EXCEPT ![lockSema] = [up(@) EXCEPT !.queue = <<>>]]
  /\ lockPc' = [u \in Ms |-> IF u = t THEN "idle"
                             ELSE IF lockPc[u] = "asleep" THEN "woken" ELSE lockPc[u]]
  /\ UNCHANGED <<lockKey, lockSema, op, mine, destroys>>

LockSemPost(t) ==
  /\ lockPc[t] = "sem" /\ op[t] = "unlock"
  /\ \/ /\ Valid(lockSema)
        /\ sems' = [sems EXCEPT ![lockSema] = up(@)]
        /\ lockPc' = [u \in Ms |-> IF u = t THEN "idle"
                                   ELSE IF u \in upWakes(sems[lockSema]) THEN "woken"
                                   ELSE lockPc[u]]
     \/ /\ ~Valid(lockSema)
        /\ lockPc' = [lockPc EXCEPT ![t] = "idle"]
        /\ UNCHANGED sems
  /\ UNCHANGED <<lockKey, lockSema, op, mine, destroys>>

\* The kernel runs the thread __up made runnable; sem_wait returns 0.
LockResume(t) ==
  /\ lockPc[t] = "woken"
  /\ lockPc' = [lockPc EXCEPT ![t] = "inside"]
  /\ UNCHANGED <<lockKey, lockSema, sems, op, mine, destroys>>

\* destroylock: the finaliser of the object around the lock (destroychan in
\* chan.c) calls it, so no thread has a reference to the lock any more.
DestroyLock ==
  /\ \A t \in Ms : lockPc[t] = "idle"
  /\ lockSema # 0
  /\ destroys < MaxDestroys
  /\ sems' = IF Valid(lockSema) THEN [sems EXCEPT ![lockSema] = free(@)] ELSE sems
  /\ lockSema' = 0
  /\ destroys' = destroys + 1
  /\ UNCHANGED <<lockKey, lockPc, op, mine>>

-----------------------------------------------------------------------------
\* What a thread does once it has asked for the lock, until it has left it.
LockTurn(t) == \/ Unlock(t) \/ TestSema(t) \/ LockInitSema(t) \/ LockSemInit(t) \/ Cas(t)
               \/ FreeMine(t) \/ LockSemWait(t) \/ LockSemPost(t) \/ LockResume(t)

LockNext == (\E t \in Ms : Lock(t) \/ LockTurn(t)) \/ DestroyLock

LockSpec == LockInit /\ [][LockNext]_lockVars

\* Every runnable thread gets the processor, and critical sections end.
LockFairSpec == LockSpec /\ \A t \in Ms : WF_lockVars(LockTurn(t))

-----------------------------------------------------------------------------
\* The threads that want the lock: from lock's xadd to unlock's xadd.
Wanting == {t \in Ms : \/ lockPc[t] \in {"inside", "asleep", "woken"}
                       \/ lockPc[t] \in Slow /\ op[t] = "lock"}

\* The threads that carry the right to the lock: the one inside, one on the
\* way to pass it on with sem_post, or one that sem_post has just woken.
Carrying == {t \in Ms : \/ lockPc[t] \in {"inside", "woken"}
                        \/ lockPc[t] \in Slow /\ op[t] = "unlock"}

LockStored == IF Valid(lockSema) THEN sems[lockSema].value ELSE 0

\* Type correctness.
LockTypeOK == /\ lockKey \in Int
              /\ lockSema \in SemIds \cup {0, ENoMem}
              /\ sems \in Seq(SemRec(Ms)) /\ Len(sems) <= MaxSems
              /\ lockPc \in [Ms -> PCs]
              /\ op \in [Ms -> {"lock", "unlock"}]
              /\ mine \in [Ms -> SemIds \cup {0, ENoMem}]
              /\ destroys \in 0 .. MaxDestroys

\* lock excludes: two threads are never between lock and unlock together, as
\* long as sem_init did not fail and leave an error number in l->sema.
MutualExclusion ==
  lockSema # ENoMem => \A t, u \in Ms : lockPc[t] = "inside" /\ lockPc[u] = "inside" => t = u

\* thread.c:43: "l->key is the number of threads who want the lock".
KeyCountsWanting == lockKey = Cardinality(Wanting)

\* The wake-up of a waiter is never lost: while a thread wants the lock there
\* is exactly one right to it, carried by a thread or stored in the semaphore.
OneRightToLock ==
  lockSema # ENoMem =>
    Cardinality(Carrying) + LockStored = IF Wanting = {} /\ Carrying = {} THEN 0 ELSE 1

\* initsema's race: every sleeper sleeps on the semaphore unlock will post to.
SleepersOnLockSema ==
  \A t \in Ms : lockPc[t] = "asleep" =>
    Valid(lockSema) /\ \E i \in 1 .. Len(sems[lockSema].queue) : sems[lockSema].queue[i] = t

\* A thread that asks for the lock gets it.
AskedIsServed ==
  \A t \in Ms : t \in Wanting ~> lockPc[t] = "inside"

\* The lock implements the abstract mutex, up to the moment when sem_init fails
\* and its error number reaches l->sema.
Abstract == INSTANCE Mutex WITH
  Threads <- Ms,
  asking <- {t \in Wanting : lockPc[t] # "inside"},
  inside <- {t \in Ms : lockPc[t] = "inside"}
LockIsMutex == Abstract!Init /\ [][Abstract!Next \/ lockSema = ENoMem]_(Abstract!vars)

\* thread.c:44-47: "one thread increments l->key from 0 to 1 ... the others wait
\* on the semaphore", said without the proviso that sem_init succeeded.
OthersWait ==
  \A t, u \in Ms : lockPc[t] = "inside" /\ lockPc[u] = "inside" => t = u

\* The lock as a whole: one holder, an exact count, one right to the lock that no
\* race loses, and every sleeper where unlock posts.
LockSound == LockTypeOK /\ MutualExclusion /\ KeyCountsWanting /\ OneRightToLock /\ SleepersOnLockSema
=============================================================================
