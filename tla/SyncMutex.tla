------------------------------ MODULE SyncMutex -----------------------------
(***************************************************************************)
(* sync.Mutex (sync/mutex.go): a count of the goroutines that hold or want *)
(* the lock, and a semaphore on which all but the first wait.  Semacquire  *)
(* takes a token in one step when there is one, as module Sema has it.  A  *)
(* goroutine may unlock what another has locked.                           *)
(***************************************************************************)
EXTENDS Integers, FiniteSets

CONSTANT MutexGs  \* the goroutines

\* What the constants have to be.
MutexAssumption == IsFiniteSet(MutexGs)

VARIABLES key,        \* m.key
          mutexSema,  \* m.sema
          mutexPc     \* out, in Semacquire, holding the lock, about to Semrelease

mutexVars == <<key, mutexSema, mutexPc>>

SyncMutexInit == key = 0 /\ mutexSema = 0 /\ mutexPc = [g \in MutexGs |-> "out"]

\* Lock: AddInt32 decides whether to wait.
MutexLock(g) == /\ mutexPc[g] = "out"
                /\ key' = key + 1
                /\ mutexPc' = [mutexPc EXCEPT ![g] = IF key = 0 THEN "in" ELSE "acquire"]
                /\ UNCHANGED mutexSema

MutexAcquire(g) == /\ mutexPc[g] = "acquire" /\ mutexSema > 0
                   /\ mutexSema' = mutexSema - 1
                   /\ mutexPc' = [mutexPc EXCEPT ![g] = "in"]
                   /\ UNCHANGED key

\* Unlock by g of the lock that h took.
UnlockLosesWaiter(g, h) ==
  /\ mutexPc[h] = "in" /\ (g = h \/ mutexPc[g] = "out")
  /\ key' = key - 1
  /\ mutexPc' = [mutexPc EXCEPT ![h] = "out", ![g] = IF key <= 2 THEN "out" ELSE "release"]
  /\ UNCHANGED mutexSema

UnlockAlwaysReleases(g, h) ==
  /\ mutexPc[h] = "in" /\ (g = h \/ mutexPc[g] = "out")
  /\ key' = key - 1
  /\ mutexPc' = [mutexPc EXCEPT ![h] = "out", ![g] = "release"]
  /\ UNCHANGED mutexSema

MutexUnlock(g, h) == /\ mutexPc[h] = "in" /\ (g = h \/ mutexPc[g] = "out")
                     /\ key' = key - 1
                     /\ mutexPc' = [mutexPc EXCEPT ![h] = "out", ![g] = IF key = 1 THEN "out" ELSE "release"]
                     /\ UNCHANGED mutexSema

MutexRelease(g) == /\ mutexPc[g] = "release"
                   /\ mutexSema' = mutexSema + 1
                   /\ mutexPc' = [mutexPc EXCEPT ![g] = "out"]
                   /\ UNCHANGED key

SyncMutexNext == \E g \in MutexGs : \/ MutexLock(g) \/ MutexAcquire(g) \/ MutexRelease(g)
                                    \/ \E h \in MutexGs : MutexUnlock(g, h)

SyncMutexSpec == SyncMutexInit /\ [][SyncMutexNext]_mutexVars

-----------------------------------------------------------------------------
MutexIn(label) == {g \in MutexGs : mutexPc[g] = label}

\* Type correctness.
SyncMutexTypeOK == key \in Nat /\ mutexSema \in Nat /\ mutexPc \in [MutexGs -> {"out", "acquire", "in", "release"}]

\* Whenever a goroutine holds or wants the lock there is exactly one right to it:
\* somebody holds it, or it lies in the semaphore, or an Unlock is about to put
\* it there; otherwise there is none.  And key counts those goroutines.
OneRight == /\ key = Cardinality(MutexIn("in")) + Cardinality(MutexIn("acquire"))
            /\ Cardinality(MutexIn("in")) + Cardinality(MutexIn("release")) + mutexSema
                 = (IF key = 0 THEN 0 ELSE 1)

\* At most one goroutine is between Lock and Unlock, and the lock changes hands
\* only as Mutex allows.
Promise == INSTANCE Mutex WITH Threads <- MutexGs, asking <- MutexIn("acquire"), inside <- MutexIn("in")
MutexSpec == Promise!Spec

\* A sync.Mutex neither loses nor doubles the right to it.
MutexSound == SyncMutexTypeOK /\ OneRight
=============================================================================
