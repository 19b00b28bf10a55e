------------------------------- MODULE RWMutex ------------------------------
(***************************************************************************)
(* sync.RWMutex (sync/rwmutex.go): mutex w is held by the writer or, on    *)
(* behalf of all readers, by the first of them; mutex r is held while one  *)
(* waits for w, and shuts new readers out.  The mutexes are what SyncMutex *)
(* shows a sync.Mutex to be: locked or not.                                *)
(***************************************************************************)
EXTENDS Integers, FiniteSets

CONSTANT RWGs  \* the goroutines

\* What the constant has to be.
RWAssumption == IsFiniteSet(RWGs)

VARIABLES w,            \* rw.w is locked
          r,            \* rw.r is locked
          readerCount,  \* rw.readerCount
          rwPc          \* where each goroutine is

rwVars == <<w, r, readerCount, rwPc>>

RWInit == w = FALSE /\ r = FALSE /\ readerCount = 0 /\ rwPc = [g \in RWGs |-> "out"]

RWGoto(g, from, to) == rwPc[g] = from /\ rwPc' = [rwPc EXCEPT ![g] = to]

-----------------------------------------------------------------------------
\* RLock: rw.r.Lock, AddInt32, rw.w.Lock for the first reader, rw.r.Unlock.
RLock(g) == /\ RWGoto(g, "out", "RLockCount")
            /\ ~r /\ r' = TRUE
            /\ UNCHANGED <<w, readerCount>>

RLockCountNoFirst(g) == /\ RWGoto(g, "RLockCount", "RLockEnd")
                        /\ readerCount' = readerCount + 1
                        /\ UNCHANGED <<w, r>>

RLockCount(g) == /\ RWGoto(g, "RLockCount", IF readerCount = 0 THEN "RLockW" ELSE "RLockEnd")
                 /\ readerCount' = readerCount + 1
                 /\ UNCHANGED <<w, r>>

RLockW(g) == /\ RWGoto(g, "RLockW", "RLockEnd")
             /\ ~w /\ w' = TRUE
             /\ UNCHANGED <<r, readerCount>>

RLockEnd(g) == /\ RWGoto(g, "RLockEnd", "reading")
               /\ r' = FALSE
               /\ UNCHANGED <<w, readerCount>>

\* RUnlock: AddInt32, and rw.w.Unlock for the last reader.
RUnlock(g) == /\ RWGoto(g, "reading", IF readerCount = 1 THEN "RUnlockW" ELSE "out")
              /\ readerCount' = readerCount - 1
              /\ UNCHANGED <<w, r>>

RUnlockW(g) == /\ RWGoto(g, "RUnlockW", "out")
               /\ w' = FALSE
               /\ UNCHANGED <<r, readerCount>>

\* Lock: rw.r.Lock, rw.w.Lock, rw.r.Unlock.
LockLeavesR(g) == /\ RWGoto(g, "out", "LockW")
                  /\ ~r
                  /\ UNCHANGED <<w, r, readerCount>>

RWLock(g) == /\ RWGoto(g, "out", "LockW")
             /\ ~r /\ r' = TRUE
             /\ UNCHANGED <<w, readerCount>>

LockW(g) == /\ RWGoto(g, "LockW", "LockEnd")
            /\ ~w /\ w' = TRUE
            /\ UNCHANGED <<r, readerCount>>

LockEnd(g) == /\ RWGoto(g, "LockEnd", "writing")
              /\ r' = FALSE
              /\ UNCHANGED <<w, readerCount>>

RWUnlock(g) == /\ RWGoto(g, "writing", "out")
               /\ w' = FALSE
               /\ UNCHANGED <<r, readerCount>>

Begin(g) == RLock(g) \/ RWLock(g)
RWStep(g) == \/ RLockCount(g) \/ RLockW(g) \/ RLockEnd(g) \/ RUnlock(g) \/ RUnlockW(g)
             \/ LockW(g) \/ LockEnd(g) \/ RWUnlock(g)

RWNext == \E g \in RWGs : Begin(g) \/ RWStep(g)

RWSpec == RWInit /\ [][RWNext]_rwVars

\* Goroutines run on, and the users of the lock give it back.
RWFairSpec == RWSpec /\ \A g \in RWGs : WF_rwVars(RWStep(g))

-----------------------------------------------------------------------------
RWIn(labels) == {g \in RWGs : rwPc[g] \in labels}
Counted == RWIn({"RLockW", "RLockEnd", "reading"})
HoldR == RWIn({"RLockCount", "RLockW", "RLockEnd", "LockW", "LockEnd"})

\* Type correctness.
RWTypeOK == /\ w \in BOOLEAN /\ r \in BOOLEAN /\ readerCount \in Nat
            /\ rwPc \in [RWGs -> {"out", "RLockCount", "RLockW", "RLockEnd", "reading",
                                  "RUnlockW", "LockW", "LockEnd", "writing"}]

\* A writer is alone; readers share.
Exclusion == /\ RWIn({"writing"}) # {} => RWIn({"reading"}) = {}
             /\ \A g, h \in RWIn({"writing"}) : g = h

\* The two mutexes and the count agree with where the goroutines are; between the
\* last RUnlock's AddInt32 and its rw.w.Unlock a new first reader may already
\* have counted itself and wait for w.
Agreement ==
  /\ readerCount = Cardinality(Counted)
  /\ \A g, h \in HoldR : g = h
  /\ r <=> HoldR # {}
  /\ w <=> \/ RWIn({"LockEnd", "writing", "RUnlockW"}) # {}
           \/ Counted # {} /\ RWIn({"RLockW"}) = {}

\* "no new RLocks are granted while a blocked Lock call is waiting": nobody who
\* is not reading yet starts to while a goroutine waits in Lock for w.
ReaderStep == RWIn({"LockW"}) # {} /\ RWIn({"LockW"})' # {} =>
                RWIn({"reading"})' \subseteq RWIn({"reading"})

\* "a blocked Lock call excludes new readers": so it gets the lock once the
\* readers there are have left.
LockIsServed == \A g \in RWGs : rwPc[g] = "LockW" ~> rwPc[g] = "writing"

\* A writer of a sync.RWMutex is alone, because its parts agree;
RWMutexKept == RWTypeOK /\ Exclusion /\ Agreement

\* and no reader starts while a goroutine waits in Lock for the readers.
RWMutexSound == RWMutexKept /\ [][RWMutexKept' /\ ReaderStep]_rwVars
=============================================================================
