-------------------------- MODULE RuntimeLockProofs -------------------------
(***************************************************************************)
(* The lock of the Go runtime's ucore port excludes, counts its waiters    *)
(* and loses no wake-up, for any finite set of threads, any number of      *)
(* kernel semaphores and any number of reuses of the lock.                 *)
(***************************************************************************)
EXTENDS RuntimeLock, FiniteSetTheorems, SequenceTheorems, TLAPS

-----------------------------------------------------------------------------
(* The inductive invariant, by parts. *)

\* l->sema is 0, a valid semaphore or the error number, and not 0 once a
\* thread has reached its final system call.
SemaOK == /\ lockSema \in SemIds => Valid(lockSema)
          /\ \A t \in Ms : lockPc[t] \in {"free", "sem"} => lockSema # 0

\* Nobody posts to or sleeps on a semaphore other than l->sema.
OthersUnused ==
  \A s \in 1 .. Len(sems) : s # lockSema => sems[s].value = 0 /\ sems[s].queue = <<>>

\* A semaphore between sem_init and cas or sem_free belongs to one thread.
MineOK ==
  /\ \A t \in Ms : lockPc[t] \in {"cas", "free"} =>
       \/ mine[t] = ENoMem
       \/ mine[t] # lockSema /\ Valid(mine[t])
  /\ \A t, u \in Ms :
       /\ lockPc[t] \in {"cas", "free"} /\ lockPc[u] \in {"cas", "free"}
       /\ mine[t] = mine[u] /\ mine[t] # ENoMem
       => t = u

\* The wait queue of l->sema holds sleepers, each once.
QueueOK ==
  Valid(lockSema) =>
    /\ \A i \in 1 .. Len(sems[lockSema].queue) : lockPc[sems[lockSema].queue[i]] = "asleep"
    /\ \A i, j \in 1 .. Len(sems[lockSema].queue) :
         sems[lockSema].queue[i] = sems[lockSema].queue[j] => i = j

\* There is at most one right to the lock, and one while the lock is wanted.
RightOK ==
  lockSema # ENoMem =>
    /\ \A t, u \in Carrying : t = u
    /\ LockStored \in {0, 1}
    /\ LockStored = 1 => Carrying = {}
    /\ Wanting = {} <=> (Carrying = {} /\ LockStored = 0)

IInv == /\ LockTypeOK
        /\ KeyCountsWanting
        /\ SemaOK
        /\ OthersUnused
        /\ MineOK
        /\ QueueOK
        /\ SleepersOnLockSema
        /\ RightOK
-----------------------------------------------------------------------------
(* The semaphore operations keep a record a semaphore. *)

\* The fields of a semaphore.
LEMMA SemFields ==
  ASSUME NEW s \in SemRec(Ms)
  PROVE  s.queue \in Seq(Ms) /\ s.value \in Nat /\ s.valid \in BOOLEAN
  BY DEF SemRec

\* ipc_sem_free leaves a semaphore.
LEMMA FreeType ==
  ASSUME NEW s \in SemRec(Ms)
  PROVE  free(s) \in SemRec(Ms)
<1>1. [s EXCEPT !.valid = FALSE] \in SemRec(Ms)
  BY Zenon DEF SemRec
<1>2. \A r \in SemRec(Ms) : \A q \in Seq(Ms) : [r EXCEPT !.queue = q] \in SemRec(Ms)
  BY Zenon DEF SemRec
<1>3. free(s) = [[s EXCEPT !.valid = FALSE] EXCEPT !.queue = <<>>]
  BY DEF free, SemRec
<1>4. <<>> \in Seq(Ms)
  OBVIOUS
<1> QED
  BY <1>1, <1>2, <1>3, <1>4, Zenon

\* sem_init, __up and __down return semaphores.
LEMMA SemOps ==
  ASSUME NEW s \in SemRec(Ms), NEW t \in Ms
  PROVE  /\ sem_init(0) \in SemRec(Ms)
         /\ up(s) \in SemRec(Ms)
         /\ down(s, t) \in SemRec(Ms)
         /\ upWakes(s) \subseteq Ms
<1>1. sem_init(0) \in SemRec(Ms)
  BY DEF SemRec, sem_init
<1>2. up(s) \in SemRec(Ms) /\ upWakes(s) \subseteq Ms
  <2>1. CASE s.queue = <<>>
    BY <2>1 DEF SemRec, up, upWakes
  <2>2. CASE s.queue # <<>>
    <3>1. Tail(s.queue) \in Seq(Ms) /\ Head(s.queue) \in Ms
      BY <2>2, SemFields
    <3>2. up(s) = [s EXCEPT !.queue = Tail(s.queue)] /\ upWakes(s) = {Head(s.queue)}
      BY <2>2 DEF up, upWakes
    <3> QED
      BY <3>1, <3>2, Zenon DEF SemRec
  <2> QED
    BY <2>1, <2>2
<1>3. down(s, t) \in SemRec(Ms)
  <2>1. CASE s.value > 0
    BY <2>1 DEF SemRec, down, downTakes
  <2>2. CASE ~(s.value > 0)
    BY <2>2 DEF SemRec, down, downTakes
  <2> QED
    BY <2>1, <2>2
<1> QED
  BY <1>1, <1>2, <1>3

\* Replacing one semaphore of the table leaves the others alone.
LEMMA SemUpdate ==
  ASSUME LockTypeOK, NEW s \in 1 .. Len(sems), NEW r \in SemRec(Ms)
  PROVE  /\ [sems EXCEPT ![s] = r] \in Seq(SemRec(Ms))
         /\ Len([sems EXCEPT ![s] = r]) = Len(sems)
         /\ \A i \in 1 .. Len(sems) : [sems EXCEPT ![s] = r][i] = IF i = s THEN r ELSE sems[i]
  BY ExceptSeq DEF LockTypeOK

\* Every entry of the table is a semaphore.
LEMMA SemEntry ==
  ASSUME LockTypeOK, NEW s \in 1 .. Len(sems)
  PROVE  /\ sems[s] \in SemRec(Ms)
         /\ sems[s].queue \in Seq(Ms)
         /\ sems[s].value \in Nat
         /\ sems[s].valid \in BOOLEAN
<1>1. sems[s] \in SemRec(Ms)
  BY DEF LockTypeOK
<1> QED
  BY <1>1, SemFields

\* The threads that want the lock are finitely many.
LEMMA WantingFinite ==
  /\ IsFiniteSet(Wanting) /\ Cardinality(Wanting) \in Nat
  /\ Cardinality(Wanting) = 0 <=> Wanting = {}
  BY LockAssumption, FS_Subset, FS_CardinalityType, FS_EmptySet DEF Wanting

\* The initial state.
LEMMA InitIInv == LockInit => IInv
<1> SUFFICES ASSUME LockInit PROVE IInv
  OBVIOUS
<1>1. Wanting = {} /\ Carrying = {}
  BY DEF LockInit, Wanting, Carrying, Slow
<1>2. LockTypeOK
  BY LockAssumption DEF LockInit, LockTypeOK, SemIds, PCs, ENoMem
<1>3. KeyCountsWanting
  BY <1>1, FS_EmptySet DEF LockInit, KeyCountsWanting
<1>4. SemaOK /\ OthersUnused /\ MineOK /\ QueueOK /\ SleepersOnLockSema
  BY LockAssumption DEF LockInit, SemaOK, OthersUnused, MineOK, QueueOK, SleepersOnLockSema, Valid, SemIds
<1>5. RightOK
  BY <1>1 DEF LockInit, RightOK, LockStored, Valid
<1> QED
  BY <1>2, <1>3, <1>4, <1>5 DEF IInv

-----------------------------------------------------------------------------
(* What a step does to the wanting and the carrying threads. *)

\* A step that moves one thread and keeps it wanting and carrying as it was
\* keeps both sets.
LEMMA SameSets ==
  ASSUME LockTypeOK, NEW t \in Ms, NEW p \in PCs,
         lockPc' = [lockPc EXCEPT ![t] = p], op' = op,
         lockPc[t] \in Slow, p \in Slow
  PROVE  Wanting' = Wanting /\ Carrying' = Carrying
  BY DEF LockTypeOK, Wanting, Carrying, Slow, PCs

\* A step of a thread that is awake keeps the wait queue of l->sema.
LEMMA QueueKept ==
  ASSUME LockTypeOK, QueueOK, NEW t \in Ms, NEW p,
         lockPc' = [lockPc EXCEPT ![t] = p], lockPc[t] # "asleep",
         Valid(lockSema)' => /\ Valid(lockSema) /\ lockSema' = lockSema
                             /\ sems'[lockSema].queue = sems[lockSema].queue
  PROVE  QueueOK'
<1> SUFFICES ASSUME Valid(lockSema)' PROVE QueueOK'
  BY DEF QueueOK
<1>1. Valid(lockSema) /\ sems'[lockSema'].queue = sems[lockSema].queue
  OBVIOUS
<1>2. \A i \in 1 .. Len(sems[lockSema].queue) : lockPc[sems[lockSema].queue[i]] = "asleep"
  BY <1>1 DEF QueueOK
<1>3. \A u : lockPc[u] = "asleep" => lockPc'[u] = "asleep"
  BY DEF LockTypeOK
<1> QED
  BY <1>1, <1>2, <1>3 DEF QueueOK

\* lock's xadd.
LEMMA LockStep ==
  ASSUME IInv, NEW t \in Ms, Lock(t)
  PROVE  IInv'
<1>0. LockTypeOK /\ KeyCountsWanting
  BY DEF IInv
<1>1. t \notin Wanting /\ t \notin Carrying /\ Wanting' = Wanting \cup {t}
  BY <1>0 DEF Lock, LockTypeOK, Wanting, Carrying, Slow, PCs
<1>2. LockTypeOK'
  BY <1>0 DEF Lock, LockTypeOK, PCs, Slow
<1>3. KeyCountsWanting'
  BY <1>0, <1>1, WantingFinite, FS_AddElement, Zenon DEF Lock, KeyCountsWanting
<1>4. SemaOK' /\ OthersUnused' /\ MineOK' /\ SleepersOnLockSema'
  BY DEF IInv, LockTypeOK, Lock, SemaOK, OthersUnused, MineOK, SleepersOnLockSema, Valid
<1>5. QueueOK'
  BY QueueKept, Zenon DEF IInv, Lock, Valid
<1>6. RightOK'
  <2> SUFFICES ASSUME lockSema # ENoMem PROVE RightOK'
    BY DEF RightOK, Lock
  <2>1. LockStored' = LockStored /\ lockSema' = lockSema
    BY DEF Lock, LockStored, Valid
  <2>2. RightOK
    BY DEF IInv
  <2>3. CASE lockKey = 0
    <3>1. Wanting = {}
      BY <2>3, <1>0, WantingFinite DEF KeyCountsWanting
    <3>2. Carrying' = Carrying \cup {t}
      BY <2>3, <1>0 DEF Lock, LockTypeOK, Carrying, Slow, PCs
    <3> QED
      BY <3>1, <3>2, <2>1, <2>2, <1>1 DEF RightOK
  <2>4. CASE lockKey # 0
    <3>1. Wanting # {} /\ lockKey + 1 > 1
      BY <2>4, <1>0, WantingFinite DEF KeyCountsWanting
    <3>2. Carrying' = Carrying
      BY <3>1, <1>0 DEF Lock, LockTypeOK, Carrying, Slow, PCs
    <3> QED
      BY <3>1, <3>2, <2>1, <2>2, <1>1 DEF RightOK
  <2> QED
    BY <2>3, <2>4
<1> QED
  BY <1>2, <1>3, <1>4, <1>5, <1>6 DEF IInv

\* unlock's xadd.
LEMMA UnlockStep ==
  ASSUME IInv, NEW t \in Ms, Unlock(t)
  PROVE  IInv'
<1>0. LockTypeOK /\ KeyCountsWanting
  BY DEF IInv
<1>1. t \in Wanting /\ t \in Carrying /\ Wanting' = Wanting \ {t}
  BY <1>0 DEF Unlock, LockTypeOK, Wanting, Carrying, Slow, PCs
<1>2. LockTypeOK'
  BY <1>0 DEF Unlock, LockTypeOK, PCs, Slow
<1>3. KeyCountsWanting'
  BY <1>0, <1>1, WantingFinite, FS_RemoveElement, SMTT(30) DEF Unlock, KeyCountsWanting
<1>4. SemaOK' /\ OthersUnused' /\ MineOK' /\ SleepersOnLockSema'
  BY DEF IInv, LockTypeOK, Unlock, SemaOK, OthersUnused, MineOK, SleepersOnLockSema, Valid
<1>5. QueueOK'
  BY QueueKept, Zenon DEF IInv, Unlock, Valid
<1>6. RightOK'
  <2> SUFFICES ASSUME lockSema # ENoMem PROVE RightOK'
    BY DEF RightOK, Unlock
  <2>1. LockStored' = LockStored /\ lockSema' = lockSema
    BY DEF Unlock, LockStored, Valid
  <2>2. RightOK
    BY DEF IInv
  <2>3. IsFiniteSet(Wanting \ {t}) /\ lockKey' = Cardinality(Wanting \ {t})
    BY <1>3, <1>1, WantingFinite, FS_RemoveElement DEF KeyCountsWanting
  <2>4. CASE lockKey' > 0
    <3>1. Wanting' # {}
      BY <2>3, <2>4, <1>1, FS_EmptySet
    <3>2. Carrying' = Carrying
      BY <2>4, <1>0 DEF Unlock, LockTypeOK, Carrying, Slow, PCs
    <3> QED
      BY <3>1, <3>2, <2>1, <2>2, <1>1 DEF RightOK
  <2>5. CASE ~(lockKey' > 0)
    <3>1. Wanting' = {}
      BY <2>3, <2>5, <1>1, FS_EmptySet, FS_CardinalityType
    <3>2. Carrying' = Carrying \ {t}
      BY <2>5, <1>0 DEF Unlock, LockTypeOK, Carrying, Slow, PCs
    <3> QED
      BY <3>1, <3>2, <2>1, <2>2, <1>1 DEF RightOK
  <2> QED
    BY <2>4, <2>5
<1> QED
  BY <1>2, <1>3, <1>4, <1>5, <1>6 DEF IInv

\* The two tests of l->sema.
LEMMA TestStep ==
  ASSUME IInv, NEW t \in Ms, TestSema(t) \/ LockInitSema(t)
  PROVE  IInv'
<1>0. LockTypeOK
  BY DEF IInv
<1>1. PICK p \in {"init", "sem", "alloc"} :
         /\ lockPc' = [lockPc EXCEPT ![t] = p] /\ (p = "sem" => lockSema # 0)
         /\ UNCHANGED <<lockKey, lockSema, sems, op, mine, destroys>> /\ lockPc[t] \in {"test", "init"}
  BY DEF TestSema, LockInitSema
<1>2. Wanting' = Wanting /\ Carrying' = Carrying
  BY <1>0, <1>1, SameSets, Zenon DEF Slow, PCs
<1>3. LockTypeOK' /\ KeyCountsWanting'
  BY <1>0, <1>1, <1>2 DEF IInv, LockTypeOK, PCs, Slow, KeyCountsWanting
<1>4. SemaOK' /\ OthersUnused' /\ MineOK' /\ SleepersOnLockSema'
  BY <1>1 DEF IInv, LockTypeOK, SemaOK, OthersUnused, MineOK, SleepersOnLockSema, Valid
<1>5. QueueOK'
  BY <1>1, QueueKept, Zenon DEF IInv, Valid
<1>6. RightOK'
  BY <1>1, <1>2 DEF IInv, RightOK, LockStored, Valid
<1> QED
  BY <1>3, <1>4, <1>5, <1>6 DEF IInv

\* initsema's sem_init system call.
LEMMA SemInitStep ==
  ASSUME IInv, NEW t \in Ms, LockSemInit(t)
  PROVE  IInv'
<1>0. LockTypeOK /\ Len(sems) \in Nat
  BY DEF IInv, LockTypeOK
<1>1. /\ lockPc[t] = "alloc" /\ lockPc' = [lockPc EXCEPT ![t] = "cas"]
      /\ UNCHANGED <<lockKey, lockSema, op, destroys>>
  BY DEF LockSemInit
<1>2. Wanting' = Wanting /\ Carrying' = Carrying
  BY <1>0, <1>1, SameSets, Zenon DEF Slow, PCs
<1>3. CASE Len(sems) = MaxSems /\ mine' = [mine EXCEPT ![t] = ENoMem] /\ UNCHANGED sems
  <2>1. LockTypeOK' /\ KeyCountsWanting'
    BY <1>0, <1>1, <1>2, <1>3 DEF IInv, LockTypeOK, PCs, Slow, KeyCountsWanting
  <2>2. SemaOK' /\ OthersUnused' /\ MineOK' /\ SleepersOnLockSema'
    BY <1>1, <1>3 DEF IInv, LockTypeOK, SemaOK, OthersUnused, MineOK, SleepersOnLockSema, Valid
  <2>3. QueueOK'
    BY <1>1, <1>3, QueueKept, Zenon DEF IInv, Valid
  <2>4. RightOK'
    BY <1>1, <1>2, <1>3 DEF IInv, RightOK, LockStored, Valid
  <2> QED
    BY <2>1, <2>2, <2>3, <2>4 DEF IInv
<1>4. CASE /\ Len(sems) < MaxSems /\ sems' = Append(sems, sem_init(0))
           /\ mine' = [mine EXCEPT ![t] = Len(sems) + 1]
  <2>1. sem_init(0) \in SemRec(Ms)
    BY DEF SemRec, sem_init
  <2>2. /\ sems' \in Seq(SemRec(Ms)) /\ Len(sems') = Len(sems) + 1
        /\ \A i \in 1 .. Len(sems) : sems'[i] = sems[i]
        /\ sems'[Len(sems) + 1] = sem_init(0)
    BY <1>0, <1>4, <2>1 DEF LockTypeOK
  <2>3. sem_init(0).value = 0 /\ sem_init(0).queue = <<>> /\ sem_init(0).valid
    BY DEF sem_init
  <2>4. LockTypeOK' /\ KeyCountsWanting'
    BY <1>0, <1>1, <1>2, <1>4, <2>2, LockAssumption
    DEF IInv, LockTypeOK, PCs, Slow, KeyCountsWanting, SemIds
  <2>5. lockSema # Len(sems) + 1
    BY <1>0, <1>4, LockAssumption DEF IInv, SemaOK, Valid, SemIds, LockTypeOK, ENoMem
  <2>6. \A s : Valid(s) => Valid(s)' /\ sems'[s] = sems[s]
    BY <2>2, <1>0 DEF Valid
  <2>7. SemaOK' /\ SleepersOnLockSema'
    BY <1>1, <2>6, SMTT(30) DEF IInv, LockTypeOK, SemaOK, SleepersOnLockSema
  <2>8. OthersUnused'
    BY <1>0, <1>1, <2>2, <2>3 DEF IInv, OthersUnused
  <2>9. MineOK'
    <3>1. Valid(mine[t])' /\ mine'[t] = Len(sems) + 1
      BY <1>0, <1>4, <2>2, <2>3 DEF Valid, LockTypeOK
    <3>2. \A s : Valid(s) => s # Len(sems) + 1
      BY <1>0 DEF Valid
    <3> QED
      BY <1>0, <1>1, <1>4, <2>5, <2>6, <3>1, <3>2 DEF IInv, LockTypeOK, MineOK
  <2>10. Valid(lockSema)' => Valid(lockSema)
    BY <1>1, <2>2, <2>5, <1>0 DEF Valid
  <2>11. QueueOK'
    BY <1>1, <2>6, <2>10, QueueKept, Zenon DEF IInv
  <2>12. LockStored' = LockStored
    BY <1>1, <2>6, <2>10 DEF LockStored
  <2>13. RightOK'
    BY <1>1, <1>2, <2>12 DEF IInv, RightOK
  <2> QED
    BY <2>4, <2>7, <2>8, <2>9, <2>11, <2>13 DEF IInv
<1> QED
  BY <1>3, <1>4 DEF LockSemInit

\* initsema's cas.
LEMMA CasStep ==
  ASSUME IInv, NEW t \in Ms, Cas(t)
  PROVE  IInv'
<1>0. LockTypeOK
  BY DEF IInv
<1>1. PICK p \in {"sem", "free"} :
         lockPc' = [lockPc EXCEPT ![t] = p] /\ lockPc[t] = "cas" /\ UNCHANGED <<lockKey, sems, op, destroys>>
  BY DEF Cas
<1>2. Wanting' = Wanting /\ Carrying' = Carrying
  BY <1>0, <1>1, SameSets, Zenon DEF Slow, PCs
<1>3. CASE lockSema # 0 /\ lockPc' = [lockPc EXCEPT ![t] = "free"] /\ UNCHANGED <<lockSema, mine>>
  <2>1. LockTypeOK' /\ KeyCountsWanting'
    BY <1>0, <1>1, <1>2, <1>3 DEF IInv, LockTypeOK, PCs, Slow, KeyCountsWanting
  <2>2. SemaOK' /\ OthersUnused' /\ MineOK' /\ SleepersOnLockSema'
    BY <1>1, <1>3 DEF IInv, LockTypeOK, SemaOK, OthersUnused, MineOK, SleepersOnLockSema, Valid
  <2>3. QueueOK'
    BY <1>1, <1>3, QueueKept, Zenon DEF IInv, Valid
  <2>4. RightOK'
    BY <1>1, <1>2, <1>3 DEF IInv, RightOK, LockStored, Valid
  <2> QED
    BY <2>1, <2>2, <2>3, <2>4 DEF IInv
<1>4. CASE /\ lockSema = 0 /\ lockSema' = mine[t] /\ mine' = [mine EXCEPT ![t] = 0]
           /\ lockPc' = [lockPc EXCEPT ![t] = "sem"]
  <2>1. /\ mine[t] = ENoMem \/ (mine[t] # lockSema /\ Valid(mine[t]))
        /\ ~Valid(lockSema) /\ ~Valid(ENoMem) /\ mine[t] # 0
    BY <1>0, <1>1, <1>4 DEF IInv, MineOK, Valid, LockTypeOK, ENoMem
  <2>2. LockTypeOK' /\ KeyCountsWanting'
    BY <1>0, <1>1, <1>2, <1>4 DEF IInv, LockTypeOK, PCs, Slow, KeyCountsWanting
  <2>3. \A s : Valid(s)' <=> Valid(s)
    BY <1>1 DEF Valid
  <2>4. SemaOK'
    BY <1>1, <1>4, <2>1, <2>3 DEF IInv, LockTypeOK, SemaOK, SemIds, ENoMem
  <2>5. \A u \in Ms : lockPc[u] # "asleep"
    BY <2>1 DEF IInv, SleepersOnLockSema
  <2>6. \A s \in 1 .. Len(sems) : sems[s].value = 0 /\ sems[s].queue = <<>>
    BY <1>4 DEF IInv, OthersUnused
  <2>7. SleepersOnLockSema' /\ OthersUnused'
    BY <1>0, <1>1, <1>4, <2>5, <2>6 DEF SleepersOnLockSema, OthersUnused, LockTypeOK
  <2>8. MineOK'
    BY <1>0, <1>1, <1>4, <2>3, <2>1 DEF IInv, MineOK, LockTypeOK
  <2>9. QueueOK'
    BY <1>1, <1>4, <2>6 DEF QueueOK, Valid
  <2>10. LockStored' = 0 /\ LockStored = 0
    BY <1>1, <1>4, <2>1, <2>6 DEF LockStored, Valid
  <2>11. RightOK'
    BY <1>2, <1>4, <2>10 DEF IInv, RightOK, ENoMem
  <2> QED
    BY <2>2, <2>4, <2>7, <2>8, <2>9, <2>11 DEF IInv
<1> QED
  BY <1>3, <1>4 DEF Cas

\* initsema's sem_free of the semaphore that lost the race.
LEMMA FreeMineStep ==
  ASSUME IInv, NEW t \in Ms, FreeMine(t)
  PROVE  IInv'
<1>0. LockTypeOK
  BY DEF IInv
<1>1. /\ lockPc[t] = "free" /\ lockPc' = [lockPc EXCEPT ![t] = "sem"]
      /\ mine' = [mine EXCEPT ![t] = 0] /\ UNCHANGED <<lockKey, lockSema, op, destroys>>
  BY DEF FreeMine
<1>2. Wanting' = Wanting /\ Carrying' = Carrying
  BY <1>0, <1>1, SameSets, Zenon DEF Slow, PCs
<1>3. mine[t] = ENoMem \/ (mine[t] # lockSema /\ Valid(mine[t]))
  BY <1>1 DEF IInv, MineOK
<1>4. ~Valid(ENoMem)
  BY <1>0 DEF Valid, LockTypeOK, ENoMem
<1>5. /\ sems' \in Seq(SemRec(Ms)) /\ Len(sems') = Len(sems)
      /\ \A s \in 1 .. Len(sems) : s # mine[t] => sems'[s] = sems[s]
      /\ \A s \in 1 .. Len(sems) : sems'[s].value = sems[s].value
      /\ \A s \in 1 .. Len(sems) : sems[s].queue = <<>> => sems'[s].queue = <<>>
  <2>1. CASE mine[t] = ENoMem
    BY <1>0, <2>1, <1>4 DEF FreeMine, LockTypeOK
  <2>2. CASE Valid(mine[t])
    <3>1. mine[t] \in 1 .. Len(sems) /\ sems' = [sems EXCEPT ![mine[t]] = free(sems[mine[t]])]
      BY <2>2 DEF FreeMine, Valid
    <3>2. sems[mine[t]] \in SemRec(Ms) /\ free(sems[mine[t]]) \in SemRec(Ms)
      BY <1>0, <3>1, SemEntry, FreeType
    <3>3. /\ free(sems[mine[t]]).value = sems[mine[t]].value
          /\ free(sems[mine[t]]).queue = <<>>
      BY <3>2 DEF free, SemRec
    <3> QED
      BY <1>0, <3>1, <3>2, <3>3, SemUpdate
  <2> QED
    BY <1>3, <2>1, <2>2
<1>6. LockTypeOK' /\ KeyCountsWanting'
  BY <1>0, <1>1, <1>2, <1>5 DEF IInv, LockTypeOK, PCs, Slow, KeyCountsWanting
<1>7. \A s : s # mine[t] => (Valid(s)' <=> Valid(s)) /\ (Valid(s) => sems'[s] = sems[s])
  BY <1>5 DEF Valid
<1>8. lockSema # mine[t] \/ (~Valid(lockSema) /\ ~Valid(lockSema)')
  <2>1. lockSema = ENoMem => lockSema \notin 1 .. Len(sems) /\ lockSema \notin 1 .. Len(sems')
    BY <1>0, <1>5 DEF LockTypeOK, ENoMem
  <2> QED
    BY <1>1, <1>3, <2>1 DEF Valid
<1>9. SemaOK' /\ SleepersOnLockSema'
  BY <1>0, <1>1, <1>7, <1>8 DEF IInv, LockTypeOK, SemaOK, SleepersOnLockSema
<1>10. OthersUnused'
  BY <1>1, <1>5 DEF IInv, OthersUnused
<1>11. MineOK'
  BY <1>0, <1>1, <1>7 DEF IInv, MineOK, LockTypeOK
<1>12. QueueOK'
  BY <1>1, <1>7, <1>8, QueueKept, Zenon DEF IInv
<1>13. LockStored' = LockStored
  BY <1>1, <1>7, <1>8 DEF LockStored
<1>14. RightOK'
  BY <1>1, <1>2, <1>13 DEF IInv, RightOK
<1> QED
  BY <1>6, <1>9, <1>10, <1>11, <1>12, <1>14 DEF IInv

\* lock's sem_wait.
LEMMA SemWaitStep ==
  ASSUME IInv, NEW t \in Ms, LockSemWait(t)
  PROVE  IInv'
<1>0. LockTypeOK
  BY DEF IInv
<1>1. /\ lockPc[t] = "sem" /\ op[t] = "lock" /\ lockSema # 0
      /\ UNCHANGED <<lockKey, lockSema, op, mine, destroys>>
  BY DEF LockSemWait, IInv, SemaOK
<1>2. CASE ~Valid(lockSema) /\ lockPc' = [lockPc EXCEPT ![t] = "inside"] /\ UNCHANGED sems
  <2>1. lockSema = ENoMem
    BY <1>0, <1>1, <1>2 DEF IInv, SemaOK, LockTypeOK
  <2>2. Wanting' = Wanting
    BY <1>0, <1>1, <1>2 DEF LockTypeOK, Wanting, Slow, PCs
  <2>3. LockTypeOK' /\ KeyCountsWanting'
    BY <1>0, <1>1, <1>2, <2>2 DEF IInv, LockTypeOK, PCs, Slow, KeyCountsWanting
  <2>4. SemaOK' /\ OthersUnused' /\ MineOK' /\ SleepersOnLockSema'
    BY <1>1, <1>2 DEF IInv, LockTypeOK, SemaOK, OthersUnused, MineOK, SleepersOnLockSema, Valid
  <2>5. QueueOK' /\ RightOK'
    BY <1>1, <1>2, <2>1 DEF QueueOK, RightOK, Valid
  <2> QED
    BY <2>3, <2>4, <2>5 DEF IInv
<1>3. CASE /\ Valid(lockSema) /\ sems' = [sems EXCEPT ![lockSema] = down(sems[lockSema], t)]
           /\ lockPc' = [lockPc EXCEPT ![t] = IF downTakes(sems[lockSema]) THEN "inside" ELSE "asleep"]
  <2>1. /\ lockSema \in 1 .. Len(sems) /\ sems[lockSema] \in SemRec(Ms)
        /\ sems[lockSema].queue \in Seq(Ms) /\ sems[lockSema].value \in Nat
        /\ down(sems[lockSema], t) \in SemRec(Ms)
    BY <1>0, <1>3, SemEntry, SemOps, Zenon DEF Valid
  <2>2. /\ sems' \in Seq(SemRec(Ms)) /\ Len(sems') = Len(sems)
        /\ \A s \in 1 .. Len(sems) : s # lockSema => sems'[s] = sems[s]
        /\ sems'[lockSema] = down(sems[lockSema], t)
    BY <1>0, <1>3, <2>1, SemUpdate
  <2>3. down(sems[lockSema], t).valid = sems[lockSema].valid
    BY <2>1 DEF down, SemRec
  <2>4. \A s : Valid(s)' <=> Valid(s)
    BY <2>2, <2>3 DEF Valid
  <2>5. Wanting' = Wanting
    BY <1>0, <1>1, <1>3 DEF LockTypeOK, Wanting, Slow, PCs
  <2>6. LockTypeOK' /\ KeyCountsWanting'
    BY <1>0, <1>1, <1>3, <2>2, <2>5 DEF IInv, LockTypeOK, PCs, Slow, KeyCountsWanting
  <2>7. SemaOK' /\ MineOK'
    BY <1>0, <1>1, <1>3, <2>4 DEF IInv, LockTypeOK, SemaOK, MineOK
  <2>8. OthersUnused'
    BY <1>1, <2>2 DEF IInv, OthersUnused
  <2>9. lockSema # ENoMem
    BY <2>1 DEF ENoMem, IInv, LockTypeOK
  <2>10. CASE sems[lockSema].value > 0
    <3>1. /\ sems'[lockSema].queue = sems[lockSema].queue
          /\ sems'[lockSema].value = sems[lockSema].value - 1
      BY <2>1, <2>2, <2>10 DEF down, downTakes, SemRec
    <3>2. lockPc' = [lockPc EXCEPT ![t] = "inside"]
      BY <1>3, <2>10, Zenon DEF downTakes
    <3>3. QueueOK'
      BY <1>1, <1>3, <3>1, <3>2, QueueKept, Zenon DEF IInv
    <3>4. SleepersOnLockSema'
      BY <1>0, <1>1, <1>3, <2>4, <3>1, <3>2 DEF IInv, LockTypeOK, SleepersOnLockSema
    <3>5. Carrying' = Carrying \cup {t}
      BY <1>0, <1>1, <3>2 DEF LockTypeOK, Carrying, Slow, PCs
    <3>6. LockStored = sems[lockSema].value /\ LockStored' = LockStored - 1
      BY <1>1, <1>3, <2>4, <3>1 DEF LockStored
    <3>7. RightOK'
      BY <1>1, <2>1, <2>5, <2>9, <2>10, <3>5, <3>6, SMTT(30) DEF IInv, RightOK
    <3> QED
      BY <2>6, <2>7, <2>8, <3>3, <3>4, <3>7 DEF IInv
  <2>11. CASE ~(sems[lockSema].value > 0)
    <3>1. /\ sems'[lockSema].queue = Append(sems[lockSema].queue, t)
          /\ sems'[lockSema].value = sems[lockSema].value
      BY <2>1, <2>2, <2>11, SMTT(30) DEF down, downTakes, SemRec
    <3>2. lockPc' = [lockPc EXCEPT ![t] = "asleep"]
      BY <1>3, <2>11, Zenon DEF downTakes
    <3> DEFINE q == sems[lockSema].queue
    <3>a. /\ Len(q) \in Nat /\ Len(Append(q, t)) = Len(q) + 1
          /\ Append(q, t)[Len(q) + 1] = t
          /\ \A i \in 1 .. Len(q) : Append(q, t)[i] = q[i]
      BY <2>1
    <3>b. /\ \A i \in 1 .. Len(q) : lockPc[q[i]] = "asleep" /\ q[i] # t
          /\ \A i, j \in 1 .. Len(q) : q[i] = q[j] => i = j
          /\ \A i \in 1 .. Len(q) : q[i] \in Ms
      BY <1>1, <1>3, <2>1, SMTT(30) DEF IInv, QueueOK
    <3>3. QueueOK'
      <4>1. \A i \in 1 .. Len(Append(q, t)) : lockPc'[Append(q, t)[i]] = "asleep"
        BY <1>0, <3>2, <3>a, <3>b DEF LockTypeOK
      <4>2. \A i, j \in 1 .. Len(Append(q, t)) : Append(q, t)[i] = Append(q, t)[j] => i = j
        <5> SUFFICES ASSUME NEW i \in 1 .. Len(q) + 1, NEW j \in 1 .. Len(q) + 1,
                            Append(q, t)[i] = Append(q, t)[j]
                     PROVE  i = j
          BY <3>a, Zenon
        <5>1. CASE i \in 1 .. Len(q) /\ j \in 1 .. Len(q)
          BY <3>a, <3>b, <5>1
        <5>2. CASE i = Len(q) + 1 \/ j = Len(q) + 1
          BY <3>a, <3>b, <5>2
        <5> QED
          BY <3>a, <5>1, <5>2
      <4> QED
        BY <1>1, <3>1, <4>1, <4>2 DEF QueueOK
    <3>4. SleepersOnLockSema'
      <4> SUFFICES ASSUME NEW u \in Ms, lockPc'[u] = "asleep"
                   PROVE  Valid(lockSema)' /\ \E i \in 1 .. Len(Append(q, t)) : Append(q, t)[i] = u
        BY <1>1, <3>1 DEF SleepersOnLockSema
      <4>1. CASE u = t
        BY <1>1, <1>3, <2>4, <3>a, <4>1
      <4>2. CASE u # t
        <5>1. lockPc[u] = "asleep"
          BY <1>0, <3>2, <4>2 DEF LockTypeOK
        <5>2. PICK i \in 1 .. Len(q) : q[i] = u
          BY <5>1 DEF IInv, SleepersOnLockSema
        <5> QED
          BY <1>1, <1>3, <2>4, <3>a, <5>2
      <4> QED
        BY <4>1, <4>2
    <3>5. Carrying' = Carrying
      BY <1>0, <1>1, <3>2 DEF LockTypeOK, Carrying, Slow, PCs
    <3>6. LockStored' = LockStored
      BY <1>1, <1>3, <2>4, <3>1 DEF LockStored
    <3>7. RightOK'
      BY <1>1, <2>5, <3>5, <3>6 DEF IInv, RightOK
    <3> QED
      BY <2>6, <2>7, <2>8, <3>3, <3>4, <3>7 DEF IInv
  <2> QED
    BY <2>10, <2>11
<1> QED
  BY <1>2, <1>3 DEF LockSemWait

\* unlock's sem_post.
LEMMA SemPostStep ==
  ASSUME IInv, NEW t \in Ms, LockSemPost(t)
  PROVE  IInv'
<1>0. LockTypeOK
  BY DEF IInv
<1>1. /\ lockPc[t] = "sem" /\ op[t] = "unlock" /\ lockSema # 0
      /\ UNCHANGED <<lockKey, lockSema, op, mine, destroys>>
  BY DEF LockSemPost, IInv, SemaOK
<1>2. CASE ~Valid(lockSema) /\ lockPc' = [lockPc EXCEPT ![t] = "idle"] /\ UNCHANGED sems
  <2>1. lockSema = ENoMem
    BY <1>0, <1>1, <1>2 DEF IInv, SemaOK, LockTypeOK
  <2>2. Wanting' = Wanting
    BY <1>0, <1>1, <1>2 DEF LockTypeOK, Wanting, Slow, PCs
  <2>3. LockTypeOK' /\ KeyCountsWanting'
    BY <1>0, <1>1, <1>2, <2>2 DEF IInv, LockTypeOK, PCs, Slow, KeyCountsWanting
  <2>4. SemaOK' /\ OthersUnused' /\ MineOK' /\ SleepersOnLockSema'
    BY <1>1, <1>2 DEF IInv, LockTypeOK, SemaOK, OthersUnused, MineOK, SleepersOnLockSema, Valid
  <2>5. QueueOK' /\ RightOK'
    BY <1>1, <1>2, <2>1 DEF QueueOK, RightOK, Valid
  <2> QED
    BY <2>3, <2>4, <2>5 DEF IInv
<1>3. CASE /\ Valid(lockSema) /\ sems' = [sems EXCEPT ![lockSema] = up(sems[lockSema])]
           /\ lockPc' = [u \in Ms |-> IF u = t THEN "idle"
                                      ELSE IF u \in upWakes(sems[lockSema]) THEN "woken"
                                      ELSE lockPc[u]]
  <2> DEFINE q == sems[lockSema].queue
  <2>1. /\ lockSema \in 1 .. Len(sems) /\ sems[lockSema] \in SemRec(Ms)
        /\ q \in Seq(Ms) /\ sems[lockSema].value \in Nat
        /\ up(sems[lockSema]) \in SemRec(Ms)
    BY <1>0, <1>3, SemEntry, SemOps DEF Valid
  <2>2. /\ sems' \in Seq(SemRec(Ms)) /\ Len(sems') = Len(sems)
        /\ \A s \in 1 .. Len(sems) : s # lockSema => sems'[s] = sems[s]
        /\ sems'[lockSema] = up(sems[lockSema])
    BY <1>0, <1>3, <2>1, SemUpdate
  <2>3. up(sems[lockSema]).valid = sems[lockSema].valid
    BY <2>1 DEF up, SemRec
  <2>4. \A s : Valid(s)' <=> Valid(s)
    BY <2>2, <2>3 DEF Valid
  <2>5. lockSema # ENoMem
    BY <2>1 DEF ENoMem, IInv, LockTypeOK
  <2>6. t \in Carrying /\ t \notin Wanting
    BY <1>1 DEF Carrying, Wanting, Slow
  <2>7. OthersUnused'
    BY <1>1, <2>2 DEF IInv, OthersUnused
  <2>8. /\ \A u, v \in Carrying : u = v
        /\ LockStored = sems[lockSema].value /\ LockStored = 0
        /\ Wanting # {}
    BY <1>3, <2>5, <2>6 DEF IInv, RightOK, LockStored
  <2>9. CASE q = <<>>
    <3>1. sems'[lockSema].queue = q /\ sems'[lockSema].value = sems[lockSema].value + 1
      BY <2>1, <2>2, <2>9 DEF up, SemRec
    <3>2. lockPc' = [lockPc EXCEPT ![t] = "idle"]
      BY <1>0, <1>3, <2>9, Zenon DEF upWakes, LockTypeOK
    <3>3. Wanting' = Wanting /\ Carrying' = Carrying \ {t}
      BY <1>0, <1>1, <3>2 DEF LockTypeOK, Wanting, Carrying, Slow, PCs
    <3>4. LockTypeOK' /\ KeyCountsWanting'
      BY <1>0, <1>1, <2>2, <3>2, <3>3 DEF IInv, LockTypeOK, PCs, Slow, KeyCountsWanting
    <3>5. SemaOK' /\ MineOK'
      BY <1>0, <1>1, <2>4, <3>2, SMTT(30) DEF IInv, LockTypeOK, SemaOK, MineOK
    <3>6. QueueOK' /\ SleepersOnLockSema'
      BY <1>0, <1>1, <1>3, <2>4, <2>9, <3>1, <3>2, SMTT(30)
      DEF IInv, LockTypeOK, QueueOK, SleepersOnLockSema
    <3>7. LockStored' = 1
      BY <1>1, <1>3, <2>4, <2>8, <3>1 DEF LockStored
    <3>8. RightOK'
      BY <2>6, <2>8, <3>3, <3>7 DEF RightOK
    <3> QED
      BY <2>7, <3>4, <3>5, <3>6, <3>8 DEF IInv
  <2>10. CASE q # <<>>
    <3> DEFINE w == Head(q)
    <3>1. sems'[lockSema].queue = Tail(q) /\ sems'[lockSema].value = sems[lockSema].value
      BY <2>1, <2>2, <2>10 DEF up, SemRec
    <3>2. /\ Len(q) \in Nat \ {0} /\ w = q[1] /\ w \in Ms
          /\ Len(Tail(q)) = Len(q) - 1
          /\ \A i \in 1 .. Len(Tail(q)) : Tail(q)[i] = q[i + 1]
      BY <2>1, <2>10, SMTT(30)
    <3>3. /\ \A i \in 1 .. Len(q) : lockPc[q[i]] = "asleep" /\ q[i] \in Ms
          /\ \A i, j \in 1 .. Len(q) : q[i] = q[j] => i = j
      BY <1>3, <2>1, SMTT(30) DEF IInv, QueueOK
    <3>4. lockPc[w] = "asleep" /\ w # t
      BY <1>1, <3>2, <3>3
    <3>5. lockPc' = [u \in Ms |-> IF u = t THEN "idle" ELSE IF u = w THEN "woken" ELSE lockPc[u]]
      BY <1>3, <2>10, SMTT(30) DEF upWakes
    <3>6. Wanting' = Wanting /\ Carrying' = (Carrying \ {t}) \cup {w}
      <4> HIDE DEF w
      <4>1. Wanting' = Wanting
        BY <1>0, <1>1, <3>2, <3>4, <3>5, SMTT(30) DEF LockTypeOK, Wanting, Slow, PCs
      <4>2. Carrying' = (Carrying \ {t}) \cup {w}
        BY <1>0, <1>1, <3>2, <3>4, <3>5, SMTT(30) DEF LockTypeOK, Carrying, Slow, PCs
      <4> QED
        BY <4>1, <4>2, SMTT(30)
    <3>7. LockTypeOK' /\ KeyCountsWanting'
      BY <1>0, <1>1, <2>2, <3>5, <3>6, SMTT(30) DEF IInv, LockTypeOK, PCs, Slow, KeyCountsWanting
    <3>8. SemaOK' /\ MineOK'
      BY <1>0, <1>1, <2>4, <3>5, SMTT(30) DEF IInv, LockTypeOK, SemaOK, MineOK
    <3>9. QueueOK'
      <4>1. \A i \in 1 .. Len(Tail(q)) : i + 1 \in 1 .. Len(q) /\ Tail(q)[i] = q[i + 1]
        BY <3>2, SMTT(30)
      <4>2. \A i \in 1 .. Len(Tail(q)) : Tail(q)[i] # w /\ Tail(q)[i] # t
        BY <1>1, <3>2, <3>3, <4>1, SMTT(30)
      <4>3. \A i \in 1 .. Len(Tail(q)) : lockPc'[Tail(q)[i]] = "asleep"
        BY <3>3, <3>5, <4>1, <4>2
      <4>4. \A i, j \in 1 .. Len(Tail(q)) : Tail(q)[i] = Tail(q)[j] => i = j
        <5> SUFFICES ASSUME NEW i \in 1 .. Len(Tail(q)), NEW j \in 1 .. Len(Tail(q)),
                            Tail(q)[i] = Tail(q)[j]
                     PROVE  i = j
          OBVIOUS
        <5>1. i + 1 = j + 1
          BY <3>3, <4>1
        <5> QED
          BY <3>2, <5>1
      <4> DEFINE r == Tail(q)
      <4>5. sems'[lockSema'].queue = r
        BY <1>1, <3>1
      <4>6. /\ \A i \in 1 .. Len(r) : lockPc'[r[i]] = "asleep"
            /\ \A i, j \in 1 .. Len(r) : r[i] = r[j] => i = j
        BY <4>3, <4>4, Zenon
      <4> HIDE DEF r
      <4> QED
        BY <4>5, <4>6 DEF QueueOK
    <3>10. SleepersOnLockSema'
      <4> SUFFICES ASSUME NEW u \in Ms, lockPc'[u] = "asleep"
                   PROVE  Valid(lockSema)' /\ \E i \in 1 .. Len(Tail(q)) : Tail(q)[i] = u
        BY <1>1, <3>1 DEF SleepersOnLockSema
      <4>1. lockPc[u] = "asleep" /\ u # w
        BY <3>5
      <4>2. PICK i \in 1 .. Len(q) : q[i] = u
        BY <4>1 DEF IInv, SleepersOnLockSema
      <4>3. i # 1 /\ i - 1 \in 1 .. Len(Tail(q)) /\ Tail(q)[i - 1] = u
        BY <3>2, <4>1, <4>2
      <4> QED
        BY <1>1, <1>3, <2>4, <4>3, Zenon
    <3>11. LockStored' = 0
      BY <1>1, <1>3, <2>4, <2>8, <3>1 DEF LockStored
    <3>12. RightOK'
      BY <2>6, <2>8, <3>6, <3>11 DEF RightOK
    <3> QED
      BY <2>7, <3>7, <3>8, <3>9, <3>10, <3>12 DEF IInv
  <2> QED
    BY <2>9, <2>10
<1> QED
  BY <1>2, <1>3 DEF LockSemPost

\* The woken thread returns from sem_wait.
LEMMA ResumeStep ==
  ASSUME IInv, NEW t \in Ms, LockResume(t)
  PROVE  IInv'
<1>0. LockTypeOK
  BY DEF IInv
<1>1. Wanting' = Wanting /\ Carrying' = Carrying
  BY <1>0 DEF LockResume, LockTypeOK, Wanting, Carrying, Slow, PCs
<1>2. LockTypeOK' /\ KeyCountsWanting'
  BY <1>0, <1>1, SMTT(30) DEF LockResume, IInv, LockTypeOK, PCs, Slow, KeyCountsWanting
<1>3. SemaOK' /\ OthersUnused' /\ MineOK' /\ SleepersOnLockSema'
  BY DEF LockResume, IInv, LockTypeOK, SemaOK, OthersUnused, MineOK, SleepersOnLockSema, Valid
<1>4. QueueOK'
  BY QueueKept, Zenon DEF LockResume, IInv, Valid
<1>5. RightOK'
  BY <1>1 DEF LockResume, IInv, RightOK, LockStored, Valid
<1> QED
  BY <1>2, <1>3, <1>4, <1>5 DEF IInv

\* destroylock, when no thread uses the lock.
LEMMA DestroyStep ==
  ASSUME IInv, DestroyLock
  PROVE  IInv'
<1>0. LockTypeOK
  BY DEF IInv
<1>1. /\ \A t \in Ms : lockPc[t] = "idle"
      /\ lockSema' = 0 /\ UNCHANGED <<lockKey, lockPc, op, mine>>
  BY DEF DestroyLock
<1>2. Wanting = {} /\ Carrying = {} /\ Wanting' = {} /\ Carrying' = {}
  BY <1>1 DEF Wanting, Carrying, Slow
<1>3. LockStored = 0 \/ lockSema = ENoMem
  BY <1>2 DEF IInv, RightOK
<1>4. /\ sems' \in Seq(SemRec(Ms)) /\ Len(sems') = Len(sems)
      /\ \A s \in 1 .. Len(sems) : sems'[s].value = 0 /\ sems'[s].queue = <<>>
  <2>1. CASE Valid(lockSema)
    <3>1. /\ lockSema \in 1 .. Len(sems) /\ sems[lockSema].value = 0
          /\ sems' = [sems EXCEPT ![lockSema] = free(sems[lockSema])]
      BY <1>0, <1>3, <2>1 DEF DestroyLock, Valid, LockStored, ENoMem, LockTypeOK
    <3>2. sems[lockSema] \in SemRec(Ms)
      BY <1>0, <3>1, SemEntry
    <3>3. free(sems[lockSema]).value = 0 /\ free(sems[lockSema]).queue = <<>>
      BY <3>1, <3>2 DEF free, SemRec
    <3>4. free(sems[lockSema]) \in SemRec(Ms)
      BY <3>2, FreeType
    <3> QED
      BY <1>0, <3>1, <3>3, <3>4, SemUpdate DEF IInv, OthersUnused
  <2>2. CASE ~Valid(lockSema)
    <3>1. sems' = sems /\ lockSema \notin 1 .. Len(sems)
      BY <1>0, <2>2, SMTT(30) DEF DestroyLock, IInv, SemaOK, LockTypeOK, SemIds, ENoMem
    <3> QED
      BY <1>0, <3>1 DEF LockTypeOK, IInv, OthersUnused
  <2> QED
    BY <2>1, <2>2
<1>5. LockTypeOK' /\ KeyCountsWanting'
  BY <1>0, <1>1, <1>2, <1>4, LockAssumption DEF DestroyLock, IInv, LockTypeOK, KeyCountsWanting
<1>6. ~Valid(lockSema)'
  BY <1>1, SMTT(30) DEF Valid
<1>7. SemaOK' /\ OthersUnused' /\ MineOK' /\ QueueOK' /\ SleepersOnLockSema'
  BY <1>1, <1>4, <1>6 DEF SemaOK, OthersUnused, MineOK, QueueOK, SleepersOnLockSema, SemIds
<1>8. RightOK'
  BY <1>2, <1>6 DEF RightOK, LockStored
<1> QED
  BY <1>5, <1>7, <1>8 DEF IInv

-----------------------------------------------------------------------------
(* The theorems. *)

\* IInv is an invariant of the lock.
THEOREM LockInvariant == LockSpec => []IInv
<1>1. IInv /\ [LockNext]_lockVars => IInv'
  <2> SUFFICES ASSUME IInv, [LockNext]_lockVars PROVE IInv'
    OBVIOUS
  <2>1. ASSUME NEW t \in Ms, Lock(t) \/ LockTurn(t) PROVE IInv'
    BY <2>1, LockStep, UnlockStep, TestStep, SemInitStep, CasStep, FreeMineStep,
       SemWaitStep, SemPostStep, ResumeStep DEF LockTurn
  <2>2. CASE DestroyLock
    BY <2>2, DestroyStep, SMTT(30)
  <2>3. CASE UNCHANGED lockVars
    <3>1. Wanting' = Wanting /\ Carrying' = Carrying /\ LockStored' = LockStored
      BY <2>3 DEF lockVars, Wanting, Carrying, LockStored, Valid
    <3>2. LockTypeOK' /\ KeyCountsWanting' /\ RightOK'
      BY <2>3, <3>1 DEF lockVars, IInv, LockTypeOK, KeyCountsWanting, RightOK
    <3>3. SemaOK' /\ OthersUnused' /\ MineOK'
      BY <2>3, SMTT(30) DEF lockVars, IInv, SemaOK, OthersUnused, MineOK, Valid
    <3>4. QueueOK' /\ SleepersOnLockSema'
      BY <2>3 DEF lockVars, IInv, QueueOK, SleepersOnLockSema, Valid
    <3> QED
      BY <3>2, <3>3, <3>4 DEF IInv
  <2> QED
    BY <2>1, <2>2, <2>3 DEF LockNext
<1> QED
  BY InitIInv, <1>1, PTL DEF LockSpec

\* Type correctness: key, sema, the semaphores and every thread's place in
\* lock, unlock and initsema keep their types.
THEOREM LockTypes == LockSpec => []LockTypeOK
<1>1. IInv => LockTypeOK
  BY DEF IInv
<1> QED
  BY <1>1, LockInvariant, PTL

\* lock excludes: no two threads are between lock and unlock together, unless
\* sem_init failed and left its error number in l->sema.
THEOREM LockExcludes == LockSpec => []MutualExclusion
<1>1. IInv => MutualExclusion
  BY DEF IInv, RightOK, Carrying, MutualExclusion
<1> QED
  BY LockInvariant, <1>1, PTL

\* l->key is the number of threads that want the lock.
THEOREM KeyIsWaiters == LockSpec => []KeyCountsWanting
<1>1. IInv => KeyCountsWanting
  BY DEF IInv
<1> QED
  BY LockInvariant, <1>1, PTL

\* No wake-up is lost or doubled: a wanted lock has exactly one right, in the
\* hands of a thread or stored in the semaphore.
THEOREM WakeupNotLost == LockSpec => []OneRightToLock
<1>1. IInv => OneRightToLock
  <2> SUFFICES ASSUME IInv, lockSema # ENoMem
               PROVE  Cardinality(Carrying) + LockStored = IF Wanting = {} /\ Carrying = {} THEN 0 ELSE 1
    BY DEF OneRightToLock
  <2>1. RightOK
    BY DEF IInv
  <2>2. CASE Carrying = {}
    BY <2>1, <2>2, FS_EmptySet DEF RightOK
  <2>3. CASE Carrying # {}
    <3>1. PICK t : Carrying = {t}
      BY <2>1, <2>3 DEF RightOK
    <3>2. Cardinality(Carrying) = 1 /\ LockStored = 0
      BY <2>1, <2>3, <3>1, FS_Singleton, Zenon DEF RightOK
    <3> QED
      BY <2>3, <3>2
  <2> QED
    BY <2>2, <2>3
<1> QED
  BY LockInvariant, <1>1, PTL

\* Whatever the race in initsema, a sleeper sleeps on the semaphore that
\* unlock posts to.
THEOREM SleepersReachable == LockSpec => []SleepersOnLockSema
<1>1. IInv => SleepersOnLockSema
  BY DEF IInv
<1> QED
  BY LockInvariant, <1>1, PTL

\* The invariants above together, as TLC checks them on the small instances: the
\* lock excludes, counts its callers, loses no wake-up and strands no sleeper.
THEOREM LockIsSound == LockSpec => []LockSound
<1> QED
  BY LockTypes, LockExcludes, KeyIsWaiters, WakeupNotLost, SleepersReachable, PTL DEF LockSound

-----------------------------------------------------------------------------
(* The lock implements the abstract mutex while sem_init does not fail. *)

Asking == {t \in Wanting : lockPc[t] # "inside"}
Inside == {t \in Ms : lockPc[t] = "inside"}

\* Every step of the lock is a step of the mutex or changes nothing it sees.
LEMMA MutexStep ==
  ASSUME IInv, lockSema # ENoMem, [LockNext]_lockVars
  PROVE  [Abstract!Next]_(Abstract!vars)
<1>0. LockTypeOK /\ RightOK
  BY DEF IInv
<1> SUFFICES \/ Asking' = Asking /\ Inside' = Inside
             \/ \E t \in Ms :
                  \/ t \notin Asking \cup Inside /\ Asking' = Asking \cup {t} /\ Inside' = Inside
                  \/ Inside = {} /\ Asking' = Asking \ {t} /\ Inside' = {t}
                  \/ t \in Inside /\ Inside' = Inside \ {t} /\ Asking' = Asking
  BY DEF Abstract!Next, Abstract!Ask, Abstract!Enter, Abstract!Leave, Abstract!vars, Asking, Inside
<1>1. ASSUME NEW t \in Ms, Lock(t), lockKey = 0
      PROVE  Inside = {} /\ Asking' = Asking \ {t} /\ Inside' = {t}
  <2>1. Wanting = {}
    BY <1>1, WantingFinite DEF IInv, KeyCountsWanting
  <2> QED
    BY <1>0, <1>1, <2>1 DEF Lock, LockTypeOK, Wanting, Asking, Inside, Slow, PCs
<1>2. ASSUME NEW t \in Ms, Lock(t), lockKey # 0
      PROVE  t \notin Asking \cup Inside /\ Asking' = Asking \cup {t} /\ Inside' = Inside
  <2>1. lockKey + 1 > 1
    BY <1>2, WantingFinite DEF IInv, KeyCountsWanting
  <2> QED
    BY <1>0, <1>2, <2>1 DEF Lock, LockTypeOK, Wanting, Asking, Inside, Slow, PCs
<1>3. ASSUME NEW t \in Ms, Unlock(t)
      PROVE  t \in Inside /\ Inside' = Inside \ {t} /\ Asking' = Asking
  BY <1>0, <1>3 DEF Unlock, LockTypeOK, Wanting, Asking, Inside, Slow, PCs
<1>4. ASSUME NEW t \in Ms,
             TestSema(t) \/ LockInitSema(t) \/ LockSemInit(t) \/ Cas(t) \/ FreeMine(t)
      PROVE  Asking' = Asking /\ Inside' = Inside
  <2>1. PICK p \in Slow : lockPc' = [lockPc EXCEPT ![t] = p] /\ op' = op /\ lockPc[t] \in Slow
    BY <1>4 DEF TestSema, LockInitSema, LockSemInit, Cas, FreeMine, Slow
  <2> QED
    BY <1>0, <2>1 DEF LockTypeOK, Wanting, Asking, Inside, Slow, PCs
<1>5. ASSUME NEW t \in Ms, LockSemWait(t)
      PROVE  \/ Asking' = Asking /\ Inside' = Inside
             \/ Inside = {} /\ Asking' = Asking \ {t} /\ Inside' = {t}
  <2>1. Valid(lockSema)
    BY <1>0, <1>5 DEF LockSemWait, IInv, SemaOK, LockTypeOK
  <2>2. CASE downTakes(sems[lockSema])
    <3>1. LockStored # 0
      BY <2>1, <2>2 DEF LockStored, downTakes
    <3>2. Inside = {}
      BY <1>0, <3>1 DEF RightOK, Carrying, Inside
    <3> QED
      BY <1>0, <1>5, <2>1, <2>2, <3>2 DEF LockSemWait, LockTypeOK, Wanting, Asking, Inside, Slow, PCs
  <2>3. CASE ~downTakes(sems[lockSema])
    BY <1>0, <1>5, <2>1, <2>3, SMTT(30) DEF LockSemWait, LockTypeOK, Wanting, Asking, Inside, Slow, PCs
  <2> QED
    BY <2>2, <2>3, SMTT(30)
<1>6. ASSUME NEW t \in Ms, LockSemPost(t)
      PROVE  Asking' = Asking /\ Inside' = Inside
  <2>1. Valid(lockSema)
    BY <1>0, <1>6 DEF LockSemPost, IInv, SemaOK, LockTypeOK
  <2>2. lockSema \in 1 .. Len(sems) /\ sems[lockSema].queue \in Seq(Ms)
    BY <1>0, <2>1, SemEntry DEF Valid
  <2>3. \A u \in upWakes(sems[lockSema]) : lockPc[u] = "asleep"
    BY <2>1, <2>2 DEF IInv, QueueOK, upWakes
  <2> QED
    BY <1>0, <1>6, <2>1, <2>3, SMTT(30) DEF LockSemPost, LockTypeOK, Wanting, Asking, Inside, Slow, PCs
<1>7. ASSUME NEW t \in Ms, LockResume(t)
      PROVE  Inside = {} /\ Asking' = Asking \ {t} /\ Inside' = {t}
  <2>1. Inside = {}
    BY <1>0, <1>7, SMTT(30) DEF RightOK, Carrying, Inside, LockResume
  <2> QED
    BY <1>0, <1>7, <2>1 DEF LockResume, LockTypeOK, Wanting, Asking, Inside, Slow, PCs
<1>8. CASE DestroyLock \/ UNCHANGED lockVars
  BY <1>8 DEF DestroyLock, lockVars, Wanting, Asking, Inside
<1> QED
  BY <1>1, <1>2, <1>3, <1>4, <1>5, <1>6, <1>7, <1>8 DEF LockNext, LockTurn

\* runtime.lock and runtime.unlock implement the abstract mutex up to the moment
\* when sem_init's error number reaches l->sema.
THEOREM LockImplementsMutex == LockSpec => LockIsMutex
<1>1. LockInit => Abstract!Init
  BY DEF LockInit, Abstract!Init, Wanting, Slow
<1>2. IInv /\ [LockNext]_lockVars => [Abstract!Next \/ lockSema = ENoMem]_(Abstract!vars)
  BY MutexStep
<1> QED
  BY <1>1, <1>2, LockInvariant, PTL DEF LockSpec, LockIsMutex
=============================================================================
