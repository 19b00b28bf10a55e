---------------------------- MODULE UserSemProofs ---------------------------
(***************************************************************************)
(* User semaphores leave nothing behind on a stack, time out when they     *)
(* should, and do what Semaphore promises their callers, for any number of *)
(* processes, tokens and ticks.                                            *)
(***************************************************************************)
EXTENDS UserSem, TimerProofs

-----------------------------------------------------------------------------
\* What holds between the calls of a user semaphore besides UserSemSound: the
\* list and the queue are well formed, a sleeper's timer has not yet fired, and
\* who was woken for nothing has timed out, is dying or has lost the semaphore.
SemShape == /\ sem \in SemRec(SemProcs) /\ sem.value <= MaxValue + InitValue
            /\ TimersOK(sem_timer_list, SemProcs) /\ Line(sem.queue, SemProcs)
SemCalls == /\ semPc \in [SemProcs -> {"user", "down", "exited"}]
            /\ sem_wait_state \in [SemProcs -> {"none", "USEM"}]
            /\ semFlags \in [SemProcs -> {"USEM", "INTERRUPTED"}]
            /\ semTimeout \in [SemProcs -> 0 .. SemMaxTimeout]
            /\ semWaited \in [SemProcs -> 0 .. SemMaxTimeout]
            /\ semExiting \in [SemProcs -> BOOLEAN]
            /\ result \in [SemProcs -> {"none", "0", "-1", "E_TIMEOUT", "E_INVAL"}]
            /\ semPanic \in BOOLEAN
SemOf(p) ==
  /\ semPc[p] # "down" => DueIn(sem_timer_list, p) = 0 /\ ~In(sem.queue, p)
  /\ In(sem.queue, p) => semFlags[p] = "INTERRUPTED"
  /\ sem_wait_state[p] = "USEM" =>
       /\ semPc[p] = "down" /\ In(sem.queue, p) /\ sem.valid
       /\ semTimeout[p] # 0 => semWaited[p] < semTimeout[p]
       /\ DueIn(sem_timer_list, p) = IF semTimeout[p] = 0 THEN 0 ELSE semTimeout[p] - semWaited[p]
  /\ semWaited[p] <= semTimeout[p]
  /\ semPc[p] = "down" /\ sem_wait_state[p] = "none" /\ semFlags[p] = "INTERRUPTED" =>
       (semTimeout[p] # 0 /\ semWaited[p] >= semTimeout[p]) \/ semExiting[p] \/ ~sem.valid
SemInv == SemShape /\ SemCalls /\ \A p \in SemProcs : SemOf(p)

\* A new semaphore has the invariant.
LEMMA SemInvInit == SemAssumption /\ UserSemInit => SemInv
<1> SUFFICES ASSUME SemAssumption, UserSemInit PROVE SemInv
  OBVIOUS
<1>1. TimersOK(<<>>, SemProcs) /\ Line(<<>>, SemProcs) /\ \A p : ~In(<<>>, p)
  BY LineEmpty DEF TimersOK
<1>2. sem.queue = <<>> /\ sem.value = InitValue /\ sem.valid /\ sem \in SemRec(SemProcs)
  BY DEF UserSemInit, sem_init, SemRec, SemAssumption
<1>3. \A p : DueIn(sem_timer_list, p) = 0
  BY DEF DueIn, HasTimer, UserSemInit
<1>4. SemCalls
  <2>1. /\ semPc \in [SemProcs -> {"user", "down", "exited"}]
        /\ sem_wait_state \in [SemProcs -> {"none", "USEM"}]
        /\ semFlags \in [SemProcs -> {"USEM", "INTERRUPTED"}]
        /\ result \in [SemProcs -> {"none", "0", "-1", "E_TIMEOUT", "E_INVAL"}]
    BY DEF UserSemInit
  <2>2. semTimeout \in [SemProcs -> 0 .. SemMaxTimeout] /\ semWaited \in [SemProcs -> 0 .. SemMaxTimeout]
    BY DEF UserSemInit, SemAssumption
  <2>3. semExiting \in [SemProcs -> BOOLEAN] /\ semPanic \in BOOLEAN
    BY Zenon DEF UserSemInit
  <2> QED
    BY <2>1, <2>2, <2>3 DEF SemCalls
<1>5. \A p \in SemProcs : SemOf(p)
  BY <1>1, <1>2, <1>3 DEF UserSemInit, SemOf
<1> QED
  BY <1>1, <1>2, <1>4, <1>5 DEF SemInv, SemShape, UserSemInit, SemAssumption

\* sem_wait up to its sleep keeps the invariant.
LEMMA SemWaitStep ==
  ASSUME SemAssumption, SemInv, NEW p \in SemProcs, NEW t \in 0 .. SemMaxTimeout, UserSemWait(p, t)
  PROVE  SemInv'
<1>1. CASE ~sem.valid
  BY <1>1 DEF UserSemWait, SemInv, SemShape, SemOf, SemCalls, SemBackToUser
<1>2. CASE sem.valid /\ downTakes(sem)
  <2>1. sem' = [sem EXCEPT !.value = @ - 1] /\ sem.value > 0
    BY <1>2 DEF UserSemWait, down, downTakes
  <2>2. /\ sem'.queue = sem.queue /\ sem'.valid = sem.valid /\ sem'.value <= MaxValue + InitValue
        /\ sem' \in SemRec(SemProcs)
    BY <2>1 DEF SemInv, SemShape, SemRec, SemAssumption
  <2>3. SemCalls'
    BY <1>2 DEF UserSemWait, SemInv, SemCalls, SemBackToUser
  <2>4. ASSUME NEW q \in SemProcs PROVE SemOf(q)'
    BY <1>2, <2>2 DEF UserSemWait, SemInv, SemOf, SemCalls, SemBackToUser
  <2> QED
    BY <1>2, <2>2, <2>3, <2>4 DEF SemInv, SemShape, UserSemWait
<1>3. CASE sem.valid /\ ~downTakes(sem)
  <2>1. /\ sem' = [sem EXCEPT !.queue = Append(@, p)] /\ ~In(sem.queue, p)
        /\ DueIn(sem_timer_list, p) = 0
    BY <1>3 DEF UserSemWait, down, SemInv, SemOf
  <2>2. Line(sem'.queue, SemProcs) /\ \A r : In(sem'.queue, r) <=> In(sem.queue, r) \/ r = p
    BY <2>1, LineAppend DEF SemInv, SemShape, SemRec
  <2>3. /\ sem'.valid = sem.valid /\ sem'.value = sem.value /\ sem' \in SemRec(SemProcs)
    BY <2>1, <2>2, Zenon DEF SemInv, SemShape, SemRec, Line
  <2>4. /\ TimersOK(sem_timer_list', SemProcs) /\ DueIn(sem_timer_list', p) = t
        /\ \A q \in SemProcs \ {p} : DueIn(sem_timer_list', q) = DueIn(sem_timer_list, q)
    <3>1. ~HasTimer(sem_timer_list, p) /\ TimersOK(sem_timer_list, SemProcs)
      BY <2>1, DuePositive DEF SemInv, SemShape
    <3>2. sem_timer_list' = IF t = 0 THEN sem_timer_list ELSE add_timer(sem_timer_list, p, t)
      BY <1>3 DEF UserSemWait
    <3>3. CASE t = 0
      BY <3>1, <3>2, <3>3, <2>1
    <3>4. CASE t # 0
      <4>1. t \in Nat \ {0}
        BY <3>4
      <4> QED
        BY <3>1, <3>2, <3>4, <4>1, AddTimer
    <3> QED
      BY <3>3, <3>4
  <2>5. SemCalls'
    <3>1. /\ semPc' \in [SemProcs -> {"user", "down", "exited"}]
          /\ sem_wait_state' \in [SemProcs -> {"none", "USEM"}]
          /\ semFlags' \in [SemProcs -> {"USEM", "INTERRUPTED"}]
          /\ result' \in [SemProcs -> {"none", "0", "-1", "E_TIMEOUT", "E_INVAL"}]
      BY <1>3 DEF UserSemWait, SemInv, SemCalls
    <3>2. semTimeout' \in [SemProcs -> 0 .. SemMaxTimeout] /\ semWaited' \in [SemProcs -> 0 .. SemMaxTimeout]
      BY <1>3 DEF UserSemWait, SemInv, SemCalls, SemAssumption
    <3>3. semExiting' \in [SemProcs -> BOOLEAN] /\ semPanic' \in BOOLEAN
      BY DEF UserSemWait, SemInv, SemCalls
    <3> QED
      BY <3>1, <3>2, <3>3 DEF SemCalls
  <2>6. ASSUME NEW q \in SemProcs PROVE SemOf(q)'
    BY <1>3, <2>2, <2>3, <2>4 DEF UserSemWait, SemInv, SemOf, SemCalls
  <2> QED
    BY <2>2, <2>3, <2>4, <2>5, <2>6 DEF SemInv, SemShape
<1> QED
  BY <1>1, <1>2, <1>3 DEF UserSemWait

\* The rest of sem_wait keeps the invariant: the timer and the place in the
\* queue go.
LEMMA SemResumeStep ==
  ASSUME SemAssumption, SemInv, NEW p \in SemProcs, SemResume(p)
  PROVE  SemInv'
<1>1. sem' = [sem EXCEPT !.queue = wait_current_del(@, p)]
  BY DEF SemResume
<1>2. /\ Line(sem'.queue, SemProcs) /\ \A r : In(sem'.queue, r) <=> In(sem.queue, r) /\ r # p
      /\ sem'.valid = sem.valid /\ sem'.value = sem.value /\ sem' \in SemRec(SemProcs)
  <2>1. sem'.queue = wait_current_del(sem.queue, p) /\ sem'.valid = sem.valid /\ sem'.value = sem.value
    BY <1>1 DEF SemInv, SemShape, SemRec
  <2>2. Line(sem.queue, SemProcs)
    BY DEF SemInv, SemShape
  <2>3. Line(sem'.queue, SemProcs) /\ \A r : In(sem'.queue, r) <=> In(sem.queue, r) /\ r # p
    BY <2>1, <2>2, LineDel
  <2>4. sem' \in SemRec(SemProcs)
    BY <1>1, <2>1, <2>3 DEF SemInv, SemShape, SemRec, Line
  <2> QED
    BY <2>1, <2>3, <2>4
<1>3. /\ TimersOK(sem_timer_list', SemProcs) /\ DueIn(sem_timer_list', p) = 0
      /\ \A q \in SemProcs \ {p} : DueIn(sem_timer_list', q) = DueIn(sem_timer_list, q)
  <2>1. TimersOK(sem_timer_list, SemProcs) /\ sem_timer_list' = del_timer(sem_timer_list, p)
    BY DEF SemInv, SemShape, SemResume
  <2> QED
    BY <2>1, DelTimer, DuePositive
<1>4. SemCalls'
  <2>1. /\ semPc' \in [SemProcs -> {"user", "down", "exited"}]
        /\ sem_wait_state' \in [SemProcs -> {"none", "USEM"}]
        /\ semFlags' \in [SemProcs -> {"USEM", "INTERRUPTED"}]
    BY DEF SemResume, SemForget, SemBackToUser, SemInv, SemCalls
  <2>2. result' \in [SemProcs -> {"none", "0", "-1", "E_TIMEOUT", "E_INVAL"}]
    BY DEF SemResume, SemInv, SemCalls
  <2>3. semTimeout' \in [SemProcs -> 0 .. SemMaxTimeout] /\ semWaited' \in [SemProcs -> 0 .. SemMaxTimeout]
    BY DEF SemResume, SemForget, SemInv, SemCalls, SemAssumption
  <2>4. semExiting' \in [SemProcs -> BOOLEAN] /\ semPanic' \in BOOLEAN
    BY DEF SemResume, SemInv, SemCalls
  <2> QED
    BY <2>1, <2>2, <2>3, <2>4 DEF SemCalls
<1>5. ASSUME NEW q \in SemProcs PROVE SemOf(q)'
  BY <1>2, <1>3 DEF SemResume, SemForget, SemBackToUser, SemInv, SemOf, SemCalls
<1> QED
  BY <1>2, <1>3, <1>4, <1>5 DEF SemInv, SemShape

\* sem_post keeps the invariant.
LEMMA SemPostStep ==
  ASSUME SemAssumption, SemInv, NEW p \in SemProcs, UserSemPost(p)
  PROVE  SemInv'
<1>1. CASE ~sem.valid
  BY <1>1 DEF UserSemPost, SemInv, SemShape, SemOf, SemCalls, SemBackToUser
<1>2. CASE sem.valid /\ \A q \in upWakes(sem) : sem_wait_state[q] = "USEM"
  <2>1. CASE sem.queue = <<>>
    <3>1. /\ sem' = [sem EXCEPT !.value = @ + 1] /\ upWakes(sem) = {} /\ sem.value < MaxValue
      BY <1>2, <2>1 DEF UserSemPost, up, upWakes
    <3>2. /\ sem'.queue = sem.queue /\ sem'.valid = sem.valid /\ sem'.value <= MaxValue + InitValue
          /\ sem' \in SemRec(SemProcs)
      BY <3>1 DEF SemInv, SemShape, SemRec, SemAssumption
    <3>3. sem_wait_state' = sem_wait_state /\ semFlags' = semFlags
      BY <1>2, <3>1 DEF UserSemPost, SemInv, SemCalls
    <3> QED
      <4>1. SemCalls'
        BY <1>2, <3>3 DEF UserSemPost, SemInv, SemCalls, SemBackToUser
      <4>2. ASSUME NEW q \in SemProcs PROVE SemOf(q)'
        BY <1>2, <3>2, <3>3 DEF UserSemPost, SemInv, SemOf, SemCalls, SemBackToUser
      <4> QED
        BY <1>2, <3>2, <4>1, <4>2 DEF UserSemPost, SemInv, SemShape
  <2>2. CASE sem.queue # <<>>
    <3>1. /\ sem' = [sem EXCEPT !.queue = Tail(@)] /\ upWakes(sem) = {Head(sem.queue)}
      BY <1>2, <2>2 DEF UserSemPost, up, upWakes
    <3>2. /\ Line(Tail(sem.queue), SemProcs)
          /\ \A r : In(Tail(sem.queue), r) <=> In(sem.queue, r) /\ r # Head(sem.queue)
      BY <2>2, LineTail DEF SemInv, SemShape
    <3>3. /\ sem'.queue = Tail(sem.queue) /\ sem'.valid = sem.valid /\ sem'.value = sem.value
          /\ sem' \in SemRec(SemProcs)
      BY <3>1, <3>2, Zenon DEF SemInv, SemShape, SemRec, Line
    <3>4. SemCalls'
      <4>1. /\ sem_wait_state' \in [SemProcs -> {"none", "USEM"}]
            /\ semFlags' \in [SemProcs -> {"USEM", "INTERRUPTED"}]
        BY <1>2 DEF UserSemPost, SemInv, SemCalls
      <4>2. /\ semPc' \in [SemProcs -> {"user", "down", "exited"}]
            /\ result' \in [SemProcs -> {"none", "0", "-1", "E_TIMEOUT", "E_INVAL"}]
        BY <1>2 DEF UserSemPost, SemBackToUser, SemInv, SemCalls
      <4> QED
        BY <1>2, <4>1, <4>2 DEF UserSemPost, SemInv, SemCalls
    <3>5. ASSUME NEW q \in SemProcs PROVE SemOf(q)'
      BY <1>2, <3>1, <3>2, <3>3 DEF UserSemPost, SemBackToUser, SemInv, SemOf, SemCalls
    <3> QED
      BY <1>2, <3>2, <3>3, <3>4, <3>5 DEF SemInv, SemShape, UserSemPost
  <2> QED
    BY <2>1, <2>2
<1>3. CASE sem.valid /\ \E q \in upWakes(sem) : sem_wait_state[q] # "USEM"
  BY <1>3, Zenon DEF UserSemPost, SemInv, SemShape, SemOf, SemCalls
<1> QED
  BY <1>1, <1>2, <1>3 DEF UserSemPost

\* sem_free keeps the invariant: nobody is in the queue, and all who were are
\* awake.
LEMMA SemFreeStep ==
  ASSUME SemInv, NEW p \in SemProcs, UserSemFree(p)
  PROVE  SemInv'
<1>1. /\ sem' \in SemRec(SemProcs) /\ sem'.value = sem.value /\ sem'.valid = FALSE
      /\ Line(sem'.queue, SemProcs) /\ \A r : In(sem'.queue, r) => In(sem.queue, r)
  <2>1. CASE sem.valid
    <3>1. sem' = [sem EXCEPT !.valid = FALSE, !.queue = <<>>]
      BY <2>1 DEF UserSemFree, free
    <3>2. sem' \in SemRec(SemProcs) /\ sem'.value = sem.value /\ sem'.valid = FALSE /\ sem'.queue = <<>>
      <4>1. sem' = [value |-> sem.value, valid |-> FALSE, queue |-> <<>>]
        BY <3>1, Zenon DEF SemInv, SemShape, SemRec
      <4>2. sem.value \in Nat /\ FALSE \in BOOLEAN /\ <<>> \in Seq(SemProcs)
        BY DEF SemInv, SemShape, SemRec
      <4>3. sem' \in SemRec(SemProcs)
        BY <4>1, <4>2, Zenon DEF SemRec
      <4> QED
        BY <4>1, <4>3
    <3> QED
      BY <3>2, LineEmpty
  <2>2. CASE ~sem.valid
    BY <2>2 DEF UserSemFree, SemInv, SemShape, SemRec
  <2> QED
    BY <2>1, <2>2, Zenon
<1>2. SemCalls'
  BY <1>1 DEF UserSemFree, SemBackToUser, SemInv, SemCalls
<1>3. ASSUME NEW q \in SemProcs PROVE SemOf(q)'
  <2>1. InQueue(q) <=> In(sem.queue, q)
    BY DEF InQueue, In
  <2> QED
    BY <1>1, <2>1 DEF UserSemFree, SemBackToUser, SemInv, SemOf, SemCalls
<1> QED
  BY <1>1, <1>2, <1>3 DEF SemInv, SemShape, UserSemFree

\* The timer interrupt keeps the invariant: it wakes who has waited for its
\* whole timeout.
LEMMA SemTickStep ==
  ASSUME SemAssumption, SemInv, SemTick
  PROVE  SemInv'
<1>1. /\ TimersOK(sem_timer_list', SemProcs)
      /\ \A q : DueIn(sem_timer_list', q) =
                  IF DueIn(sem_timer_list, q) = 0 THEN 0 ELSE DueIn(sem_timer_list, q) - 1
      /\ \A q : (\E i \in DOMAIN firedProcs(sem_timer_list) : firedProcs(sem_timer_list)[i] = q)
                  <=> DueIn(sem_timer_list, q) = 1
      /\ \A q : DueIn(sem_timer_list, q) \in Nat
  BY RunTimerList, DuePositive DEF SemInv, SemShape, SemTick
<1>2. \A q \in SemProcs : sem_wait_state'[q] = IF DueIn(sem_timer_list, q) = 1 THEN "none" ELSE sem_wait_state[q]
  BY <1>1 DEF SemTick
<1>3. sem_wait_state' \in [SemProcs -> {"none", "USEM"}]
  BY DEF SemTick, SemInv, SemCalls
<1>4. semWaited' \in [SemProcs -> 0 .. SemMaxTimeout]
  BY DEF SemTick, SemInv, SemCalls, SemAssumption
<1>5. SemCalls'
  BY <1>1, <1>3, <1>4 DEF SemTick, SemInv, SemCalls, TimersOK
<1>6. ASSUME NEW q \in SemProcs PROVE SemOf(q)'
  BY <1>1, <1>2 DEF SemTick, SemInv, SemOf, SemCalls, SemAssumption
<1> QED
  BY <1>1, <1>5, <1>6 DEF SemInv, SemShape, SemTick

\* Every step keeps the invariant.
LEMMA SemInvStep == SemAssumption /\ SemInv /\ [UserSemNext]_semVars => SemInv'
<1> SUFFICES ASSUME SemAssumption, SemInv, [UserSemNext]_semVars PROVE SemInv'
  OBVIOUS
<1>1. ASSUME NEW p \in SemProcs, SemExit(p) PROVE SemInv'
  BY <1>1 DEF SemExit, SemInv, SemShape, SemOf, SemCalls
<1>2. ASSUME NEW p \in SemProcs, NEW victim \in SemProcs, SemKill(p, victim) PROVE SemInv'
  BY <1>2 DEF SemKill, SemBackToUser, SemInv, SemShape, SemOf, SemCalls
<1>3. CASE UNCHANGED semVars
  BY <1>3 DEF semVars, SemInv, SemShape, SemOf, SemCalls
<1> QED
  BY <1>1, <1>2, <1>3, SemWaitStep, SemResumeStep, SemPostStep, SemFreeStep, SemTickStep
     DEF UserSemNext, SemCall

\* The invariant says more than UserSemSound.
LEMMA SemInvSound == SemInv => UserSemSound
<1> SUFFICES ASSUME SemInv PROVE UserSemSound
  OBVIOUS
<1>1. \A p : HasTimer(sem_timer_list, p) <=> DueIn(sem_timer_list, p) # 0
  BY DuePositive DEF SemInv, SemShape
<1>2. \A p : InQueue(p) <=> In(sem.queue, p)
  BY DEF InQueue, In
<1> QED
  BY <1>1, <1>2, Zenon DEF SemInv, SemOf, SemShape, SemCalls, TimersOK, UserSemTypeOK, UserSemSound, SemNoDangling, TimeoutIsExact

\* A user semaphore leaves no wait_t or timer_t of a finished sem_wait linked, a
\* sleeping waiter is always in the queue, and its timer is due exactly when the
\* rest of its timeout has passed: for any number of processes and any timeouts.
THEOREM UserSemIsSound == ASSUME SemAssumption PROVE UserSemSpec => []UserSemSound
<1>1. UserSemInit => SemInv
  BY SemInvInit
<1>2. SemInv /\ [UserSemNext]_semVars => SemInv'
  BY SemInvStep
<1> QED
  BY <1>1, <1>2, SemInvSound, PTL DEF UserSemSpec

-----------------------------------------------------------------------------
Asleep == {p \in SemProcs : sem_wait_state[p] = "USEM"}

\* A semaphore with another queue.
LEMMA SemWith ==
  ASSUME NEW P, NEW s \in SemRec(P), NEW x \in Seq(P), NEW t, t = [s EXCEPT !.queue = x]
  PROVE  t \in SemRec(P) /\ t.value = s.value /\ t.valid = s.valid /\ t.queue = x
BY SMTT(30) DEF SemRec

\* Semaphores are told apart by their fields.
LEMMA SemSame ==
  ASSUME NEW P, NEW s \in SemRec(P), NEW t \in SemRec(P), s.value = t.value, s.valid = t.valid, s.queue = t.queue
  PROVE  s = t
BY DEF SemRec

\* A semaphore with the queue of those of A.
LEMMA CalledOf ==
  ASSUME NEW P, NEW s \in SemRec(P), NEW A, NEW c, c = [s EXCEPT !.queue = Kept(@, A)]
  PROVE  /\ c \in SemRec(P) /\ c.value = s.value /\ c.valid = s.valid /\ c.queue = Kept(s.queue, A)
         /\ s.queue \in Seq(P) /\ Kept(s.queue, A) \in Seq(P)
<1>1. s.queue \in Seq(P)
  BY DEF SemRec
<1>2. Kept(s.queue, A) \in Seq(P)
  BY <1>1, KeptType
<1> QED
  BY <1>1, <1>2, SemWith

\* The semaphore its callers know, field by field,
LEMMA CalledIs ==
  ASSUME SemInv
  PROVE  /\ CalledSem \in SemRec(SemProcs) /\ CalledSem.value = sem.value /\ CalledSem.valid = sem.valid
         /\ CalledSem.queue = Kept(sem.queue, Asleep)
         /\ sem.queue \in Seq(SemProcs) /\ Kept(sem.queue, Asleep) \in Seq(SemProcs)
<1>1. sem \in SemRec(SemProcs) /\ CalledSem = [sem EXCEPT !.queue = Kept(@, Asleep)]
  BY DEF SemInv, SemShape, CalledSem, Asleep
<1> QED
  BY <1>1, CalledOf, SMTT(30)

\* and after a step.
LEMMA CalledIsNext ==
  ASSUME SemInv'
  PROVE  /\ CalledSem' \in SemRec(SemProcs) /\ CalledSem'.value = sem'.value /\ CalledSem'.valid = sem'.valid
         /\ CalledSem'.queue = Kept(sem'.queue, Asleep')
<1>1. sem' \in SemRec(SemProcs) /\ CalledSem' = [sem' EXCEPT !.queue = Kept(@, Asleep')]
  BY DEF SemInv, SemShape, CalledSem, Asleep
<1> QED
  BY <1>1, CalledOf

\* What a caller knows.
LEMMA StateIs ==
  ASSUME SemInv, NEW p \in SemProcs
  PROVE  /\ semPc[p] # "down" => CalledState[p] = "out"
         /\ sem_wait_state[p] = "USEM" => CalledState[p] = "waiting"
         /\ semPc[p] = "down" /\ sem_wait_state[p] # "USEM" =>
              CalledState[p] = IF semFlags[p] = "USEM" THEN "granted" ELSE "failed"
BY DEF CalledState, SemInv, SemOf

\* What a caller knows changes only with its own state.
LEMMA StateKept ==
  ASSUME SemInv, SemInv', NEW p \in SemProcs,
         \/ semPc'[p] = semPc[p] /\ sem_wait_state'[p] = sem_wait_state[p] /\ semFlags'[p] = semFlags[p]
         \/ semPc[p] # "down" /\ semPc'[p] # "down"
  PROVE  CalledState[p]' = CalledState[p]
BY DEF CalledState

\* A new semaphore is what Semaphore starts from.
LEMMA CalledStarts == SemAssumption /\ UserSemInit => Called!Init
<1> SUFFICES ASSUME SemAssumption, UserSemInit PROVE Called!Init
  OBVIOUS
<1>1. SemInv
  BY SemInvInit
<1>2. CalledSem = sem
  <2>1. sem.queue = <<>>
    BY DEF UserSemInit, sem_init
  <2>2. CalledSem.queue = <<>>
    BY <1>1, <2>1, CalledIs, KeptEmpty
  <2>3. /\ sem \in SemRec(SemProcs) /\ CalledSem \in SemRec(SemProcs)
        /\ CalledSem.value = sem.value /\ CalledSem.valid = sem.valid
    BY <1>1, CalledIs DEF SemInv, SemShape
  <2> QED
    BY <2>1, <2>2, <2>3, SemSame
<1>3. CalledState = [p \in SemProcs |-> "out"]
  BY DEF CalledState, UserSemInit
<1> QED
  BY <1>2, <1>3 DEF Called!Init, Called!sem_init, UserSemInit, sem_init

\* Nothing a caller can see has changed.
LEMMA CalledStutters ==
  ASSUME SemInv, SemInv', Kept(sem'.queue, Asleep') = Kept(sem.queue, Asleep),
         sem'.value = sem.value, sem'.valid = sem.valid,
         \A p \in SemProcs :
           \/ semPc'[p] = semPc[p] /\ sem_wait_state'[p] = sem_wait_state[p] /\ semFlags'[p] = semFlags[p]
           \/ semPc[p] # "down" /\ semPc'[p] # "down"
  PROVE  UNCHANGED Called!vars
<1>1. CalledSem' = CalledSem
  <2>1. CalledSem \in SemRec(SemProcs) /\ CalledSem' \in SemRec(SemProcs)
    BY CalledIs, CalledIsNext
  <2>2. CalledSem'.value = CalledSem.value /\ CalledSem'.valid = CalledSem.valid /\ CalledSem'.queue = CalledSem.queue
    BY CalledIs, CalledIsNext
  <2> QED
    BY <2>1, <2>2, SemSame
<1>2. \A p \in SemProcs : CalledState[p]' = CalledState[p]
  BY StateKept
<1>3. CalledState' = CalledState
  BY <1>2 DEF CalledState
<1> QED
  BY <1>1, <1>3 DEF Called!vars

\* Some who slept sleep no more, and nobody gave them a token.
LEMMA CalledGiveUp ==
  ASSUME SemInv, SemInv', NEW S \in SUBSET Asleep, sem' = sem, semFlags' = semFlags,
         \A p \in SemProcs : sem_wait_state'[p] = IF p \in S THEN "none" ELSE sem_wait_state[p],
         \A p \in SemProcs : semPc'[p] = semPc[p] \/ (semPc[p] # "down" /\ semPc'[p] # "down")
  PROVE  Called!GiveUp(S)
<1>1. \A p \in S : CalledState[p] = "waiting" /\ p \in SemProcs
  BY StateIs DEF Asleep
<1>2. ASSUME NEW p \in SemProcs PROVE CalledState'[p] = IF p \in S THEN "failed" ELSE CalledState[p]
  <2>1. CASE p \in S
    <3>1. semPc[p] = "down" /\ sem_wait_state'[p] = "none" /\ semFlags[p] = "INTERRUPTED"
      BY <2>1 DEF SemInv, SemOf, Asleep
    <3>2. semPc'[p] = "down"
      BY <3>1
    <3> QED
      BY <2>1, <3>1, <3>2 DEF CalledState
  <2>2. CASE p \notin S
    <3>1. sem_wait_state'[p] = sem_wait_state[p] /\ semFlags'[p] = semFlags[p]
      BY <2>2
    <3> QED
      BY <2>2, <3>1, StateKept
  <2> QED
    BY <2>1, <2>2
<1>3. CalledState' = [p \in SemProcs |-> IF p \in S THEN "failed" ELSE CalledState[p]]
  <2>1. CalledState' = [p \in SemProcs |-> CalledState'[p]]
    BY DEF CalledState
  <2> QED
    BY <1>2, <2>1
<1>4. Kept(sem'.queue, Asleep') = Kept(Kept(sem.queue, Asleep), SemProcs \ S)
  <2>1. Asleep' = Asleep \cap (SemProcs \ S)
    BY DEF Asleep
  <2> QED
    BY <2>1, KeptTwice, CalledIs
<1>5. CalledSem' = [CalledSem EXCEPT !.queue = Called!Kept(@, SemProcs \ S)]
  <2>1. PICK k : k = Kept(CalledSem.queue, SemProcs \ S)
    OBVIOUS
  <2>2. k = Called!Kept(CalledSem.queue, SemProcs \ S)
    BY <2>1 DEF Kept, Called!Kept
  <2>3. CalledSem \in SemRec(SemProcs) /\ CalledSem' \in SemRec(SemProcs) /\ CalledSem.queue \in Seq(SemProcs)
    BY CalledIs, CalledIsNext
  <2>4. k \in Seq(SemProcs)
    BY <2>1, <2>3, KeptType
  <2>5. PICK t : t = [CalledSem EXCEPT !.queue = k]
    BY Zenon
  <2>6. t \in SemRec(SemProcs) /\ t.value = CalledSem.value /\ t.valid = CalledSem.valid /\ t.queue = k
    BY <2>3, <2>4, <2>5, SemWith
  <2>7. CalledSem'.value = t.value /\ CalledSem'.valid = t.valid /\ CalledSem'.queue = t.queue
    BY <1>4, <2>1, <2>6, CalledIs, CalledIsNext
  <2>8. CalledSem' = t
    BY <2>3, <2>6, <2>7, SemSame
  <2> QED
    BY <2>2, <2>5, <2>8
<1> QED
  BY <1>1, <1>3, <1>5 DEF Called!GiveUp

\* sem_wait takes a token or joins the queue of those who sleep, as Wait does.
LEMMA CalledWait ==
  ASSUME SemAssumption, SemInv, SemInv', NEW p \in SemProcs, NEW t \in 0 .. SemMaxTimeout, UserSemWait(p, t)
  PROVE  Called!Wait(p) \/ UNCHANGED Called!vars
<1>0. CalledState[p] = "out" /\ semPc[p] = "user"
  BY StateIs DEF UserSemWait
<1>1. CASE ~sem.valid
  <2>1. sem' = sem /\ sem_wait_state' = sem_wait_state /\ semFlags' = semFlags
    BY <1>1 DEF UserSemWait
  <2>2. semPc'[p] # "down" /\ \A q \in SemProcs \ {p} : semPc'[q] = semPc[q]
    BY <1>1 DEF UserSemWait, SemBackToUser, SemInv, SemCalls
  <2>3. Asleep' = Asleep
    BY <2>1 DEF Asleep
  <2> QED
    BY <1>0, <2>1, <2>2, <2>3, CalledStutters
<1>2. CASE sem.valid /\ downTakes(sem)
  <2>1. sem' = [sem EXCEPT !.value = @ - 1] /\ sem.value > 0 /\ sem_wait_state' = sem_wait_state /\ semFlags' = semFlags
    BY <1>2 DEF UserSemWait, down, downTakes
  <2>2. semPc'[p] # "down" /\ \A q \in SemProcs \ {p} : semPc'[q] = semPc[q]
    BY <1>2 DEF UserSemWait, SemBackToUser, SemInv, SemCalls
  <2>3. Asleep' = Asleep
    BY <2>1 DEF Asleep
  <2>4. sem'.queue = sem.queue /\ sem'.valid = sem.valid /\ sem'.value = sem.value - 1 /\ sem.value \in Nat
    BY <2>1 DEF SemInv, SemShape, SemRec
  <2>5. CalledState' = CalledState
    <3>1. \A q \in SemProcs : CalledState[q]' = CalledState[q]
      BY <1>0, <2>1, <2>2, StateKept
    <3> QED
      BY <3>1 DEF CalledState
  <2>6. CalledSem' = [CalledSem EXCEPT !.value = @ - 1]
    <3>1. PICK c : c = [CalledSem EXCEPT !.value = @ - 1]
      BY Zenon
    <3>2. /\ c \in SemRec(SemProcs) /\ c.value = CalledSem.value - 1 /\ c.valid = CalledSem.valid
          /\ c.queue = CalledSem.queue
      BY <2>1, <2>4, <3>1, CalledIs DEF SemRec
    <3>3. /\ CalledSem' \in SemRec(SemProcs) /\ CalledSem'.value = c.value /\ CalledSem'.valid = c.valid
          /\ CalledSem'.queue = c.queue
      BY <2>3, <2>4, <3>2, CalledIs, CalledIsNext
    <3> QED
      BY <3>1, <3>2, <3>3, SemSame, Zenon
  <2>7. CalledSem.value > 0 /\ CalledSem.valid
    BY <1>2, <2>1, CalledIs, Zenon
  <2> QED
    BY <1>0, <2>5, <2>6, <2>7 DEF Called!Wait, Called!down, Called!downTakes
<1>3. CASE sem.valid /\ ~downTakes(sem)
  <2>1. /\ sem' = [sem EXCEPT !.queue = Append(@, p)] /\ ~(sem.value > 0)
        /\ semPc'[p] = "down" /\ sem_wait_state'[p] = "USEM"
        /\ \A q \in SemProcs \ {p} : /\ semPc'[q] = semPc[q] /\ sem_wait_state'[q] = sem_wait_state[q]
                                     /\ semFlags'[q] = semFlags[q]
    BY <1>3 DEF UserSemWait, down, downTakes, SemInv, SemCalls
  <2>2. /\ sem'.queue = Append(sem.queue, p) /\ sem'.valid = sem.valid /\ sem'.value = sem.value
        /\ sem.queue \in Seq(SemProcs)
    BY <2>1 DEF SemInv, SemShape, SemRec
  <2>3. Asleep' = Asleep \union {p} /\ p \in Asleep'
    BY <2>1 DEF Asleep
  <2>4. \A i \in 1 .. Len(sem.queue) : sem.queue[i] \in Asleep' <=> sem.queue[i] \in Asleep
    <3>1. ~In(sem.queue, p)
      BY <1>0 DEF SemInv, SemOf
    <3>2. \A i \in 1 .. Len(sem.queue) : sem.queue[i] # p
      BY <2>2, <3>1 DEF In
    <3> QED
      BY <2>3, <3>2
  <2>5. Kept(sem'.queue, Asleep') = Append(Kept(sem.queue, Asleep), p)
    <3>1. PICK A : A = Asleep' /\ p \in A
      BY <2>3
    <3>2. Kept(sem.queue, A) = Kept(sem.queue, Asleep)
      BY <2>2, <2>4, <3>1, KeptSame
    <3>3. Kept(Append(sem.queue, p), A) = Append(Kept(sem.queue, A), p)
      BY <2>2, <3>1, KeptAppend
    <3> QED
      BY <2>2, <3>1, <3>2, <3>3
  <2>6. CalledSem' = [CalledSem EXCEPT !.queue = Append(@, p)]
    <3>1. PICK x : x = Append(CalledSem.queue, p)
      BY Zenon
    <3>2. x \in Seq(SemProcs)
      BY <3>1, CalledIs
    <3>3. PICK c : c = [CalledSem EXCEPT !.queue = x]
      BY Zenon
    <3>4. c \in SemRec(SemProcs) /\ c.value = CalledSem.value /\ c.valid = CalledSem.valid /\ c.queue = x
      BY <3>2, <3>3, CalledIs, SemWith
    <3>5. /\ CalledSem' \in SemRec(SemProcs) /\ CalledSem'.value = c.value /\ CalledSem'.valid = c.valid
          /\ CalledSem'.queue = c.queue
      BY <2>2, <2>5, <3>1, <3>4, CalledIs, CalledIsNext
    <3> QED
      BY <3>1, <3>3, <3>4, <3>5, SemSame, Zenon
  <2>7. CalledState' = [CalledState EXCEPT ![p] = "waiting"]
    <3>1. CalledState'[p] = "waiting"
      BY <2>1 DEF CalledState
    <3>2. \A q \in SemProcs \ {p} : CalledState[q]' = CalledState[q]
      BY <2>1, StateKept
    <3> QED
      BY <3>1, <3>2, Zenon DEF CalledState
  <2>8. ~(CalledSem.value > 0) /\ CalledSem.valid
    BY <1>3, <2>1, CalledIs, Zenon
  <2> QED
    BY <1>0, <2>6, <2>7, <2>8 DEF Called!Wait, Called!down, Called!downTakes
<1> QED
  BY <1>1, <1>2, <1>3

\* Leaving sem_wait is Return: who leaves was not in the queue its callers know.
LEMMA CalledReturn ==
  ASSUME SemInv, SemInv', NEW p \in SemProcs, SemResume(p)
  PROVE  Called!Return(p)
<1>1. /\ semPc[p] = "down" /\ sem_wait_state[p] = "none" /\ semPc'[p] # "down" /\ sem_wait_state' = sem_wait_state
      /\ \A q \in SemProcs \ {p} : semPc'[q] = semPc[q] /\ semFlags'[q] = semFlags[q]
  BY DEF SemResume, SemForget, SemBackToUser, SemInv, SemCalls
<1>2. CalledState[p] \in {"granted", "failed"}
  BY <1>1, StateIs
<1>3. CalledState' = [CalledState EXCEPT ![p] = "out"]
  <2>1. CalledState'[p] = "out"
    BY <1>1 DEF CalledState
  <2>2. \A q \in SemProcs \ {p} : CalledState[q]' = CalledState[q]
    BY <1>1, StateKept
  <2> QED
    BY <2>1, <2>2, Zenon DEF CalledState
<1>4. Asleep' = Asleep /\ p \notin Asleep
  BY <1>1 DEF Asleep
<1>5. sem'.queue = wait_current_del(sem.queue, p) /\ sem'.valid = sem.valid /\ sem'.value = sem.value
  BY DEF SemResume, SemInv, SemShape, SemRec
<1>6. Kept(sem'.queue, Asleep') = Kept(sem.queue, Asleep)
  BY <1>4, <1>5, KeptDel DEF SemInv, SemShape
<1>7. CalledSem' = CalledSem
  <2>1. /\ CalledSem \in SemRec(SemProcs) /\ CalledSem' \in SemRec(SemProcs)
        /\ CalledSem'.value = CalledSem.value /\ CalledSem'.valid = CalledSem.valid
        /\ CalledSem'.queue = CalledSem.queue
    BY <1>5, <1>6, CalledIs, CalledIsNext
  <2> QED
    BY <2>1, SemSame
<1> QED
  BY <1>2, <1>3, <1>7 DEF Called!Return

\* sem_post gives the token to the first who sleeps, as Post does, or has failed
\* an assertion.
LEMMA CalledPost ==
  ASSUME SemInv, SemInv', NEW p \in SemProcs, UserSemPost(p)
  PROVE  Called!Post \/ UNCHANGED Called!vars
<1>0. semPc[p] = "user" /\ sem \in SemRec(SemProcs) /\ sem.queue \in Seq(SemProcs)
  BY CalledIs, SMTT(30) DEF UserSemPost, SemInv, SemShape
<1>1. CASE ~sem.valid \/ \E q \in upWakes(sem) : sem_wait_state[q] # "USEM"
  <2>1. sem' = sem /\ sem_wait_state' = sem_wait_state /\ semFlags' = semFlags
    BY <1>1 DEF UserSemPost
  <2>2. semPc'[p] # "down" /\ \A q \in SemProcs \ {p} : semPc'[q] = semPc[q]
    BY <1>0, <1>1 DEF UserSemPost, SemBackToUser, SemInv, SemCalls
  <2>3. Asleep' = Asleep
    BY <2>1 DEF Asleep
  <2> QED
    BY <1>0, <2>1, <2>2, <2>3, CalledStutters
<1>2. CASE sem.valid /\ \A q \in upWakes(sem) : sem_wait_state[q] = "USEM"
  <2>1. /\ sem' = up(sem)
        /\ sem_wait_state' = [q \in SemProcs |-> IF q \in upWakes(sem) THEN "none" ELSE sem_wait_state[q]]
        /\ semFlags' = [q \in SemProcs |-> IF q \in upWakes(sem) THEN "USEM" ELSE semFlags[q]]
    BY <1>2 DEF UserSemPost
  <2>2. semPc'[p] # "down" /\ \A q \in SemProcs \ {p} : semPc'[q] = semPc[q]
    BY <1>0, <1>2 DEF UserSemPost, SemBackToUser, SemInv, SemCalls
  <2>3. CASE sem.queue = <<>>
    <3>1. upWakes(sem) = {} /\ sem' = [sem EXCEPT !.value = @ + 1]
      BY <2>1, <2>3 DEF up, upWakes
    <3>2. sem'.queue = sem.queue /\ sem'.valid = sem.valid /\ sem'.value = sem.value + 1 /\ sem.value \in Nat
      BY <1>0, <3>1 DEF SemRec
    <3>3. Kept(sem'.queue, Asleep') = <<>> /\ Kept(sem.queue, Asleep) = <<>>
      BY <2>3, <3>2, KeptEmpty
    <3>4. \A q \in SemProcs : sem_wait_state'[q] = sem_wait_state[q] /\ semFlags'[q] = semFlags[q]
      BY <2>1, <3>1
    <3>5. CalledState' = CalledState
      <4>1. \A q \in SemProcs : CalledState[q]' = CalledState[q]
        BY <1>0, <2>2, <3>4, StateKept
      <4> QED
        BY <4>1 DEF CalledState
    <3>6. CalledSem.queue = <<>> /\ CalledSem.valid
      BY <1>2, <3>3, CalledIs, Zenon
    <3>7. CalledSem' = [CalledSem EXCEPT !.value = @ + 1]
      <4>1. PICK c : c = [CalledSem EXCEPT !.value = @ + 1]
        BY Zenon
      <4>2. /\ c \in SemRec(SemProcs) /\ c.value = CalledSem.value + 1 /\ c.valid = CalledSem.valid
            /\ c.queue = CalledSem.queue
        BY <4>1, CalledIs DEF SemRec
      <4>3. /\ CalledSem' \in SemRec(SemProcs) /\ CalledSem'.value = c.value /\ CalledSem'.valid = c.valid
            /\ CalledSem'.queue = c.queue
        BY <3>2, <3>3, <4>2, CalledIs, CalledIsNext
      <4> QED
        BY <4>1, <4>2, <4>3, SemSame, Zenon
    <3>8. CalledState' = [q \in SemProcs |-> IF q \in Called!upWakes(CalledSem) THEN "granted" ELSE CalledState[q]]
      <4>1. Called!upWakes(CalledSem) = {}
        BY <3>6 DEF Called!upWakes
      <4>2. CalledState = [q \in SemProcs |-> CalledState[q]]
        BY DEF CalledState
      <4> QED
        BY <3>5, <4>1, <4>2
    <3> QED
      BY <3>6, <3>7, <3>8 DEF Called!Post, Called!up
  <2>4. CASE sem.queue # <<>>
    <3>1. PICK h : h = Head(sem.queue)
      OBVIOUS
    <3>2. upWakes(sem) = {h} /\ sem' = [sem EXCEPT !.queue = Tail(@)] /\ h \in SemProcs
      BY <1>0, <2>1, <2>4, <3>1 DEF up, upWakes
    <3>3. /\ sem'.queue = Tail(sem.queue) /\ sem'.valid = sem.valid /\ sem'.value = sem.value
          /\ Tail(sem.queue) \in Seq(SemProcs)
      BY <1>0, <2>4, <3>2 DEF SemRec
    <3>4. sem_wait_state[h] = "USEM" /\ semPc[h] = "down" /\ h # p /\ h \in Asleep
      BY <1>0, <1>2, <3>2 DEF SemInv, SemOf, Asleep
    <3>5. Asleep' = Asleep \ {h}
      BY <2>1, <3>2 DEF Asleep
    <3>6. Kept(sem'.queue, Asleep') = Kept(Tail(sem.queue), Asleep)
      <4>1. PICK A, r : A = Asleep' /\ r = Tail(sem.queue)
        BY Zenon
      <4>2. ~In(r, h) /\ r \in Seq(SemProcs)
        BY <2>4, <3>1, <3>3, <4>1, LineTail DEF SemInv, SemShape
      <4>3. \A i \in 1 .. Len(r) : r[i] # h
        BY <4>2 DEF In
      <4>4. \A i \in 1 .. Len(r) : r[i] \in A <=> r[i] \in Asleep
        BY <3>5, <4>1, <4>3
      <4>5. Kept(r, A) = Kept(r, Asleep)
        BY <4>2, <4>4, KeptSame
      <4> QED
        BY <3>3, <4>1, <4>5
    <3>7. /\ Kept(sem.queue, Asleep) # <<>> /\ Head(Kept(sem.queue, Asleep)) = h
          /\ Kept(Tail(sem.queue), Asleep) = Tail(Kept(sem.queue, Asleep))
      BY <1>0, <2>4, <3>1, <3>4, KeptTail
    <3>8. CalledSem.queue # <<>> /\ Head(CalledSem.queue) = h /\ CalledSem.valid
      BY <1>2, <3>7, CalledIs, Zenon
    <3>9. CalledSem' = [CalledSem EXCEPT !.queue = Tail(@)]
      <4>1. PICK x : x = Tail(CalledSem.queue)
        BY Zenon
      <4>2. x \in Seq(SemProcs)
        BY <3>8, <4>1, CalledIs
      <4>3. PICK c : c = [CalledSem EXCEPT !.queue = x]
        BY Zenon
      <4>4. c \in SemRec(SemProcs) /\ c.value = CalledSem.value /\ c.valid = CalledSem.valid /\ c.queue = x
        BY <4>2, <4>3, CalledIs, SemWith
      <4>5. /\ CalledSem' \in SemRec(SemProcs) /\ CalledSem'.value = c.value /\ CalledSem'.valid = c.valid
            /\ CalledSem'.queue = c.queue
        BY <3>3, <3>6, <3>7, <4>1, <4>4, CalledIs, CalledIsNext, Zenon
      <4> QED
        BY <4>1, <4>3, <4>4, <4>5, SemSame, Zenon
    <3>10. CalledState' = [q \in SemProcs |-> IF q \in Called!upWakes(CalledSem) THEN "granted" ELSE CalledState[q]]
      <4>1. Called!upWakes(CalledSem) = {h}
        BY <3>8 DEF Called!upWakes
      <4>2. CalledState'[h] = "granted"
        <5>1. semPc'[h] = "down" /\ sem_wait_state'[h] = "none" /\ semFlags'[h] = "USEM"
          BY <2>1, <2>2, <3>2, <3>4
        <5> QED
          BY <3>2, <5>1 DEF CalledState
      <4>3. ASSUME NEW q \in SemProcs, q # h PROVE CalledState[q]' = CalledState[q]
        <5>1. sem_wait_state'[q] = sem_wait_state[q] /\ semFlags'[q] = semFlags[q]
          BY <2>1, <3>2, <4>3
        <5> QED
          BY <1>0, <2>2, <5>1, StateKept
      <4>4. CalledState' = [q \in SemProcs |-> CalledState'[q]]
        BY DEF CalledState
      <4> QED
        BY <4>1, <4>2, <4>3, <4>4
    <3> QED
      BY <3>8, <3>9, <3>10 DEF Called!Post, Called!up
  <2> QED
    BY <2>3, <2>4
<1> QED
  BY <1>1, <1>2

\* sem_free wakes all who sleep, as Free does.
LEMMA CalledFree ==
  ASSUME SemInv, SemInv', NEW p \in SemProcs, UserSemFree(p)
  PROVE  Called!Free \/ UNCHANGED Called!vars
<1>0. semPc[p] = "user" /\ sem \in SemRec(SemProcs) /\ sem.queue \in Seq(SemProcs)
  BY CalledIs DEF UserSemFree, SemInv, SemShape
<1>1. semPc'[p] # "down" /\ \A q \in SemProcs \ {p} : semPc'[q] = semPc[q]
  BY <1>0 DEF UserSemFree, SemBackToUser, SemInv, SemCalls
<1>2. \A q \in SemProcs : /\ sem_wait_state'[q] = IF In(sem.queue, q) THEN "none" ELSE sem_wait_state[q]
                          /\ semFlags'[q] = semFlags[q]
  <2>1. \A q \in SemProcs : InQueue(q) <=> In(sem.queue, q)
    BY <1>0, SMTT(30) DEF InQueue, In
  <2> QED
    BY <2>1 DEF UserSemFree, SemInv, SemOf
<1>3. CASE ~sem.valid
  <2>1. sem' = sem
    BY <1>3, SMTT(30) DEF UserSemFree
  <2>2. \A q \in SemProcs : sem_wait_state'[q] = sem_wait_state[q]
    BY <1>2, <1>3 DEF SemInv, SemOf, SemCalls
  <2>3. Asleep' = Asleep
    BY <2>2 DEF Asleep
  <2> QED
    BY <1>0, <1>1, <1>2, <2>1, <2>2, <2>3, CalledStutters
<1>4. CASE sem.valid
  <2>1. sem' = [sem EXCEPT !.valid = FALSE, !.queue = <<>>]
    BY <1>4 DEF UserSemFree, free
  <2>2. sem'.queue = <<>> /\ sem'.value = sem.value /\ sem'.valid = FALSE
    BY <1>0, <2>1 DEF SemRec
  <2>3. CalledSem' = [CalledSem EXCEPT !.valid = FALSE, !.queue = <<>>]
    <3>1. PICK c : c = [CalledSem EXCEPT !.valid = FALSE, !.queue = <<>>]
      OBVIOUS
    <3>2. /\ c \in SemRec(SemProcs) /\ c.value = CalledSem.value /\ c.valid = FALSE /\ c.queue = <<>>
      <4>1. PICK d : d = [CalledSem EXCEPT !.queue = <<>>]
        BY Zenon
      <4>2. d \in SemRec(SemProcs) /\ d.value = CalledSem.value /\ d.queue = <<>>
        <5>1. PICK x : x = <<>>
          OBVIOUS
        <5>2. x \in Seq(SemProcs)
          BY <5>1
        <5>3. CalledSem \in SemRec(SemProcs)
          BY CalledIs
        <5>4. d = [CalledSem EXCEPT !.queue = x]
          BY <4>1, <5>1
        <5>5. d \in SemRec(SemProcs) /\ d.value = CalledSem.value /\ d.queue = x
          BY <5>2, <5>3, <5>4, SemWith
        <5> QED
          BY <5>1, <5>5
      <4>3. c = [d EXCEPT !.valid = FALSE]
        BY <3>1, <4>1, CalledIs, Zenon DEF SemRec
      <4> QED
        BY <4>2, <4>3, Zenon DEF SemRec
    <3>3. /\ CalledSem' \in SemRec(SemProcs) /\ CalledSem'.value = c.value /\ CalledSem'.valid = c.valid
          /\ CalledSem'.queue = c.queue
      BY <2>2, <3>2, CalledIs, CalledIsNext, KeptEmpty, Zenon
    <3> QED
      BY <3>1, <3>2, <3>3, SemSame, Zenon
  <2>4. ASSUME NEW q \in SemProcs
        PROVE  CalledState'[q] = IF CalledState[q] = "waiting" THEN "failed" ELSE CalledState[q]
    <3>1. CASE sem_wait_state[q] = "USEM"
      <4>1. semPc[q] = "down" /\ In(sem.queue, q) /\ semFlags[q] = "INTERRUPTED" /\ q # p
        BY <1>0, <3>1 DEF SemInv, SemOf
      <4>2. semPc'[q] = "down" /\ sem_wait_state'[q] = "none" /\ semFlags'[q] = "INTERRUPTED"
        BY <1>1, <1>2, <4>1
      <4> QED
        BY <3>1, <4>1, <4>2 DEF CalledState
    <3>2. CASE sem_wait_state[q] # "USEM"
      <4>1. sem_wait_state'[q] = sem_wait_state[q]
        BY <1>2, <3>2, SMTT(30) DEF SemInv, SemCalls
      <4>2. CalledState[q]' = CalledState[q]
        BY <1>0, <1>1, <1>2, <4>1, StateKept
      <4>3. CalledState[q] # "waiting"
        BY <3>2 DEF CalledState
      <4> QED
        BY <4>2, <4>3
    <3> QED
      BY <3>1, <3>2
  <2>5. CalledState' = [q \in SemProcs |-> IF CalledState[q] = "waiting" THEN "failed" ELSE CalledState[q]]
    <3>1. CalledState' = [q \in SemProcs |-> CalledState'[q]]
      BY DEF CalledState
    <3> QED
      BY <2>4, <3>1
  <2>6. CalledSem.valid
    BY <1>4, CalledIs, Zenon
  <2> QED
    BY <2>3, <2>5, <2>6 DEF Called!Free, Called!free
<1> QED
  BY <1>3, <1>4, SMTT(30)

\* do_kill makes a sleeping victim give up.
LEMMA CalledKill ==
  ASSUME SemInv, SemInv', NEW p \in SemProcs, NEW victim \in SemProcs, SemKill(p, victim)
  PROVE  \E S \in SUBSET SemProcs : Called!GiveUp(S)
<1>1. /\ semPc[p] = "user" /\ semPc'[p] # "down" /\ \A q \in SemProcs \ {p} : semPc'[q] = semPc[q]
      /\ sem' = sem /\ semFlags' = semFlags
  BY DEF SemKill, SemBackToUser, SemInv, SemCalls
<1>0. PICK S : S = Asleep \cap {victim}
  BY Zenon
<1>2. \A q \in SemProcs : sem_wait_state'[q] = IF q \in S THEN "none" ELSE sem_wait_state[q]
  BY <1>0 DEF SemKill, Asleep, SemInv, SemCalls
<1>3. S \in SUBSET Asleep /\ S \in SUBSET SemProcs
  BY <1>0 DEF Asleep
<1>4. \A q \in SemProcs : semPc'[q] = semPc[q] \/ (semPc[q] # "down" /\ semPc'[q] # "down")
  BY <1>1
<1>5. Called!GiveUp(S)
  BY <1>1, <1>2, <1>3, <1>4, CalledGiveUp
<1> QED
  BY <1>3, <1>5

\* A tick makes those whose timer fires give up.
LEMMA CalledTick ==
  ASSUME SemInv, SemInv', SemTick
  PROVE  \E S \in SUBSET SemProcs : Called!GiveUp(S)
<1>1. PICK F : /\ sem_wait_state' = [p \in SemProcs |-> IF p \in F THEN "none" ELSE sem_wait_state[p]]
               /\ sem' = sem /\ semFlags' = semFlags /\ semPc' = semPc
  BY Zenon DEF SemTick
<1>0. PICK S : S = Asleep \cap F
  BY Zenon
<1>2. \A q \in SemProcs : sem_wait_state'[q] = IF q \in S THEN "none" ELSE sem_wait_state[q]
  BY <1>0, <1>1 DEF Asleep, SemInv, SemCalls
<1>3. S \in SUBSET Asleep /\ S \in SUBSET SemProcs
  BY <1>0 DEF Asleep
<1>4. \A q \in SemProcs : semPc'[q] = semPc[q] \/ (semPc[q] # "down" /\ semPc'[q] # "down")
  BY <1>1
<1>5. Called!GiveUp(S)
  BY <1>1, <1>2, <1>3, <1>4, CalledGiveUp
<1> QED
  BY <1>3, <1>5

\* do_exit is no business of the semaphore.
LEMMA CalledExit ==
  ASSUME SemInv, SemInv', NEW p \in SemProcs, SemExit(p)
  PROVE  UNCHANGED Called!vars
<1>1. /\ semPc[p] = "user" /\ semPc'[p] # "down" /\ \A q \in SemProcs \ {p} : semPc'[q] = semPc[q]
      /\ sem' = sem /\ semFlags' = semFlags /\ sem_wait_state' = sem_wait_state
  BY DEF SemExit, SemInv, SemCalls
<1>2. Asleep' = Asleep
  BY <1>1 DEF Asleep
<1> QED
  BY <1>1, <1>2, CalledStutters

\* Every step is one of Semaphore, or does not concern it.
LEMMA CalledStep ==
  ASSUME SemAssumption, SemInv, SemInv', UserSemNext
  PROVE  Called!Next \/ UNCHANGED Called!vars
<1>1. CASE SemTick
  BY <1>1, CalledTick DEF Called!Next
<1>2. ASSUME NEW p \in SemProcs, SemResume(p) PROVE Called!Next
  BY <1>2, CalledReturn DEF Called!Next
<1>3. ASSUME NEW p \in SemProcs, SemCall(p) PROVE Called!Next \/ UNCHANGED Called!vars
  <2>1. CASE UserSemPost(p)
    BY <2>1, CalledPost DEF Called!Next
  <2>2. CASE UserSemFree(p)
    BY <2>2, CalledFree DEF Called!Next
  <2>3. CASE SemExit(p)
    BY <2>3, CalledExit
  <2>4. ASSUME NEW t \in 0 .. SemMaxTimeout, UserSemWait(p, t) PROVE Called!Next \/ UNCHANGED Called!vars
    <3>1. Called!Wait(p) \/ UNCHANGED Called!vars
      BY <2>4, CalledWait
    <3> QED
      BY <3>1 DEF Called!Next
  <2>5. ASSUME NEW victim \in SemProcs, SemKill(p, victim) PROVE Called!Next
    BY <2>5, CalledKill DEF Called!Next
  <2> QED
    BY <1>3, <2>1, <2>2, <2>3, <2>4, <2>5 DEF SemCall
<1> QED
  BY <1>1, <1>2, <1>3 DEF UserSemNext

\* Only SemResume leaves __down, and it says why.
LEMMA HonestSteps == ASSUME SemInv, UserSemNext PROVE HonestStep
<1> SUFFICES ASSUME NEW p \in SemProcs, semPc[p] = "down", semPc'[p] # "down"
             PROVE  /\ result'[p] = "E_TIMEOUT" => semTimeout[p] # 0 /\ semWaited[p] = semTimeout[p]
                    /\ result'[p] = "-1" => semExiting[p] \/ ~sem.valid
  BY DEF HonestStep
<1>1. SemResume(p)
  <2>1. ~SemTick
    BY DEF SemTick
  <2>2. ASSUME NEW q \in SemProcs PROVE ~SemCall(q)
    BY DEF SemCall, UserSemPost, UserSemFree, SemExit, UserSemWait, SemKill, SemBackToUser, SemInv, SemCalls
  <2>3. ASSUME NEW q \in SemProcs, SemResume(q) PROVE q = p
    BY <2>3 DEF SemResume, SemBackToUser, SemInv, SemCalls
  <2> QED
    BY <2>1, <2>2, <2>3 DEF UserSemNext
<1>2. result'[p] = IF semFlags[p] = "USEM" THEN "0"
                   ELSE IF semTimeout[p] # 0 /\ semWaited[p] >= semTimeout[p] THEN "E_TIMEOUT" ELSE "-1"
  BY <1>1 DEF SemResume, SemInv, SemCalls
<1>3. /\ semTimeout[p] \in Nat /\ semWaited[p] \in Nat /\ semWaited[p] <= semTimeout[p]
      /\ sem_wait_state[p] = "none" /\ (semFlags[p] = "USEM" \/ semFlags[p] = "INTERRUPTED")
      /\ semFlags[p] = "INTERRUPTED" =>
           (semTimeout[p] # 0 /\ semWaited[p] >= semTimeout[p]) \/ semExiting[p] \/ ~sem.valid
  BY <1>1 DEF SemResume, SemInv, SemCalls, SemOf
<1> QED
  BY <1>2, <1>3

\* A user semaphore does what Semaphore promises its callers.
THEOREM UserSemImplementsSemaphore == ASSUME SemAssumption PROVE UserSemSpec => SemaphoreSpec
<1>1. UserSemInit => SemInv /\ Called!Init
  BY SemInvInit, CalledStarts
<1>2. SemInv /\ [UserSemNext]_semVars => SemInv'
  BY SemInvStep
<1>3. SemInv /\ SemInv' /\ [UserSemNext]_semVars => [UNCHANGED semVars \/ Called!Next]_(Called!vars) /\ [HonestStep]_semVars
  <2>1. ASSUME SemInv, SemInv', UserSemNext PROVE (Called!Next \/ UNCHANGED Called!vars) /\ HonestStep
    BY <2>1, CalledStep, HonestSteps
  <2> QED
    BY <2>1
<1> QED
  BY <1>1, <1>2, <1>3, PTL DEF UserSemSpec, SemaphoreSpec
=============================================================================
