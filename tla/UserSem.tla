------------------------------- MODULE UserSem ------------------------------
(***************************************************************************)
(* A user semaphore inside the kernel (kern/sync/sem.c, wait.c, ipc.h):    *)
(* sem_wait with a timeout, sem_post and sem_free, with the timer          *)
(* interrupt, do_kill and process exit around them.  A waiter's wait_t and *)
(* timer_t live on its kernel stack.  Whoever wakes a waiter only makes it *)
(* runnable; the waiter takes itself off the timer list and off the wait   *)
(* queue when it runs again.  Which runnable process runs is left open     *)
(* (Sched has the run queues).                                             *)
(***************************************************************************)
EXTENDS Integers, Sequences, FiniteSets, Timers, KSem

CONSTANTS SemProcs,      \* processes that share the semaphore
          InitValue,     \* sem_init's argument
          MaxValue,      \* bound: posts stop when the value has reached this
          SemMaxTimeout  \* the longest timeout; 0 means none

\* What the constants have to be.
SemAssumption == /\ IsFiniteSet(SemProcs)
                 /\ InitValue \in Nat /\ MaxValue \in Nat /\ SemMaxTimeout \in Nat

VARIABLES
  sem,             \* the semaphore: value, valid, wait queue
  semPc,           \* user, inside __down's sleep, or exited
  sem_wait_state,  \* proc->wait_state: USEM while asleep, none (0) once woken
  semFlags,        \* wait->wakeup_flags
  sem_timer_list,  \* the timers
  semTimeout,      \* the argument of the sem_wait the process is in
  semWaited,       \* ticks since saved_ticks, counted up to timeout
  semExiting,      \* PF_EXITING
  result,          \* what the process's last call returned
  semPanic         \* an assertion has failed

semVars == <<sem, semPc, sem_wait_state, semFlags, sem_timer_list, semTimeout, semWaited, semExiting, result, semPanic>>

InQueue(p) == \E i \in DOMAIN sem.queue : sem.queue[i] = p

UserSemInit == /\ sem = sem_init(InitValue)
               /\ semPc = [p \in SemProcs |-> "user"]
               /\ sem_wait_state = [p \in SemProcs |-> "none"]
               /\ semFlags = [p \in SemProcs |-> "INTERRUPTED"]
               /\ sem_timer_list = <<>>
               /\ semTimeout = [p \in SemProcs |-> 0]
               /\ semWaited = [p \in SemProcs |-> 0]
               /\ semExiting = [p \in SemProcs |-> FALSE]
               /\ result = [p \in SemProcs |-> "none"]
               /\ semPanic = FALSE

-----------------------------------------------------------------------------
\* trap, after a system call: a process that has been killed exits.
SemBackToUser(p) == IF semExiting[p] THEN "exited" ELSE "user"

\* sem_wait up to the sleep: ipc_sem_wait finds the semaphore if it is valid;
\* __down takes a token, or queues the caller and starts its timer.
UserSemWait(p, t) ==
  /\ ~semPanic /\ semPc[p] = "user"
  /\ \/ /\ ~sem.valid
        /\ result' = [result EXCEPT ![p] = "E_INVAL"]
        /\ semPc' = [semPc EXCEPT ![p] = SemBackToUser(p)]
        /\ UNCHANGED <<sem, sem_wait_state, semFlags, sem_timer_list, semTimeout, semWaited>>
     \/ /\ sem.valid /\ downTakes(sem)
        /\ sem' = down(sem, p)
        /\ result' = [result EXCEPT ![p] = "0"]
        /\ semPc' = [semPc EXCEPT ![p] = SemBackToUser(p)]
        /\ UNCHANGED <<sem_wait_state, semFlags, sem_timer_list, semTimeout, semWaited>>
     \/ /\ sem.valid /\ ~downTakes(sem)
        /\ sem' = down(sem, p)
        /\ semPc' = [semPc EXCEPT ![p] = "down"]
        /\ sem_wait_state' = [sem_wait_state EXCEPT ![p] = "USEM"]
        /\ semFlags' = [semFlags EXCEPT ![p] = "INTERRUPTED"]
        /\ sem_timer_list' = IF t = 0 THEN sem_timer_list ELSE add_timer(sem_timer_list, p, t)
        /\ semTimeout' = [semTimeout EXCEPT ![p] = t]
        /\ semWaited' = [semWaited EXCEPT ![p] = 0]
        /\ UNCHANGED result
  /\ UNCHANGED <<semExiting, semPanic>>

\* usem_down's locals are gone when it returns.
SemForget(p) == /\ semFlags' = [semFlags EXCEPT ![p] = "INTERRUPTED"]
                /\ semTimeout' = [semTimeout EXCEPT ![p] = 0]
                /\ semWaited' = [semWaited EXCEPT ![p] = 0]

\* __down after schedule, and usem_down's answer: the waiter deletes its timer
\* and, if nobody has, its place in the queue.
SemResumeKeepsTimer(p) ==
  /\ ~semPanic /\ semPc[p] = "down" /\ sem_wait_state[p] = "none"
  /\ sem' = [sem EXCEPT !.queue = wait_current_del(@, p)]
  /\ result' = [result EXCEPT ![p] =
                  IF semFlags[p] = "USEM" THEN "0"
                  ELSE IF semTimeout[p] # 0 /\ semWaited[p] >= semTimeout[p] THEN "E_TIMEOUT" ELSE "-1"]
  /\ semPc' = [semPc EXCEPT ![p] = SemBackToUser(p)]
  /\ SemForget(p)
  /\ UNCHANGED <<sem_wait_state, sem_timer_list, semExiting, semPanic>>

SemResume(p) ==
  /\ ~semPanic /\ semPc[p] = "down" /\ sem_wait_state[p] = "none"
  /\ sem_timer_list' = del_timer(sem_timer_list, p)
  /\ sem' = [sem EXCEPT !.queue = wait_current_del(@, p)]
  /\ result' = [result EXCEPT ![p] =
                  IF semFlags[p] = "USEM" THEN "0"
                  ELSE IF semTimeout[p] # 0 /\ semWaited[p] >= semTimeout[p] THEN "E_TIMEOUT" ELSE "-1"]
  /\ semPc' = [semPc EXCEPT ![p] = SemBackToUser(p)]
  /\ SemForget(p)
  /\ UNCHANGED <<sem_wait_state, semExiting, semPanic>>

\* sem_post: __up stores the token, or gives it to the first waiter.  It asserts
\* that this waiter is still asleep.
UserSemPostStale(p) ==
  /\ ~semPanic /\ semPc[p] = "user" /\ sem.value < MaxValue
  /\ sem.valid
  /\ sem' = up(sem)
  /\ sem_wait_state' = [q \in SemProcs |-> IF q \in upWakes(sem) THEN "none" ELSE sem_wait_state[q]]
  /\ semFlags' = [q \in SemProcs |-> IF q \in upWakes(sem) THEN "USEM" ELSE semFlags[q]]
  /\ result' = [result EXCEPT ![p] = "0"]
  /\ semPc' = [semPc EXCEPT ![p] = SemBackToUser(p)]
  /\ UNCHANGED <<sem_timer_list, semTimeout, semWaited, semExiting, semPanic>>

UserSemPost(p) ==
  /\ ~semPanic /\ semPc[p] = "user" /\ sem.value < MaxValue
  /\ \/ /\ ~sem.valid
        /\ result' = [result EXCEPT ![p] = "E_INVAL"]
        /\ semPc' = [semPc EXCEPT ![p] = SemBackToUser(p)]
        /\ UNCHANGED <<sem, sem_wait_state, semFlags, semPanic>>
     \/ /\ sem.valid /\ \A q \in upWakes(sem) : sem_wait_state[q] = "USEM"
        /\ sem' = up(sem)
        /\ sem_wait_state' = [q \in SemProcs |-> IF q \in upWakes(sem) THEN "none" ELSE sem_wait_state[q]]
        /\ semFlags' = [q \in SemProcs |-> IF q \in upWakes(sem) THEN "USEM" ELSE semFlags[q]]
        /\ result' = [result EXCEPT ![p] = "0"]
        /\ semPc' = [semPc EXCEPT ![p] = SemBackToUser(p)]
        /\ UNCHANGED semPanic
     \/ /\ sem.valid /\ \E q \in upWakes(sem) : sem_wait_state[q] # "USEM"
        /\ semPanic' = TRUE
        /\ UNCHANGED <<sem, sem_wait_state, semFlags, result, semPc>>
  /\ UNCHANGED <<sem_timer_list, semTimeout, semWaited, semExiting>>

\* sem_free: the semaphore becomes invalid and every waiter is woken.
UserSemFree(p) ==
  /\ ~semPanic /\ semPc[p] = "user"
  /\ sem' = IF sem.valid THEN free(sem) ELSE sem
  /\ sem_wait_state' = [q \in SemProcs |-> IF InQueue(q) THEN "none" ELSE sem_wait_state[q]]
  /\ semFlags' = [q \in SemProcs |-> IF InQueue(q) THEN "INTERRUPTED" ELSE semFlags[q]]
  /\ result' = [result EXCEPT ![p] = IF sem.valid THEN "0" ELSE "E_INVAL"]
  /\ semPc' = [semPc EXCEPT ![p] = SemBackToUser(p)]
  /\ UNCHANGED <<sem_timer_list, semTimeout, semWaited, semExiting, semPanic>>

\* do_kill: WT_USEM can be interrupted, so a sleeping victim is woken.
SemKill(p, victim) ==
  /\ ~semPanic /\ semPc[p] = "user" /\ p # victim /\ semPc[victim] # "exited"
  /\ semExiting' = [semExiting EXCEPT ![victim] = TRUE]
  /\ sem_wait_state' = [sem_wait_state EXCEPT ![victim] = "none"]
  /\ semPc' = [semPc EXCEPT ![p] = SemBackToUser(p)]
  /\ UNCHANGED <<sem, semFlags, sem_timer_list, semTimeout, semWaited, result, semPanic>>

\* do_exit, on its own account or because PF_EXITING is found set: put_sem_queue
\* drops the process's reference and leaves the value as it is.
SemExit(p) ==
  /\ ~semPanic /\ semPc[p] = "user"
  /\ semPc' = [semPc EXCEPT ![p] = "exited"]
  /\ UNCHANGED <<sem, sem_wait_state, semFlags, sem_timer_list, semTimeout, semWaited, semExiting, result, semPanic>>

\* The timer interrupt.
SemTick ==
  LET S == {firedProcs(sem_timer_list)[i] : i \in DOMAIN firedProcs(sem_timer_list)}
  IN  /\ ~semPanic
      /\ sem_timer_list' = run_timer_list(sem_timer_list)
      /\ sem_wait_state' = [p \in SemProcs |-> IF p \in S THEN "none" ELSE sem_wait_state[p]]
      /\ semWaited' = [p \in SemProcs |-> IF semPc[p] = "down" /\ semWaited[p] < semTimeout[p]
                                          THEN semWaited[p] + 1 ELSE semWaited[p]]
      /\ UNCHANGED <<sem, semPc, semFlags, semTimeout, semExiting, result, semPanic>>

-----------------------------------------------------------------------------
SemCall(p) == \/ UserSemPost(p) \/ UserSemFree(p) \/ SemExit(p)
              \/ \E t \in 0 .. SemMaxTimeout : UserSemWait(p, t)
              \/ \E victim \in SemProcs : SemKill(p, victim)

UserSemNext == SemTick \/ \E p \in SemProcs : SemResume(p) \/ SemCall(p)

UserSemSpec == UserSemInit /\ [][UserSemNext]_semVars

-----------------------------------------------------------------------------
\* Type correctness.
UserSemTypeOK == /\ sem \in SemRec(SemProcs) /\ sem.value <= MaxValue + InitValue
                 /\ semPc \in [SemProcs -> {"user", "down", "exited"}]
                 /\ sem_wait_state \in [SemProcs -> {"none", "USEM"}]
                 /\ semFlags \in [SemProcs -> {"USEM", "INTERRUPTED"}]
                 /\ sem_timer_list \in Seq(Timer(SemProcs))
                 /\ semTimeout \in [SemProcs -> 0 .. SemMaxTimeout]
                 /\ semWaited \in [SemProcs -> 0 .. SemMaxTimeout]
                 /\ semExiting \in [SemProcs -> BOOLEAN]
                 /\ result \in [SemProcs -> {"none", "0", "-1", "E_TIMEOUT", "E_INVAL"}]
                 /\ semPanic \in BOOLEAN

\* The wait_t and the timer_t on a kernel stack are linked from nowhere once
\* sem_wait has returned, whoever woke the process and in whatever order the
\* post, the timeout, the kill and the free came; and a process that sleeps is
\* always in the queue, so that a post can reach it.
SemNoDangling ==
  \A p \in SemProcs :
    /\ semPc[p] # "down" => ~HasTimer(sem_timer_list, p) /\ ~InQueue(p)
    /\ sem_wait_state[p] = "USEM" => semPc[p] = "down" /\ InQueue(p) /\ sem.valid

\* A waiter's timer is never early, late or lost, whatever other timers are
\* started, stopped or fire around it: it is due when the rest of the timeout
\* has passed, and a waiter without one asked for none.
TimeoutIsExact ==
  \A p \in SemProcs : sem_wait_state[p] = "USEM" =>
    DueIn(sem_timer_list, p) = IF semTimeout[p] = 0 THEN 0 ELSE semTimeout[p] - semWaited[p]

\* sem_wait tells why it failed: E_TIMEOUT after the whole timeout, -1 only if
\* the process is being killed or the semaphore has been freed.
HonestStep ==
  \A p \in SemProcs : semPc[p] = "down" /\ semPc'[p] # "down" =>
    /\ result'[p] = "E_TIMEOUT" => semTimeout[p] # 0 /\ semWaited[p] = semTimeout[p]
    /\ result'[p] = "-1" => semExiting[p] \/ ~sem.valid

\* The semaphore as its callers know it: a waiter that was woken by its timer
\* or by do_kill does not count any more, though it is still linked.
CalledSem == [sem EXCEPT !.queue = Kept(@, {p \in SemProcs : sem_wait_state[p] = "USEM"})]
CalledState == [p \in SemProcs |->
                  IF semPc[p] # "down" THEN "out"
                  ELSE IF sem_wait_state[p] = "USEM" THEN "waiting"
                  ELSE IF semFlags[p] = "USEM" THEN "granted" ELSE "failed"]

\* No token is lost, made up or given to a waiter that gave up, and waiters are
\* served in order.
Called == INSTANCE Semaphore WITH Procs <- SemProcs, sem <- CalledSem, st <- CalledState

\* A user semaphore does what Semaphore promises its callers, and a sem_wait
\* that fails tells why.
SemaphoreSpec == /\ Called!Init /\ [][UNCHANGED semVars \/ Called!Next]_(Called!vars)
                 /\ [][HonestStep]_semVars

\* sem.c:70: assert(wait->proc->wait_state == wait_state).
WaiterStillWaits == ~semPanic

\* sem_wait leaves nothing behind on a stack, and its timeouts are exact.
UserSemSound == UserSemTypeOK /\ SemNoDangling /\ TimeoutIsExact
=============================================================================
