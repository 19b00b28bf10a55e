----------------------------- MODULE RuntimeNote ----------------------------
(***************************************************************************)
(* Event notifications and user-level semaphores of the Go runtime's ucore *)
(* port (patch/src/pkg/runtime/ucore/thread.c): noteclear, notesleep,      *)
(* notewakeup, usemacquire and usemrelease.  The note is used round after  *)
(* round as proc.c uses m->havenextg and sched.stopped: it is cleared, the *)
(* sleepers go to sleep on it and one waker wakes it once.  A waker of an  *)
(* old round may still be inside usemrelease in the next one.              *)
(***************************************************************************)
EXTENDS Integers, FiniteSets, KSem

CONSTANTS Sleepers,   \* the threads that call notesleep
          Wakers,     \* the threads that call notewakeup
          Half,       \* half the number of values of Usema.u: 2^31
          MaxTokens,  \* bound: no new round once the semaphore stores this much
          MaxSurplus  \* bound: no new round once u has reached this

\* What the constants have to be.
NoteAssumption == /\ IsFiniteSet(Sleepers) /\ IsFiniteSet(Wakers)
                  /\ Sleepers \cap Wakers = {}
                  /\ Half \in Nat \ {0} /\ MaxTokens \in Nat /\ MaxSurplus \in Nat

VARIABLES
  wakeup,   \* n->wakeup
  u,        \* n->sema.u as an unsigned number below 2 * Half
  k,        \* n->sema.k: 0, 1 once initsema has filled it in, or ENoMem
  noteSem,  \* the kernel semaphore k names
  notePc,   \* where each thread is
  armed     \* this round has not been given to a waker yet

noteVars == <<wakeup, u, k, noteSem, notePc, armed>>

Threads == Sleepers \cup Wakers

\* (int32)x.
Int32(x) == IF x >= Half THEN x - 2 * Half ELSE x

NoteInit == /\ wakeup = 0 /\ u = 0 /\ k = 0
            /\ noteSem = sem_init(0)
            /\ notePc = [t \in Threads |-> "out"]
            /\ armed = FALSE

-----------------------------------------------------------------------------
\* noteclear, by one of the threads that will sleep; it is called again only
\* after the sleepers of the last round have returned.
NoteClear ==
  /\ \A s \in Sleepers : notePc[s] = "out"
  /\ noteSem.value < MaxTokens /\ Int32(u) < MaxSurplus
  /\ wakeup' = 0
  /\ armed' = TRUE
  /\ notePc' = [t \in Threads |-> IF t \in Sleepers THEN "test" ELSE notePc[t]]
  /\ UNCHANGED <<u, k, noteSem>>

\* notesleep's while(!n->wakeup).
NoteSleep(t) ==
  /\ notePc[t] = "test"
  /\ notePc' = [notePc EXCEPT ![t] = IF wakeup = 1 THEN "out" ELSE "acquire"]
  /\ UNCHANGED <<wakeup, u, k, noteSem, armed>>

\* usemacquire's xadd(&s->u, -1): a negative result means wait in the kernel.
UsemAcquire(t) ==
  /\ notePc[t] = "acquire"
  /\ u' = (u - 1) % (2 * Half)
  /\ notePc' = [notePc EXCEPT ![t] = IF Int32(u') < 0 THEN "initwait" ELSE "test"]
  /\ UNCHANGED <<wakeup, k, noteSem, armed>>

\* A thread takes this round and will call notewakeup (proc.c hands it the m
\* under the scheduler's lock, so one thread per round).
TakeRound(t) ==
  /\ notePc[t] = "out" /\ armed
  /\ armed' = FALSE
  /\ notePc' = [notePc EXCEPT ![t] = "wake"]
  /\ UNCHANGED <<wakeup, u, k, noteSem>>

\* notewakeup's n->wakeup = 1.
NoteWakeup(t) ==
  /\ notePc[t] = "wake"
  /\ wakeup' = 1
  /\ notePc' = [notePc EXCEPT ![t] = "release"]
  /\ UNCHANGED <<u, k, noteSem, armed>>

\* usemrelease's xadd(&s->u, 1): a result of 0 or less means somebody waits.
ReleaseUnsigned(t) ==
  /\ notePc[t] = "release"
  /\ u' = (u + 1) % (2 * Half)
  /\ notePc' = [notePc EXCEPT ![t] = IF u' <= 0 THEN "initpost" ELSE "out"]
  /\ UNCHANGED <<wakeup, k, noteSem, armed>>

UsemRelease(t) ==
  /\ notePc[t] = "release"
  /\ u' = (u + 1) % (2 * Half)
  /\ notePc' = [notePc EXCEPT ![t] = IF Int32(u') <= 0 THEN "initpost" ELSE "out"]
  /\ UNCHANGED <<wakeup, k, noteSem, armed>>

\* if(s->k == 0) initsema(&s->k, 0): when it returns k has been filled in, by
\* this thread or by the one that won the race (RuntimeLock has the race).
InitSema(t) ==
  /\ \/ notePc[t] = "initwait" /\ notePc' = [notePc EXCEPT ![t] = "wait"]
     \/ notePc[t] = "initpost" /\ notePc' = [notePc EXCEPT ![t] = "post"]
  /\ k' \in IF k = 0 THEN {1, ENoMem} ELSE {k}
  /\ UNCHANGED <<wakeup, u, noteSem, armed>>

\* usemacquire's sem_wait(s->k, 0).
SemWait(t) ==
  /\ notePc[t] = "wait"
  /\ noteSem' = IF k = 1 THEN down(noteSem, t) ELSE noteSem
  /\ notePc' = [notePc EXCEPT ![t] = IF k = 1 /\ ~downTakes(noteSem) THEN "asleep" ELSE "test"]
  /\ UNCHANGED <<wakeup, u, k, armed>>

\* usemrelease's sem_post(s->k).
PostDropped(t) ==
  /\ notePc[t] = "post"
  /\ noteSem' = IF k = 1 /\ noteSem.queue # <<>> THEN up(noteSem) ELSE noteSem
  /\ notePc' = [x \in Threads |-> IF x = t THEN "out"
                                  ELSE IF k = 1 /\ x \in upWakes(noteSem) THEN "woken" ELSE notePc[x]]
  /\ UNCHANGED <<wakeup, u, k, armed>>

SemPost(t) ==
  /\ notePc[t] = "post"
  /\ noteSem' = IF k = 1 THEN up(noteSem) ELSE noteSem
  /\ notePc' = [x \in Threads |-> IF x = t THEN "out"
                                  ELSE IF k = 1 /\ x \in upWakes(noteSem) THEN "woken" ELSE notePc[x]]
  /\ UNCHANGED <<wakeup, u, k, armed>>

\* sem_wait returns to usemacquire, which returns to notesleep's loop.
NoteResume(t) ==
  /\ notePc[t] = "woken"
  /\ notePc' = [notePc EXCEPT ![t] = "test"]
  /\ UNCHANGED <<wakeup, u, k, noteSem, armed>>

-----------------------------------------------------------------------------
SleeperStep(t) == \/ NoteSleep(t) \/ UsemAcquire(t) \/ InitSema(t)
                  \/ SemWait(t) \/ NoteResume(t)
WakerStep(t) == TakeRound(t) \/ NoteWakeup(t) \/ UsemRelease(t) \/ InitSema(t) \/ SemPost(t)

NoteNext == \/ NoteClear
            \/ \E t \in Sleepers : SleeperStep(t)
            \/ \E t \in Wakers : WakerStep(t)

NoteSpec == NoteInit /\ [][NoteNext]_noteVars

\* Every runnable thread runs, and every round finds a waker.
WakerWork(t) == NoteWakeup(t) \/ UsemRelease(t) \/ InitSema(t) \/ SemPost(t)
NoteFairSpec == /\ NoteSpec
                /\ \A t \in Sleepers : WF_noteVars(SleeperStep(t))
                /\ \A t \in Wakers : WF_noteVars(WakerWork(t))
                /\ WF_noteVars(\E t \in Wakers : TakeRound(t))

-----------------------------------------------------------------------------
Waking == {w \in Wakers : notePc[w] # "out"}

\* Type correctness.
NoteTypeOK == /\ wakeup \in {0, 1} /\ k \in {0, 1, ENoMem}
              /\ u \in 0 .. 2 * Half - 1
              /\ noteSem \in SemRec(Threads)
              /\ notePc \in [Threads -> {"out", "test", "acquire", "initwait", "wait", "asleep", "woken",
                                         "wake", "release", "initpost", "post"}]
              /\ armed \in BOOLEAN

\* notesleep does not return before this round's notewakeup: what an earlier
\* round left in u or in the semaphore only sends the loop round once more.
ReturnStep == \A s \in Sleepers : notePc[s] # "out" /\ notePc'[s] = "out" =>
                ~armed /\ \A w \in Wakers : notePc[w] # "wake"

\* No wake-up is lost: once notewakeup has returned, its one sleeper is not
\* left asleep in the kernel.
NoneLeftAsleep ==
  wakeup = 1 /\ Waking = {} => \A s \in Sleepers : notePc[s] # "asleep"

\* The two halves of the semaphore agree: the posts that are stored or about to
\* come cover the kernel waits, begun or about to begin, but for as many as u is
\* below zero.  (They are equal until u wraps; from then on tokens are left over.)
PostsCoverWaits ==
  LET At(S) == Cardinality({t \in Threads : notePc[t] \in S})
      waits == Len(noteSem.queue) + At({"initwait", "wait"})
      posts == noteSem.value + At({"initpost", "post"})
  IN  k # ENoMem => posts >= waits + IF Int32(u) < 0 THEN Int32(u) ELSE 0

\* runtime.h:496-497: "once notewakeup has been called, all the notesleeps will
\* return".
AllSleepersReturn ==
  \A s \in Sleepers : (wakeup = 1 /\ notePc[s] # "out") ~> notePc[s] = "out"

\* No wake-up of a note is lost, and the counter in user space agrees with the
\* semaphore in the kernel;
NoteKept == NoteTypeOK /\ NoneLeftAsleep /\ PostsCoverWaits

\* and notesleep does not return before this round's notewakeup.
NoteSound == NoteKept /\ [][NoteKept' /\ ReturnStep]_noteVars
=============================================================================
