---------------------------- MODULE KernelProofs ----------------------------
(***************************************************************************)
(* What threads and processes wait for and are named by, for all sizes: no *)
(* wake-up of the note a runtime thread sleeps on through a kernel         *)
(* semaphore is lost, with one sleeper, which is how the runtime uses a    *)
(* note; get_pid never hands out an identifier that is in use; and the     *)
(* console gives the keys to its readers in order and leaves none asleep   *)
(* beside one.                                                             *)
(***************************************************************************)
EXTENDS RuntimeNote, Pid, Stdin, FiniteSetTheorems, SequenceTheorems, TLAPS

CONSTANT Main  \* the thread that sleeps

\* Only one thread sleeps on a note.
OneSleeper == Sleepers = {Main}

-----------------------------------------------------------------------------
\* Posts are the tokens stored or about to come, Waits is 1 while the sleeper is
\* in the kernel or about to enter it.
Posting == {p \in Wakers : notePc[p] \in {"initpost", "post"}}
Posts == noteSem.value + Cardinality(Posting)
Waits == IF notePc[Main] \in {"initwait", "wait", "asleep"} THEN 1 ELSE 0

\* The sleeper alone queues in the kernel, and not beside a token; a round has
\* one waker, and is over only when it has written wakeup; and once every waker
\* has released, a sleeper that has not seen wakeup yet finds either u above
\* zero or a token.
NoteInv ==
  /\ NoteTypeOK
  /\ notePc[Main] \in {"out", "test", "acquire", "initwait", "wait", "asleep", "woken"}
  /\ \A p \in Wakers : notePc[p] \in {"out", "wake", "release", "initpost", "post"}
  /\ noteSem.queue = IF notePc[Main] = "asleep" THEN <<Main>> ELSE <<>>
  /\ notePc[Main] = "asleep" => k = 1 /\ noteSem.value = 0
  /\ notePc[Main] = "wait" \/ (\E p \in Wakers : notePc[p] = "post") => k # 0
  /\ armed \/ (\E p \in Wakers : notePc[p] = "wake") => wakeup = 0 /\ notePc[Main] # "out"
  /\ \A p, q \in Wakers : notePc[p] = "wake" => ~armed /\ (notePc[q] = "wake" => p = q)
  /\ k # ENoMem =>
       /\ Posts >= Waits + IF Int32(u) < 0 THEN Int32(u) ELSE 0
       /\ wakeup = 1 /\ (\A p \in Wakers : notePc[p] \notin {"wake", "release"}) =>
            /\ notePc[Main] = "acquire" => Int32(u) > 0 \/ Posts > 0
            /\ Waits = 1 => Posts > 0

\* One up and one down on a counter that wraps.
LEMMA WrapAround ==
  ASSUME NEW h \in Nat \ {0}, NEW x \in 0 .. 2 * h - 1
  PROVE  /\ (x + 1) % (2 * h) = IF x = 2 * h - 1 THEN 0 ELSE x + 1
         /\ (x - 1) % (2 * h) = IF x = 0 THEN 2 * h - 1 ELSE x - 1
OBVIOUS

\* How the posts change with the wakers that move.
LEMMA PostingMoves ==
  ASSUME NoteAssumption, OneSleeper
  PROVE  /\ Cardinality(Posting) \in Nat
         /\ \A p \in Posting : Cardinality(Posting) > 0
         /\ (\A p \in Wakers : notePc'[p] = notePc[p]) => Posting' = Posting
         /\ \A p \in Wakers : (\A q \in Wakers \ {p} : notePc'[q] = notePc[q]) =>
              /\ p \in Posting /\ p \in Posting' => Posting' = Posting
              /\ p \notin Posting /\ p \notin Posting' => Posting' = Posting
              /\ p \notin Posting /\ p \in Posting' =>
                   Cardinality(Posting') = Cardinality(Posting) + 1
              /\ p \in Posting /\ p \notin Posting' =>
                   Cardinality(Posting') = Cardinality(Posting) - 1
<1>1. IsFiniteSet(Wakers)
  BY DEF NoteAssumption
<1>2. IsFiniteSet(Posting)
  BY <1>1, FS_Subset DEF Posting
<1>3. /\ Cardinality(Posting) \in Nat
      /\ \A p \in Posting : Cardinality(Posting) > 0
  BY <1>2, FS_CardinalityType, FS_EmptySet
<1>4. (\A p \in Wakers : notePc'[p] = notePc[p]) => Posting' = Posting
  BY DEF Posting
<1>5. ASSUME NEW p \in Wakers, \A q \in Wakers \ {p} : notePc'[q] = notePc[q]
      PROVE  /\ p \in Posting /\ p \in Posting' => Posting' = Posting
             /\ p \notin Posting /\ p \notin Posting' => Posting' = Posting
             /\ p \notin Posting /\ p \in Posting' =>
                  Cardinality(Posting') = Cardinality(Posting) + 1
             /\ p \in Posting /\ p \notin Posting' =>
                  Cardinality(Posting') = Cardinality(Posting) - 1
  <2>1. /\ p \in Posting' => Posting' = Posting \union {p}
        /\ p \notin Posting' => Posting' = Posting \ {p}
    BY <1>5 DEF Posting
  <2> QED
    BY <1>2, <2>1, FS_AddElement, FS_RemoveElement
<1> QED
  BY <1>3, <1>4, <1>5

\* A cleared note that nobody uses.
LEMMA NoteStarts == ASSUME NoteAssumption, OneSleeper, NoteInit PROVE NoteInv
<1> USE DEF NoteAssumption, NoteInit, Threads, OneSleeper, sem_init
<1>1. Main \notin Wakers /\ Half \in Nat \ {0}
  OBVIOUS
<1>2. Posting = {}
  BY <1>1 DEF Posting
<1>3. Posts = 0 /\ Waits = 0
  BY <1>2, FS_EmptySet DEF Posts, Waits
<1>4. Int32(u) = 0
  BY <1>1 DEF Int32
<1>5. noteSem \in SemRec(Threads)
  BY DEF SemRec
<1>6. NoteTypeOK
  <2>1. wakeup \in {0, 1} /\ k \in {0, 1, ENoMem} /\ armed \in BOOLEAN
    BY Zenon
  <2>2. u \in 0 .. 2 * Half - 1
    BY <1>1
  <2>3. notePc \in [Threads -> {"out", "test", "acquire", "initwait", "wait", "asleep", "woken",
                                  "wake", "release", "initpost", "post"}]
    OBVIOUS
  <2> QED
    BY <1>5, <2>1, <2>2, <2>3 DEF NoteTypeOK
<1> QED
  BY <1>1, <1>3, <1>4, <1>6 DEF NoteInv

\* A queue of one.
LEMMA QueueOfOne ==
  ASSUME NEW T, NEW t \in T
  PROVE  /\ Append(<<>>, t) = <<t>> /\ <<t>> \in Seq(T) /\ <<>> \in Seq(T)
         /\ Tail(<<t>>) = <<>> /\ <<t>> # <<>> /\ Len(<<t>>) = 1 /\ Len(<<>>) = 0
OBVIOUS

\* The steps of the sleeper,
LEMMA NoteSleeperStep ==
  ASSUME NoteAssumption, OneSleeper, NoteInv, SleeperStep(Main)
  PROVE  NoteInv'
<1> USE DEF NoteInv, NoteTypeOK, Posts, Waits, Int32
<1>1. Main \notin Wakers /\ Half \in Nat \ {0} /\ Threads = {Main} \union Wakers
  BY DEF NoteAssumption, OneSleeper, Threads
<1> USE <1>1
<1>2. (\A p \in Wakers : notePc'[p] = notePc[p]) => Posting' = Posting
  BY PostingMoves
<1>3. Cardinality(Posting) \in Nat /\ noteSem.value \in Nat
  BY PostingMoves DEF SemRec
<1>4. CASE NoteSleep(Main)
  <2>1. Posting' = Posting
    BY <1>2, <1>4 DEF NoteSleep
  <2> QED
    BY <1>3, <1>4, <2>1 DEF NoteSleep
<1>5. CASE UsemAcquire(Main)
  <2>1. Posting' = Posting
    BY <1>2, <1>5 DEF UsemAcquire
  <2>2. u' = IF u = 0 THEN 2 * Half - 1 ELSE u - 1
    BY <1>5, WrapAround DEF UsemAcquire
  <2> QED
    BY <1>3, <1>5, <2>1, <2>2 DEF UsemAcquire
<1>6. CASE InitSema(Main)
  <2>1. Posting' = Posting
    BY <1>2, <1>6, SMTT(30) DEF InitSema
  <2> QED
    BY <1>3, <1>6, <2>1 DEF InitSema, ENoMem
<1>7. CASE SemWait(Main)
  <2>1. Posting' = Posting
    BY <1>2, <1>7 DEF SemWait
  <2>2. k \in {1, ENoMem} /\ noteSem.queue = <<>>
    BY <1>7 DEF SemWait
  <2>3. CASE k = 1 /\ noteSem.value > 0
    <3>1. /\ noteSem' \in SemRec(Threads) /\ noteSem'.queue = <<>> /\ noteSem'.value = noteSem.value - 1
          /\ notePc' = [notePc EXCEPT ![Main] = "test"] /\ UNCHANGED <<wakeup, u, k, armed>>
      BY <1>7, <2>2, <2>3 DEF SemWait, down, downTakes, SemRec
    <3> QED
      BY <1>3, <2>1, <2>3, <3>1, <1>7 DEF SemWait
  <2>4. CASE k = 1 /\ ~(noteSem.value > 0)
    <3>1. Append(noteSem.queue, Main) = <<Main>> /\ <<Main>> \in Seq(Threads)
      BY <2>2, QueueOfOne, Zenon
    <3>2. noteSem' = [noteSem EXCEPT !.queue = <<Main>>]
      BY <1>7, <2>4, <3>1 DEF SemWait, down, downTakes
    <3>3. noteSem \in SemRec(Threads) /\ noteSem.value = 0
      BY <1>3, <2>4
    <3>4. noteSem' \in SemRec(Threads) /\ noteSem'.queue = <<Main>> /\ noteSem'.value = noteSem.value
      <4> HIDE DEF NoteInv, NoteTypeOK, Posts, Waits, Int32
      <4> QED
        BY <3>1, <3>2, <3>3, Zenon DEF SemRec
    <3>5. notePc' = [notePc EXCEPT ![Main] = "asleep"] /\ UNCHANGED <<wakeup, u, k, armed>>
      BY <1>7, <2>4, Zenon DEF SemWait, downTakes
    <3> QED
      BY <1>3, <1>7, <2>1, <2>4, <3>3, <3>4, <3>5 DEF SemWait
  <2>5. CASE k = ENoMem
    BY <1>3, <1>7, <2>1, <2>5 DEF SemWait, ENoMem
  <2> QED
    BY <2>2, <2>3, <2>4, <2>5
<1>8. CASE NoteResume(Main)
  <2>1. Posting' = Posting
    BY <1>2, <1>8 DEF NoteResume
  <2> QED
    BY <1>3, <1>8, <2>1 DEF NoteResume
<1> QED
  BY <1>4, <1>5, <1>6, <1>7, <1>8, Zenon DEF SleeperStep

\* and the steps of a waker.
LEMMA NoteWakerStep ==
  ASSUME NoteAssumption, OneSleeper, NoteInv, NEW p \in Wakers, WakerStep(p)
  PROVE  NoteInv'
<1> USE DEF NoteInv, NoteTypeOK, Posts, Waits, Int32
<1>1. Main \notin Wakers /\ Half \in Nat \ {0} /\ Threads = {Main} \union Wakers
  BY DEF NoteAssumption, OneSleeper, Threads
<1> USE <1>1
<1>2. (\A q \in Wakers \ {p} : notePc'[q] = notePc[q]) =>
        /\ p \in Posting /\ p \in Posting' => Posting' = Posting
        /\ p \notin Posting /\ p \notin Posting' => Posting' = Posting
        /\ p \notin Posting /\ p \in Posting' => Cardinality(Posting') = Cardinality(Posting) + 1
        /\ p \in Posting /\ p \notin Posting' => Cardinality(Posting') = Cardinality(Posting) - 1
  BY PostingMoves
<1>3. /\ Cardinality(Posting) \in Nat /\ noteSem.value \in Nat
      /\ p \in Posting => Cardinality(Posting) > 0
  BY PostingMoves DEF SemRec
<1>4. CASE TakeRound(p)
  <2>1. Posting' = Posting
    BY <1>2, <1>4 DEF TakeRound, Posting
  <2> QED
    BY <1>3, <1>4, <2>1, Zenon DEF TakeRound
<1>5. CASE NoteWakeup(p)
  <2>1. Posting' = Posting
    BY <1>2, <1>5, SMTT(30) DEF NoteWakeup, Posting
  <2> QED
    BY <1>3, <1>5, <2>1 DEF NoteWakeup
<1>6. CASE UsemRelease(p)
  <2>1. u' = IF u = 2 * Half - 1 THEN 0 ELSE u + 1
    BY <1>6, WrapAround DEF UsemRelease
  <2>2. CASE Int32(u') <= 0
    <3>1. /\ notePc[p] = "release" /\ notePc' = [notePc EXCEPT ![p] = "initpost"]
          /\ UNCHANGED <<wakeup, k, noteSem, armed>>
      <4>1. /\ notePc[p] = "release" /\ UNCHANGED <<wakeup, k, noteSem, armed>>
            /\ notePc' = [notePc EXCEPT ![p] = IF Int32(u') <= 0 THEN "initpost" ELSE "out"]
        BY <1>6, Zenon DEF UsemRelease
      <4>2. notePc' = [notePc EXCEPT ![p] = "initpost"]
        BY <2>2, <4>1, Zenon
      <4> QED
        BY <4>1, <4>2, Zenon
    <3>2. Cardinality(Posting') = Cardinality(Posting) + 1
      <4>1. notePc'[p] = "initpost" /\ \A q \in Wakers \ {p} : notePc'[q] = notePc[q]
        BY <3>1
      <4>2. p \notin Posting /\ p \in Posting'
        BY <3>1, <4>1 DEF Posting
      <4> QED
        BY <1>2, <4>1, <4>2, Zenon
    <3>3. /\ notePc' \in [Threads -> {"out", "test", "acquire", "initwait", "wait", "asleep", "woken",
                                     "wake", "release", "initpost", "post"}]
          /\ notePc'[p] = "initpost" /\ notePc'[Main] = notePc[Main]
          /\ \A q \in Wakers \ {p} : notePc'[q] = notePc[q]
      BY <3>1
    <3>4. NoteTypeOK'
      BY <2>1, <3>1, <3>3
    <3>5. Int32(u) \in Int /\ Int32(u') \in Int /\ (Int32(u) < 0 => Int32(u') = Int32(u) + 1)
      BY <2>1, <2>2
    <3>6. Posts' = Posts + 1 /\ Waits' = Waits /\ Posts \in Nat
      BY <1>3, <3>1, <3>2, <3>3
    <3>7. Posts' >= Waits' + IF Int32(u') < 0 THEN Int32(u') ELSE 0
      BY <1>3, <2>2, <3>1, <3>5, <3>6
    <3>8. Posts' > 0
      BY <3>6
    <3> HIDE DEF Posts, Waits, Int32, NoteTypeOK
    <3> QED
      BY <3>1, <3>3, <3>4, <3>7, <3>8
  <2>3. CASE ~(Int32(u') <= 0)
    <3>1. Posting' = Posting
      BY <1>2, <1>6, <2>3 DEF UsemRelease, Posting
    <3>2. /\ notePc[p] = "release" /\ notePc' = [notePc EXCEPT ![p] = "out"]
          /\ UNCHANGED <<wakeup, k, noteSem, armed>>
      BY <1>6, <2>3, Zenon DEF UsemRelease
    <3> QED
      BY <1>3, <2>1, <2>3, <3>1, <3>2, SMTT(30)
  <2> QED
    BY <2>2, <2>3
<1>7. CASE InitSema(p)
  <2>1. Posting' = Posting
    BY <1>2, <1>7 DEF InitSema, Posting
  <2>2. notePc[p] = "initpost" /\ notePc' = [notePc EXCEPT ![p] = "post"]
    BY <1>7 DEF InitSema
  <2>3. /\ k' \in {1, ENoMem} /\ (k # 0 => k' = k)
        /\ UNCHANGED <<wakeup, u, noteSem, armed>>
    BY <1>7 DEF InitSema
  <2> QED
    BY <1>3, <2>1, <2>2, <2>3 DEF ENoMem
<1>8. CASE SemPost(p)
  <2>1. /\ notePc[p] = "post" /\ k \in {1, ENoMem} /\ UNCHANGED <<wakeup, u, k, armed>>
        /\ noteSem' = IF k = 1 THEN up(noteSem) ELSE noteSem
    BY <1>8 DEF SemPost
  <2>2. notePc' = [x \in Threads |-> IF x = p THEN "out"
                                       ELSE IF k = 1 /\ x = Main /\ notePc[Main] = "asleep" THEN "woken"
                                       ELSE notePc[x]]
    BY <1>8 DEF SemPost, upWakes
  <2>3. Cardinality(Posting') = Cardinality(Posting) - 1
    BY <1>2, <2>1, <2>2, SMTT(30) DEF Posting
  <2>4. CASE k = 1 /\ notePc[Main] = "asleep"
    <3>1. noteSem.queue = <<Main>> /\ Tail(noteSem.queue) = <<>> /\ noteSem.queue # <<>>
      BY <2>4, QueueOfOne
    <3>2. noteSem' = [noteSem EXCEPT !.queue = <<>>]
      BY <2>1, <2>4, <3>1 DEF up
    <3>3. noteSem \in SemRec(Threads) /\ <<>> \in Seq(Threads)
      BY QueueOfOne
    <3>4. noteSem' \in SemRec(Threads) /\ noteSem'.queue = <<>> /\ noteSem'.value = noteSem.value
      <4> HIDE DEF NoteInv, NoteTypeOK, Posts, Waits, Int32
      <4> QED
        BY <3>2, <3>3, Zenon DEF SemRec
    <3> QED
      BY <1>3, <2>1, <2>2, <2>3, <2>4, <3>4, SMTT(30)
  <2>5. CASE k = 1 /\ notePc[Main] # "asleep"
    <3>1. noteSem' \in SemRec(Threads) /\ noteSem'.queue = <<>> /\ noteSem'.value = noteSem.value + 1
      BY <2>1, <2>5 DEF up, SemRec
    <3> QED
      BY <1>3, <2>1, <2>2, <2>3, <2>5, <3>1
  <2>6. CASE k = ENoMem
    BY <1>3, <2>1, <2>2, <2>6 DEF ENoMem
  <2> QED
    BY <2>1, <2>4, <2>5, <2>6, Zenon
<1> QED
  BY <1>4, <1>5, <1>6, <1>7, <1>8, Zenon DEF WakerStep

\* Each step keeps the invariant, and notesleep returns only in a round that its
\* waker has woken.
LEMMA NoteStep ==
  ASSUME NoteAssumption, OneSleeper, NoteInv, [NoteNext]_noteVars
  PROVE  NoteInv' /\ ReturnStep
<1>1. CASE NoteClear
  <2>1. Posting' = Posting /\ notePc'[Main] = "test" /\ Main \notin Wakers
    BY <1>1 DEF NoteClear, NoteAssumption, NoteInv, Threads, OneSleeper, Posting
  <2>2. ReturnStep
    BY <2>1 DEF ReturnStep, OneSleeper
  <2>3. NoteInv'
    <3>1. \A p \in Wakers : notePc'[p] = notePc[p]
      BY <1>1, <2>1 DEF NoteClear, Threads, OneSleeper
    <3>2. /\ notePc[Main] = "out" /\ wakeup' = 0 /\ armed' = TRUE /\ UNCHANGED <<u, k, noteSem>>
          /\ NoteTypeOK'
      BY <1>1 DEF NoteClear, Threads, OneSleeper, NoteInv, NoteTypeOK
    <3>3. Posts' = Posts /\ Waits' = 0 /\ Waits = 0 /\ Int32(u') = Int32(u)
      BY <2>1, <3>2 DEF Posts, Waits
    <3> QED
      BY <2>1, <3>1, <3>2, <3>3 DEF NoteInv
  <2> QED
    BY <2>2, <2>3
<1>2. CASE SleeperStep(Main)
  <2>1. ReturnStep
    BY <1>2 DEF ReturnStep, NoteInv, NoteTypeOK, SleeperStep, NoteSleep, UsemAcquire,
                InitSema, SemWait, NoteResume, Threads, OneSleeper
  <2> QED
    BY <1>2, <2>1, NoteSleeperStep
<1>3. ASSUME NEW p \in Wakers, WakerStep(p) PROVE NoteInv' /\ ReturnStep
  <2>1. ReturnStep
    BY <1>3 DEF ReturnStep, NoteInv, NoteTypeOK, WakerStep, TakeRound, NoteWakeup,
                UsemRelease, InitSema, SemPost, Threads, OneSleeper, NoteAssumption
  <2> QED
    BY <1>3, <2>1, NoteWakerStep
<1>4. CASE UNCHANGED noteVars
  <2>1. ReturnStep
    BY <1>4, SMTT(30) DEF noteVars, ReturnStep
  <2>2. NoteInv'
    BY <1>4 DEF noteVars, NoteInv, NoteTypeOK, Posts, Posting, Waits, Int32
  <2> QED
    BY <2>1, <2>2
<1> QED
  BY <1>1, <1>2, <1>3, <1>4 DEF NoteNext, OneSleeper

\* What the invariant says of posts and waits is what PostsCoverWaits says.
LEMMA NoteIsCovered == ASSUME NoteAssumption, OneSleeper, NoteInv PROVE NoteKept
<1>1. Main \notin Wakers
  BY DEF NoteAssumption, OneSleeper
<1>2. NoneLeftAsleep
  <2> SUFFICES ASSUME wakeup = 1, Waking = {}, notePc[Main] = "asleep" PROVE FALSE
    BY DEF NoneLeftAsleep, OneSleeper
  <2>1. Posting = {} /\ \A p \in Wakers : notePc[p] \notin {"wake", "release"}
    BY DEF Waking, Posting, Threads, OneSleeper
  <2>2. Posts = 0 /\ k # ENoMem
    BY <2>1, FS_EmptySet DEF Posts, NoteInv, ENoMem
  <2> QED
    BY <2>1, <2>2 DEF NoteInv, Waits
<1>3. PostsCoverWaits
  <2> DEFINE Entering == {t \in Threads : notePc[t] \in {"initwait", "wait"}}
  <2>1. {t \in Threads : notePc[t] \in {"initpost", "post"}} = Posting
    BY <1>1 DEF Threads, OneSleeper, Posting, NoteInv
  <2>2. Entering = IF notePc[Main] \in {"initwait", "wait"} THEN {Main} ELSE {}
    BY <1>1 DEF Threads, OneSleeper, NoteInv
  <2>3. Len(noteSem.queue) + Cardinality(Entering) = Waits
    <3> HIDE DEF Entering
    <3>1. Len(noteSem.queue) = IF notePc[Main] = "asleep" THEN 1 ELSE 0
      <4>1. Len(<<>>) = 0 /\ Len(<<Main>>) = 1
        OBVIOUS
      <4> QED
        BY <4>1 DEF NoteInv
    <3>2. Cardinality({}) = 0 /\ Cardinality({Main}) = 1
      BY FS_EmptySet, FS_Singleton, Zenon
    <3>3. CASE notePc[Main] \in {"initwait", "wait"}
      BY <2>2, <3>1, <3>2, <3>3 DEF Waits
    <3>4. CASE notePc[Main] \notin {"initwait", "wait"}
      BY <2>2, <3>1, <3>2, <3>4 DEF Waits
    <3> QED
      BY <3>3, <3>4
  <2> QED
    BY <2>1, <2>3, Zenon DEF PostsCoverWaits, NoteInv, Posts
<1> QED
  BY <1>2, <1>3 DEF NoteKept, NoteInv

\* No wake-up of a note is lost and none is seen before it was given, for one
\* sleeper and any number of wakers, with the counter wrapping round and with
\* initsema failing.
THEOREM NoteIsSound ==
  ASSUME NoteAssumption, OneSleeper
  PROVE  NoteSpec => NoteSound
<1>1. NoteInit => NoteInv
  BY NoteStarts
<1>2. NoteInv /\ [NoteNext]_noteVars => NoteInv' /\ ReturnStep
  BY NoteStep
<1>3. NoteInv => NoteKept
  BY NoteIsCovered
<1> QED
  BY <1>1, <1>2, <1>3, PTL DEF NoteSpec, NoteSound

-----------------------------------------------------------------------------
(* The inductive invariant of get_pid, by parts. *)

\* The cache: outside get_pid nobody has an identifier between last_pid and
\* next_safe; inside, none of the processes that the walk has passed has one of
\* them, nor last_pid itself.
CacheOK ==
  /\ scanner = 0 => \A i \in 1 .. Len(proc_list) :
                      ~(last_pid < proc_list[i] /\ proc_list[i] < next_safe)
  /\ scanner # 0 => \A i \in 1 .. Len(proc_list) : i < le =>
                      ~(last_pid <= proc_list[i] /\ proc_list[i] < next_safe)

\* The forks under way are forks of live processes, the scan is one of them, and
\* its last_pid is below its next_safe, or it has only begun again.
ForksOK == /\ forking \subseteq Live
           /\ scanner # 0 => scanner \in forking /\ le \in 1 .. Len(proc_list) + 1
           /\ scanner # 0 => last_pid < next_safe

IInv == PidSound /\ CacheOK /\ ForksOK

\* A sequence has at most as many elements as places.
LEMMA LiveIsSmall ==
  ASSUME NEW s \in Seq(Int)
  PROVE  /\ IsFiniteSet({s[i] : i \in DOMAIN s})
         /\ Cardinality({s[i] : i \in DOMAIN s}) <= Len(s)
<1> DEFINE S == {s[i] : i \in DOMAIN s}
<1>1. Len(s) \in Nat /\ DOMAIN s = 1 .. Len(s)
  OBVIOUS
<1>2. IsFiniteSet(1 .. Len(s)) /\ Cardinality(1 .. Len(s)) = Len(s)
  <2> DEFINE n == Len(s)
  <2>1. n \in Nat
    BY <1>1
  <2> HIDE DEF n
  <2>2. /\ IsFiniteSet(1 .. n)
        /\ Cardinality(1 .. n) = IF 1 > n THEN 0 ELSE n - 1 + 1
    BY <2>1, FS_Interval
  <2>3. IsFiniteSet(1 .. n) /\ Cardinality(1 .. n) = n
    BY <2>1, <2>2
  <2> QED
    BY <2>3 DEF n
<1>3. s \in Surjection(1 .. Len(s), S)
  BY <1>1 DEF Surjection
<1> QED
  BY <1>2, <1>3, FS_Surjection

\* What type correctness says of the list.
LEMMA ListType ==
  ASSUME PidTypeOK, PidAssumption
  PROVE  /\ proc_list \in Seq(Int) /\ Len(proc_list) \in Nat
         /\ \A i \in 1 .. Len(proc_list) : proc_list[i] \in 1 .. MAX_PID - 1
         /\ DOMAIN proc_list = 1 .. Len(proc_list)
         /\ MAX_PID \in Nat /\ MAX_PROCESS \in Nat
  BY DEF PidTypeOK, PidAssumption

\* The size of the set of forking processes.
LEMMA ForkingIsSmall ==
  ASSUME IInv, PidAssumption
  PROVE  /\ IsFiniteSet(Live) /\ IsFiniteSet(forking)
         /\ Cardinality(Live) \in Nat /\ Cardinality(forking) \in Nat
         /\ Cardinality(Live) <= Len(proc_list)
<1>1. IsFiniteSet(Live) /\ Cardinality(Live) <= Len(proc_list)
  BY ListType, LiveIsSmall, Zenon DEF IInv, PidSound, Live
<1>2. IsFiniteSet(forking)
  BY <1>1, FS_Subset DEF IInv, ForksOK
<1> QED
  BY <1>1, <1>2, FS_CardinalityType

-----------------------------------------------------------------------------
(* Each action keeps the invariant. *)

\* A fork passes the test of nr_process: the forks under way are at most as many
\* as there are processes, so that all of them can go through.
LEMMA TestKeeps ==
  ASSUME IInv, PidAssumption, NEW p \in Live, ForkTest(p)
  PROVE  IInv'
<1>1. /\ PidTypeOK /\ PidsUnique /\ nr_process = Len(proc_list) + 1
      /\ CacheOK /\ ForksOK
  BY DEF IInv, PidSound, PidIsFree
<1>2. /\ Len(proc_list) \in Nat /\ nr_process \in Nat /\ MAX_PROCESS \in Nat
      /\ MAX_PID = 2 * MAX_PROCESS /\ nr_process < MAX_PROCESS
  BY <1>1, ListType DEF ForkTest, PidTypeOK, PidAssumption
<1>3. /\ UNCHANGED <<proc_list, nr_process, last_pid, next_safe, scanner, le>>
      /\ forking' = forking \cup {p} /\ scanner = 0
  BY DEF ForkTest
<1>4. Live' = Live /\ forking' \subseteq Live
  BY <1>1, <1>3 DEF Live, ForksOK
<1>5. Cardinality(forking') \in Nat /\ Cardinality(forking') <= Len(proc_list)
  <2>1. IsFiniteSet(Live) /\ Cardinality(Live) \in Nat /\ Cardinality(Live) <= Len(proc_list)
    BY ForkingIsSmall
  <2>2. IsFiniteSet(forking') /\ Cardinality(forking') <= Cardinality(Live)
    BY <1>4, <2>1, FS_Subset
  <2> QED
    BY <1>2, <2>1, <2>2, FS_CardinalityType
<1>6. PidIsFree'
  BY <1>1, <1>2, <1>3, <1>5 DEF PidIsFree
<1>7. p \in 1 .. MAX_PID - 1
  BY <1>1, ListType DEF Live
<1>8. PidTypeOK'
  BY <1>1, <1>3, <1>7 DEF PidTypeOK
<1>9. PidsUnique' /\ CacheOK'
  BY <1>1, <1>3 DEF PidsUnique, CacheOK
<1>10. ForksOK'
  BY <1>3, <1>4 DEF ForksOK
<1> QED
  BY <1>6, <1>8, <1>9, <1>10 DEF IInv, PidSound

\* A fork that fails leaves a free identifier more.
LEMMA FailKeeps ==
  ASSUME IInv, PidAssumption, NEW p \in Live, ForkFails(p)
  PROVE  IInv'
<1>1. PidTypeOK /\ PidsUnique /\ PidIsFree /\ CacheOK /\ ForksOK
  BY DEF IInv, PidSound
<1>2. /\ UNCHANGED <<proc_list, nr_process, last_pid, next_safe, scanner, le>>
      /\ forking' = forking \ {p} /\ scanner = 0 /\ p \in forking
  BY DEF ForkFails
<1>3. Cardinality(forking') = Cardinality(forking) - 1 /\ Cardinality(forking) \in Nat
  BY <1>2, ForkingIsSmall, FS_RemoveElement, Zenon
<1>4. PidIsFree'
  <2>1. nr_process \in Nat /\ MAX_PROCESS \in Nat
    BY <1>1, ListType DEF PidTypeOK
  <2> QED
    BY <1>1, <1>2, <1>3, <2>1 DEF PidIsFree
<1>5. PidTypeOK'
  BY <1>1, <1>2 DEF PidTypeOK
<1>6. PidsUnique' /\ CacheOK'
  BY <1>1, <1>2 DEF PidsUnique, CacheOK
<1>7. ForksOK'
  BY <1>1, <1>2 DEF ForksOK, Live
<1> QED
  BY <1>4, <1>5, <1>6, <1>7 DEF IInv, PidSound

\* get_pid up to its loop: an identifier below next_safe is free, and otherwise
\* the walk has seen nobody yet.
LEMMA GetKeeps ==
  ASSUME IInv, PidAssumption, NEW p \in Live, get_pid(p)
  PROVE  IInv'
<1>1. PidTypeOK /\ PidsUnique /\ PidIsFree /\ CacheOK /\ ForksOK
  BY DEF IInv, PidSound
<1>2. /\ UNCHANGED <<proc_list, nr_process, forking>>
      /\ scanner = 0 /\ p \in forking /\ scanner' = p
  BY DEF get_pid
<1>3. /\ Len(proc_list) \in Nat /\ MAX_PID \in Nat /\ MAX_PID >= 6
      /\ \A i \in 1 .. Len(proc_list) : proc_list[i] \in 1 .. MAX_PID - 1
      /\ last_pid \in 1 .. MAX_PID - 1 /\ next_safe \in 1 .. MAX_PID
      /\ p \in 1 .. MAX_PID - 1
  BY <1>1, <1>2, ListType DEF PidTypeOK, PidAssumption
<1>4. PidsUnique' /\ PidIsFree'
  BY <1>1, <1>2 DEF PidsUnique, PidIsFree
<1>5. CASE last_pid + 1 >= MAX_PID \/ last_pid + 1 >= next_safe
  <2>1. /\ next_safe' = MAX_PID /\ le' = 1
        /\ last_pid' = IF last_pid + 1 >= MAX_PID THEN 1 ELSE last_pid + 1
    BY <1>5 DEF get_pid
  <2>2. last_pid' \in 1 .. MAX_PID - 1 /\ last_pid' < next_safe'
    BY <1>3, <2>1
  <2>3. PidTypeOK'
    BY <1>1, <1>2, <1>3, <2>1, <2>2 DEF PidTypeOK
  <2>4. CacheOK'
    BY <1>2, <1>3, <2>1 DEF CacheOK
  <2>5. ForksOK'
    BY <1>1, <1>2, <1>3, <2>1, <2>2, SMTT(30) DEF ForksOK, Live
  <2> QED
    BY <1>4, <2>3, <2>4, <2>5 DEF IInv, PidSound
<1>6. CASE ~(last_pid + 1 >= MAX_PID \/ last_pid + 1 >= next_safe)
  <2>1. next_safe' = next_safe /\ le' = Len(proc_list) + 1 /\ last_pid' = last_pid + 1
    BY <1>6 DEF get_pid
  <2>2. last_pid' \in 1 .. MAX_PID - 1 /\ last_pid' < next_safe'
    BY <1>3, <1>6, <2>1
  <2>3. PidTypeOK'
    BY <1>1, <1>2, <1>3, <2>1, <2>2 DEF PidTypeOK
  <2>4. CacheOK'
    BY <1>1, <1>2, <1>3, <2>1 DEF CacheOK
  <2>5. ForksOK'
    BY <1>1, <1>2, <1>3, <2>1, <2>2 DEF ForksOK, Live
  <2> QED
    BY <1>4, <2>3, <2>4, <2>5 DEF IInv, PidSound
<1> QED
  BY <1>5, <1>6

\* One turn of the loop: it passes one more process, begins again, or lowers
\* next_safe below what it saw.
LEMMA WalkKeeps ==
  ASSUME IInv, PidAssumption, Walk
  PROVE  IInv'
<1>1. PidTypeOK /\ PidsUnique /\ PidIsFree /\ CacheOK /\ ForksOK
  BY DEF IInv, PidSound
<1>2. /\ UNCHANGED <<proc_list, nr_process, forking, scanner>>
      /\ scanner # 0 /\ le <= Len(proc_list)
  BY DEF Walk
<1>3. /\ Len(proc_list) \in Nat /\ MAX_PID \in Nat /\ MAX_PID >= 6
      /\ \A i \in 1 .. Len(proc_list) : proc_list[i] \in 1 .. MAX_PID - 1
      /\ last_pid \in 1 .. MAX_PID - 1 /\ next_safe \in 1 .. MAX_PID
      /\ le \in 1 .. Len(proc_list) /\ last_pid < next_safe
  BY <1>1, <1>2, ListType DEF PidTypeOK, PidAssumption, ForksOK
<1>4. PidsUnique' /\ PidIsFree'
  BY <1>1, <1>2 DEF PidsUnique, PidIsFree
<1>5. \A i \in 1 .. Len(proc_list) : i < le =>
        ~(last_pid <= proc_list[i] /\ proc_list[i] < next_safe)
  BY <1>1, <1>2 DEF CacheOK
<1>6. SUFFICES /\ last_pid' \in 1 .. MAX_PID - 1 /\ next_safe' \in 1 .. MAX_PID
               /\ last_pid' < next_safe' /\ le' \in 1 .. Len(proc_list) + 1
               /\ \A i \in 1 .. Len(proc_list) : i < le' =>
                    ~(last_pid' <= proc_list[i] /\ proc_list[i] < next_safe')
  <2>1. PidTypeOK'
    BY <1>1, <1>2, <1>3, <1>6 DEF PidTypeOK
  <2>2. CacheOK'
    BY <1>2, <1>6 DEF CacheOK
  <2>3. ForksOK'
    BY <1>1, <1>2, <1>6 DEF ForksOK, Live
  <2> QED
    BY <1>4, <2>1, <2>2, <2>3 DEF IInv, PidSound
<1> DEFINE pid == proc_list[le]
<1>7. CASE pid = last_pid /\ last_pid + 1 >= next_safe
  <2>1. /\ last_pid' = IF last_pid + 1 >= MAX_PID THEN 1 ELSE last_pid + 1
        /\ next_safe' = MAX_PID /\ le' = 1
    BY <1>3, <1>7 DEF Walk
  <2> QED
    BY <1>3, <2>1
<1>8. CASE pid = last_pid /\ last_pid + 1 < next_safe
  <2>1. last_pid' = last_pid + 1 /\ le' = le + 1 /\ next_safe' = next_safe
    BY <1>3, <1>8 DEF Walk
  <2> QED
    BY <1>3, <1>5, <1>8, <2>1
<1>9. CASE pid # last_pid
  <2>1. /\ next_safe' = IF pid > last_pid /\ next_safe > pid THEN pid ELSE next_safe
        /\ le' = le + 1 /\ last_pid' = last_pid
    BY <1>3, <1>9 DEF Walk
  <2> QED
    BY <1>3, <1>5, <1>9, <2>1
<1> QED
  BY <1>3, <1>7, <1>8, <1>9

\* get_pid returns: the walk has passed everybody, so nobody has last_pid.
LEMMA LinkKeeps ==
  ASSUME IInv, PidAssumption, set_links
  PROVE  IInv'
<1>1. PidTypeOK /\ PidsUnique /\ PidIsFree /\ CacheOK /\ ForksOK
  BY DEF IInv, PidSound
<1>2. /\ scanner # 0 /\ le > Len(proc_list) /\ scanner \in forking
      /\ proc_list' = <<last_pid>> \o proc_list /\ nr_process' = nr_process + 1
      /\ forking' = forking \ {scanner} /\ scanner' = 0 /\ le' = 0
      /\ last_pid' = last_pid /\ next_safe' = next_safe
  BY <1>1 DEF set_links, ForksOK
<1>3. /\ Len(proc_list) \in Nat /\ MAX_PID \in Nat /\ MAX_PROCESS \in Nat
      /\ \A i \in 1 .. Len(proc_list) : proc_list[i] \in 1 .. MAX_PID - 1
      /\ last_pid \in 1 .. MAX_PID - 1 /\ next_safe \in 1 .. MAX_PID /\ last_pid < next_safe
      /\ proc_list \in Seq(1 .. MAX_PID - 1) /\ le \in Nat /\ nr_process \in Nat
      /\ DOMAIN proc_list = 1 .. Len(proc_list)
      /\ MAX_PID = 2 * MAX_PROCESS
  BY <1>1, <1>2, ListType DEF PidTypeOK, ForksOK, PidAssumption
<1>4. \A i \in 1 .. Len(proc_list) :
        ~(last_pid <= proc_list[i] /\ proc_list[i] < next_safe)
  BY <1>1, <1>2, <1>3 DEF CacheOK
<1>5. /\ proc_list' \in Seq(1 .. MAX_PID - 1) /\ Len(proc_list') = Len(proc_list) + 1
      /\ DOMAIN proc_list' = 1 .. Len(proc_list) + 1
      /\ proc_list'[1] = last_pid
      /\ \A i \in 2 .. Len(proc_list) + 1 : proc_list'[i] = proc_list[i - 1]
  BY <1>2, <1>3
<1>6. \A i \in 1 .. Len(proc_list) : proc_list[i] # last_pid
  BY <1>3, <1>4
<1>7. PidsUnique'
  <2> SUFFICES ASSUME NEW i \in 1 .. Len(proc_list) + 1, NEW j \in 1 .. Len(proc_list) + 1,
                      proc_list'[i] = proc_list'[j]
               PROVE  i = j
    BY <1>5 DEF PidsUnique
  <2>1. CASE i = 1 \/ j = 1
    BY <1>3, <1>5, <1>6, <2>1
  <2>2. CASE i # 1 /\ j # 1
    <3>1. i - 1 \in DOMAIN proc_list /\ j - 1 \in DOMAIN proc_list
          /\ proc_list[i - 1] = proc_list[j - 1]
      BY <1>3, <1>5, <2>2
    <3>2. i - 1 = j - 1
      BY <1>1, <3>1 DEF PidsUnique
    <3> QED
      BY <1>3, <3>2
  <2> QED
    BY <2>1, <2>2
<1>8. Cardinality(forking') = Cardinality(forking) - 1 /\ Cardinality(forking) \in Nat
  BY <1>2, ForkingIsSmall, FS_RemoveElement, Zenon
<1>9. PidIsFree'
  BY <1>1, <1>2, <1>3, <1>5, <1>8 DEF PidIsFree
<1>10. PidTypeOK'
  BY <1>1, <1>2, <1>3, <1>5 DEF PidTypeOK
<1>11. CacheOK'
  <2> SUFFICES ASSUME NEW i \in 1 .. Len(proc_list) + 1
               PROVE  ~(last_pid < proc_list'[i] /\ proc_list'[i] < next_safe)
    BY <1>2, <1>5 DEF CacheOK
  <2>1. CASE i = 1
    BY <1>3, <1>5, <2>1
  <2>2. CASE i # 1
    <3>1. i - 1 \in 1 .. Len(proc_list) /\ i \in 2 .. Len(proc_list) + 1
      BY <1>3, <2>2
    <3>2. proc_list'[i] = proc_list[i - 1]
      BY <1>5, <3>1
    <3> QED
      BY <1>3, <1>4, <3>1, <3>2
  <2> QED
    BY <2>1, <2>2
<1>12. ForksOK'
  <2>1. Live \subseteq Live'
    <3> SUFFICES ASSUME NEW i \in 1 .. Len(proc_list) PROVE proc_list[i] \in Live'
      BY <1>3 DEF Live
    <3>1. i + 1 \in 2 .. Len(proc_list) + 1 /\ i + 1 \in DOMAIN proc_list' /\ (i + 1) - 1 = i
      BY <1>3, <1>5
    <3>2. proc_list'[i + 1] = proc_list[i]
      BY <1>5, <3>1
    <3> QED
      BY <3>1, <3>2 DEF Live
  <2> QED
    BY <1>1, <1>2, <2>1 DEF ForksOK
<1> QED
  BY <1>7, <1>9, <1>10, <1>11, <1>12 DEF IInv, PidSound

\* A process goes: the others keep their identifiers.
LEMMA RemoveKeeps ==
  ASSUME IInv, PidAssumption, NEW p \in Live, remove_links(p)
  PROVE  IInv'
<1>1. PidTypeOK /\ PidsUnique /\ PidIsFree /\ CacheOK /\ ForksOK
  BY DEF IInv, PidSound
<1>2. /\ scanner = 0 /\ p \notin forking /\ nr_process' = nr_process - 1
      /\ UNCHANGED <<forking, last_pid, next_safe, scanner, le>>
  BY DEF remove_links
<1>3. PICK gone \in DOMAIN proc_list :
        /\ proc_list[gone] = p
        /\ proc_list' = [j \in 1 .. Len(proc_list) - 1 |->
                           proc_list[IF j < gone THEN j ELSE j + 1]]
  BY DEF remove_links
<1>4. /\ Len(proc_list) \in Nat \ {0} /\ gone \in 1 .. Len(proc_list)
      /\ DOMAIN proc_list = 1 .. Len(proc_list)
      /\ \A i \in 1 .. Len(proc_list) : proc_list[i] \in 1 .. MAX_PID - 1
      /\ MAX_PID \in Nat /\ MAX_PROCESS \in Nat /\ nr_process \in Nat
  <2>1. /\ Len(proc_list) \in Nat /\ DOMAIN proc_list = 1 .. Len(proc_list)
        /\ \A i \in 1 .. Len(proc_list) : proc_list[i] \in 1 .. MAX_PID - 1
        /\ MAX_PID \in Nat /\ MAX_PROCESS \in Nat /\ nr_process \in Nat
    BY <1>1, ListType DEF PidTypeOK
  <2>2. gone \in 1 .. Len(proc_list)
    BY <1>3, <2>1
  <2>3. Len(proc_list) # 0
    BY <2>1, <2>2
  <2> QED
    BY <2>1, <2>2, <2>3
<1>5. /\ proc_list' \in Seq(1 .. MAX_PID - 1) /\ Len(proc_list') = Len(proc_list) - 1
      /\ DOMAIN proc_list' = 1 .. Len(proc_list) - 1
  BY <1>3, <1>4
<1> DEFINE old(j) == IF j < gone THEN j ELSE j + 1
<1>6. \A j \in 1 .. Len(proc_list) - 1 :
        old(j) \in 1 .. Len(proc_list) /\ old(j) # gone /\ proc_list'[j] = proc_list[old(j)]
  BY <1>3, <1>4
<1>7. \A i \in 1 .. Len(proc_list) : i # gone =>
        \E j \in 1 .. Len(proc_list) - 1 : i = old(j)
  <2> TAKE i \in 1 .. Len(proc_list)
  <2>1. CASE i < gone
    BY <1>4, <2>1
  <2>2. CASE i > gone
    <3>1. i - 1 \in 1 .. Len(proc_list) - 1 /\ i = old(i - 1)
      BY <1>4, <2>2
    <3> QED
      BY <3>1
  <2> QED
    BY <1>4, <2>1, <2>2
<1>8. PidsUnique'
  <2> SUFFICES ASSUME NEW i \in 1 .. Len(proc_list) - 1, NEW j \in 1 .. Len(proc_list) - 1,
                      proc_list'[i] = proc_list'[j]
               PROVE  i = j
    BY <1>5 DEF PidsUnique
  <2>1. old(i) = old(j)
    BY <1>1, <1>4, <1>6, Zenon DEF PidsUnique
  <2> QED
    BY <1>4, <2>1
<1> HIDE DEF old
<1>9. PidIsFree'
  <2>1. Cardinality(forking) \in Nat
    BY ForkingIsSmall
  <2> QED
    BY <1>1, <1>2, <1>4, <1>5, <2>1, SMTT(30) DEF PidIsFree
<1>10. PidTypeOK'
  BY <1>1, <1>2, <1>4, <1>5, <1>9, SMTT(30) DEF PidTypeOK, PidIsFree
<1>11. CacheOK'
  BY <1>1, <1>2, <1>4, <1>5, <1>6 DEF CacheOK
<1>12. ForksOK'
  <2> SUFFICES ASSUME NEW q \in forking PROVE q \in Live'
    BY <1>2 DEF ForksOK
  <2>1. PICK i \in 1 .. Len(proc_list) : proc_list[i] = q
    BY <1>1, <1>4 DEF ForksOK, Live
  <2>2. i # gone
    BY <1>2, <1>3, <2>1
  <2>3. PICK j \in 1 .. Len(proc_list) - 1 : i = old(j)
    BY <1>7, <2>2
  <2>4. proc_list'[j] = q /\ j \in DOMAIN proc_list'
    BY <1>5, <1>6, <2>1, <2>3
  <2> QED
    BY <2>4 DEF Live
<1> QED
  BY <1>8, <1>9, <1>10, <1>11, <1>12 DEF IInv, PidSound

-----------------------------------------------------------------------------
\* No two processes ever have the same identifier, and the identifiers do not run
\* out although forks that passed the test of nr_process together take it over
\* MAX_PROCESS: for every MAX_PROCESS, and however often get_pid's counter has
\* wrapped.
THEOREM PidsAreSound == ASSUME PidAssumption PROVE PidSpec => []PidSound
<1>1. PidInit => IInv
  <2> SUFFICES ASSUME PidInit PROVE IInv
    OBVIOUS
  <2>1. /\ proc_list = <<1>> /\ Len(proc_list) = 1 /\ proc_list[1] = 1 /\ nr_process = 2
        /\ forking = {} /\ last_pid = 1 /\ next_safe = MAX_PID /\ scanner = 0 /\ le = 0
    BY DEF PidInit, InitPid
  <2>2. MAX_PID \in Nat /\ MAX_PROCESS \in Nat /\ MAX_PROCESS >= 3 /\ MAX_PID = 2 * MAX_PROCESS
    BY DEF PidAssumption
  <2>3. PidTypeOK
    BY <2>1, <2>2 DEF PidTypeOK
  <2>4. PidsUnique /\ CacheOK /\ ForksOK
    BY <2>1, <2>2 DEF PidsUnique, CacheOK, ForksOK
  <2>5. PidIsFree
    BY <2>1, <2>2, FS_EmptySet DEF PidIsFree
  <2> QED
    BY <2>3, <2>4, <2>5 DEF IInv, PidSound
<1>2. IInv /\ [PidNext]_pidVars => IInv'
  <2> SUFFICES ASSUME IInv, [PidNext]_pidVars PROVE IInv'
    BY SMTT(30)
  <2>1. CASE UNCHANGED pidVars
    BY <2>1 DEF pidVars, IInv, PidSound, PidTypeOK, PidsUnique, PidIsFree, CacheOK, ForksOK, Live
  <2> QED
    BY <2>1, TestKeeps, FailKeeps, GetKeeps, WalkKeeps, LinkKeeps, RemoveKeeps DEF PidNext
<1>3. IInv => PidSound
  BY DEF IInv
<1> QED
  BY <1>1, <1>2, <1>3, PTL DEF PidSpec

-----------------------------------------------------------------------------
\* What % gives lies below the divisor.
LEMMA ModRange ==
  ASSUME NEW a \in Int, NEW d \in Int, d > 0
  PROVE  a % d \in 0 .. d - 1
OBVIOUS

\* A number is the multiple of the divisor below it and the rest.
LEMMA DivMod ==
  ASSUME NEW a \in Int, NEW d \in Int, d > 0
  PROVE  a \div d \in Int /\ a = d * (a \div d) + (a % d)
<1>1. a \div d \in Int
  OBVIOUS
<1>2. a = d * (a \div d) + (a % d)
  OBVIOUS
<1> QED
  BY <1>1, <1>2

\* The rest is determined by lying below the divisor.
LEMMA ModUnique ==
  ASSUME NEW a \in Int, NEW d \in Int, d > 0, NEW q \in Int, NEW s \in Int,
         a = d * q + s, 0 <= s, s < d
  PROVE  a % d = s
BY SMT

\* No multiple of d lies strictly between 0 and d.
LEMMA NoMultipleBetween ==
  ASSUME NEW n \in Int, NEW d \in Int, d > 0, 0 < d * n, d * n < d
  PROVE  FALSE
<1>1. CASE n <= 0
  <2>1. d * n <= 0
    BY <1>1
  <2> QED
    BY <2>1
<1>2. CASE n >= 1
  <2>1. d * n >= d
    BY <1>2
  <2> QED
    BY <2>1
<1> QED
  BY <1>1, <1>2

\* Two positions less than a ring apart have different slots.
LEMMA ModApart ==
  ASSUME NEW a \in Int, NEW c \in Int, NEW d \in Int, d > 0, a < c, c - a < d
  PROVE  a % d # c % d
<1> SUFFICES ASSUME a % d = c % d PROVE FALSE
  OBVIOUS
<1> DEFINE q == a \div d
           s == c \div d
<1>1. q \in Int /\ s \in Int /\ a = d * q + (a % d) /\ c = d * s + (c % d)
  BY DivMod
<1> HIDE DEF q, s
<1>2. a % d \in Int
  BY ModRange
<1>3. c - a = d * s - d * q
  BY <1>1, <1>2
<1>4. d * s - d * q = d * (s - q)
  BY <1>1
<1> DEFINE n == s - q
<1>5. n \in Int
  BY <1>1
<1>6. c - a = d * n
  BY <1>3, <1>4
<1> HIDE DEF n
<1>7. 0 < d * n /\ d * n < d
  BY <1>6
<1> QED
  BY <1>5, <1>7, NoMultipleBetween

\* Two positions a ring apart have the same slot.
LEMMA ModSame ==
  ASSUME NEW a \in Int, NEW d \in Int, d > 0
  PROVE  (a + d) % d = a % d
<1> DEFINE q == a \div d
           s == a % d
<1>1. q \in Int /\ a = d * q + s /\ s \in 0 .. d - 1
  BY DivMod, ModRange
<1> HIDE DEF q, s
<1>2. a + d = d * (q + 1) + s
  BY <1>1
<1>3. (a + d) % d = s
  BY <1>1, <1>2, ModUnique
<1> QED
  BY <1>3 DEF s

-----------------------------------------------------------------------------
(* For every size of the ring, every number of readers and every sequence  *)
(* of keys, reads and kills: the console gives its readers the characters  *)
(* in the order typed, and no reader sleeps beside a character.            *)

\* The ring holds the characters that are to be read, from rpos on.
RingHolds == \A i \in 1 .. Len(unread) : unread[i] = ring[(rpos + i - 1) % STDIN_BUFSIZE]

\* Only a thread inside dev_stdin_read waits for the keyboard.
OnlyReadersWait == \A p \in StdinProcs : stdin_wait_state[p] = "KBD" => stdinPc[p] = "read"

\* The inductive invariant.
StdinInv == StdinSound /\ RingHolds /\ OnlyReadersWait

-----------------------------------------------------------------------------
\* The program starts with an empty ring.
LEMMA StdinInitInv == ASSUME StdinAssumption PROVE StdinInit => StdinInv
<1> SUFFICES ASSUME StdinInit PROVE StdinInv
  OBVIOUS
<1>1. (CHOOSE c \in Chars : TRUE) \in Chars
  BY DEF StdinAssumption
<1>2. StdinTypeOK
  BY <1>1 DEF StdinTypeOK, StdinInit, StdinAssumption
<1> QED
  BY <1>2 DEF StdinInv, StdinSound, RingKeepsOrder, NoMissedKey, RingHolds, OnlyReadersWait, StdinInit,
              StdinAssumption

\* A sequence with another first element.
LEMMA ReplaceFirst ==
  ASSUME NEW T, NEW q \in Seq(T), Len(q) >= 1, NEW c \in T
  PROVE  /\ <<c>> \o Tail(q) \in Seq(T) /\ Len(<<c>> \o Tail(q)) = Len(q)
         /\ (<<c>> \o Tail(q))[1] = c
         /\ \A i \in 2 .. Len(q) : (<<c>> \o Tail(q))[i] = q[i]
<1>1. q # <<>>
  OBVIOUS
<1>2. Tail(q) \in Seq(T) /\ Len(Tail(q)) = Len(q) - 1 /\ <<c>> \in Seq(T) /\ Len(<<c>>) = 1
  BY <1>1
<1>3. \A i \in 1 .. Len(q) - 1 : Tail(q)[i] = q[i + 1]
  BY <1>1
<1>4. \A i \in 2 .. Len(q) : (<<c>> \o Tail(q))[i] = Tail(q)[i - 1]
  BY <1>2
<1>5. \A i \in 2 .. Len(q) : i - 1 \in 1 .. Len(q) - 1 /\ (i - 1) + 1 = i
  OBVIOUS
<1>6. \A i \in 2 .. Len(q) : (<<c>> \o Tail(q))[i] = q[i]
  BY <1>3, <1>4, <1>5, SMTT(30)
<1> QED
  BY <1>2, <1>6

\* A key goes where no unread character is, or, in a full ring, on the oldest.
LEMMA StdinWriteInv ==
  ASSUME StdinAssumption, StdinInv, NEW c \in Chars, dev_stdin_write(c)
  PROVE  StdinInv'
<1> USE DEF StdinAssumption
<1> DEFINE slot == wpos % STDIN_BUFSIZE
<1>1. /\ STDIN_BUFSIZE \in Int /\ STDIN_BUFSIZE > 0 /\ rpos \in Int /\ wpos \in Int /\ OffMax \in Int
      /\ rpos <= wpos /\ wpos - rpos <= STDIN_BUFSIZE /\ Len(unread) = wpos - rpos
      /\ unread \in Seq(Chars) /\ ring \in [0 .. STDIN_BUFSIZE - 1 -> Chars] /\ rpos >= 0
      /\ wpos < OffMax /\ rpos' = rpos
  BY DEF StdinInv, StdinSound, StdinTypeOK, RingKeepsOrder, dev_stdin_write
<1>2. slot \in 0 .. STDIN_BUFSIZE - 1
  BY <1>1, ModRange
<1>3. ring' = [ring EXCEPT ![slot] = c]
  BY Zenon DEF dev_stdin_write
<1>4. /\ ring' \in [0 .. STDIN_BUFSIZE - 1 -> Chars] /\ ring'[slot] = c
      /\ \A i \in 0 .. STDIN_BUFSIZE - 1 : i # slot => ring'[i] = ring[i]
  BY <1>1, <1>2, <1>3
<1>5. \A i \in 1 .. Len(unread) : unread[i] = ring[(rpos + i - 1) % STDIN_BUFSIZE]
  BY DEF StdinInv, RingHolds
<1>6. /\ wpos' \in 0 .. OffMax /\ unread' \in Seq(Chars) /\ Len(unread') = wpos' - rpos
      /\ wpos' >= rpos /\ wpos' - rpos <= STDIN_BUFSIZE /\ RingHolds'
  <2>1. CASE wpos - rpos < STDIN_BUFSIZE /\ wpos' = wpos + 1 /\ unread' = Append(unread, c)
    <3>1. \A i \in 1 .. Len(unread) : (rpos + i - 1) % STDIN_BUFSIZE # slot
      <4> TAKE i \in 1 .. Len(unread)
      <4> DEFINE a == rpos + i - 1
      <4>1. a \in Int /\ a < wpos /\ wpos - a < STDIN_BUFSIZE
        BY <1>1, <2>1
      <4> HIDE DEF a
      <4>2. a % STDIN_BUFSIZE # wpos % STDIN_BUFSIZE
        BY <1>1, <4>1, ModApart, Zenon
      <4> QED
        BY <4>2 DEF a
    <3>2. \A i \in 1 .. Len(unread) : (rpos + i - 1) % STDIN_BUFSIZE \in 0 .. STDIN_BUFSIZE - 1
      BY <1>1, ModRange
    <3>3. \A i \in 1 .. Len(unread) : unread[i] = ring'[(rpos + i - 1) % STDIN_BUFSIZE]
      BY <1>4, <1>5, <3>1, <3>2, SMTT(30)
    <3>4. /\ unread' \in Seq(Chars) /\ Len(unread') = Len(unread) + 1
          /\ unread'[Len(unread) + 1] = c
          /\ \A i \in 1 .. Len(unread) : unread'[i] = unread[i]
      BY <1>1, <2>1
    <3>5. rpos + (Len(unread) + 1) - 1 = wpos
      BY <1>1
    <3>6. \A i \in 1 .. Len(unread') : i \in 1 .. Len(unread) \/ i = Len(unread) + 1
      BY <3>4, <1>1
    <3>7. \A i \in 1 .. Len(unread') : unread'[i] = ring'[(rpos + i - 1) % STDIN_BUFSIZE]
      BY <3>3, <3>4, <3>5, <3>6, <1>4
    <3>8. /\ wpos' \in 0 .. OffMax /\ Len(unread') = wpos' - rpos
          /\ wpos' >= rpos /\ wpos' - rpos <= STDIN_BUFSIZE
      BY <1>1, <2>1, <3>4
    <3>9. RingHolds'
      BY <1>1, <3>7 DEF RingHolds
    <3> QED
      BY <3>4, <3>8, <3>9
  <2>2. CASE wpos - rpos >= STDIN_BUFSIZE /\ wpos' = wpos /\ unread' = <<c>> \o Tail(unread)
    <3>1. wpos = rpos + STDIN_BUFSIZE /\ Len(unread) = STDIN_BUFSIZE /\ slot = rpos % STDIN_BUFSIZE
      <4>1. wpos = rpos + STDIN_BUFSIZE /\ Len(unread) = STDIN_BUFSIZE
        BY <1>1, <2>2
      <4>2. (rpos + STDIN_BUFSIZE) % STDIN_BUFSIZE = rpos % STDIN_BUFSIZE
        BY <1>1, ModSame, Zenon
      <4> QED
        BY <4>1, <4>2
    <3>2. \A i \in 2 .. STDIN_BUFSIZE : (rpos + i - 1) % STDIN_BUFSIZE # slot
      <4> TAKE i \in 2 .. STDIN_BUFSIZE
      <4> DEFINE a == rpos + i - 1
      <4>1. a \in Int /\ a < wpos /\ wpos - a < STDIN_BUFSIZE
        BY <1>1, <3>1
      <4> HIDE DEF a
      <4>2. a % STDIN_BUFSIZE # wpos % STDIN_BUFSIZE
        BY <1>1, <4>1, ModApart, Zenon
      <4> QED
        BY <4>2 DEF a
    <3>3. \A i \in 2 .. STDIN_BUFSIZE : (rpos + i - 1) % STDIN_BUFSIZE \in 0 .. STDIN_BUFSIZE - 1
      BY <1>1, ModRange
    <3>4. /\ unread' \in Seq(Chars) /\ Len(unread') = STDIN_BUFSIZE
          /\ unread'[1] = c
          /\ \A i \in 2 .. STDIN_BUFSIZE : unread'[i] = unread[i]
      <4>1. unread' = <<c>> \o Tail(unread) /\ unread \in Seq(Chars) /\ Len(unread) >= 1
        BY <1>1, <2>2, <3>1, SMTT(30)
      <4> QED
        BY <3>1, <4>1, ReplaceFirst
    <3>5. \A i \in 2 .. STDIN_BUFSIZE : unread'[i] = ring'[(rpos + i - 1) % STDIN_BUFSIZE]
      BY <1>1, <1>4, <1>5, <3>1, <3>2, <3>3, <3>4, SMTT(30)
    <3>6. rpos + 1 - 1 = rpos
      BY <1>1
    <3>7. \A i \in 1 .. Len(unread') : i = 1 \/ i \in 2 .. STDIN_BUFSIZE
      BY <1>1, <3>4
    <3>8. \A i \in 1 .. Len(unread') : unread'[i] = ring'[(rpos + i - 1) % STDIN_BUFSIZE]
      <4> TAKE i \in 1 .. Len(unread')
      <4>1. CASE i = 1
        BY <1>4, <3>1, <3>4, <3>6, <4>1, SMTT(30)
      <4>2. CASE i \in 2 .. STDIN_BUFSIZE
        BY <3>5, <4>2
      <4> QED
        BY <3>7, <4>1, <4>2
    <3>9. /\ wpos' \in 0 .. OffMax /\ Len(unread') = wpos' - rpos
          /\ wpos' >= rpos /\ wpos' - rpos <= STDIN_BUFSIZE
      BY <1>1, <2>2, <3>1, <3>4, SMTT(30)
    <3>10. RingHolds'
      BY <1>1, <3>8 DEF RingHolds
    <3> QED
      BY <3>4, <3>9, <3>10
  <2> QED
    BY <2>1, <2>2 DEF dev_stdin_write
<1>7. StdinTypeOK'
  <2>1. /\ ring' \in [0 .. STDIN_BUFSIZE - 1 -> Chars] /\ rpos' \in 0 .. OffMax /\ wpos' \in 0 .. OffMax
        /\ unread' \in Seq(Chars)
    BY <1>1, <1>4, <1>6, SMTT(30)
  <2>2. /\ stdinQueue' \subseteq StdinProcs
        /\ stdinPc' \in [StdinProcs -> {"user", "read", "exited"}] /\ stdinWant' \in [StdinProcs -> 0 .. StdinMaxLen]
        /\ stdin_wait_state' \in [StdinProcs -> {"none", "KBD"}]
        /\ stdinFlags' \in [StdinProcs -> {"INTERRUPTED", "KBD"}]
    BY DEF StdinInv, StdinSound, StdinTypeOK, dev_stdin_write
  <2>3. stdinExiting' \in [StdinProcs -> BOOLEAN] /\ stdinIntact' \in BOOLEAN
    BY DEF StdinInv, StdinSound, StdinTypeOK, dev_stdin_write
  <2> QED
    BY <2>1, <2>2, <2>3 DEF StdinTypeOK
<1>8. \A p \in StdinProcs : stdin_wait_state'[p] = "none"
  BY DEF StdinInv, StdinSound, StdinTypeOK, NoMissedKey, dev_stdin_write
<1>9. stdinIntact'
  BY DEF StdinInv, StdinSound, RingKeepsOrder, dev_stdin_write
<1> QED
  BY <1>1, <1>6, <1>7, <1>8, <1>9, SMTT(30) DEF StdinInv, StdinSound, RingKeepsOrder, NoMissedKey, OnlyReadersWait

\* A read takes the first characters of the ring, and sleeps only on an empty one.
LEMMA StdinTryInv ==
  ASSUME StdinAssumption, StdinInv, NEW p \in StdinProcs, NEW n \in 0 .. StdinMaxLen,
         stdin_wait_state[p] = "none", Try(p, n)
  PROVE  StdinInv'
<1> USE DEF StdinAssumption
<1> DEFINE moved == IF n < wpos - rpos THEN n ELSE wpos - rpos
           taken == [i \in 1 .. moved |-> ring[(rpos + i - 1) % STDIN_BUFSIZE]]
<1>1. /\ STDIN_BUFSIZE \in Int /\ STDIN_BUFSIZE > 0 /\ rpos \in Int /\ wpos \in Int /\ OffMax \in Int
      /\ rpos <= wpos /\ wpos - rpos <= STDIN_BUFSIZE /\ Len(unread) = wpos - rpos
      /\ unread \in Seq(Chars) /\ rpos >= 0 /\ wpos <= OffMax /\ n \in Int /\ n >= 0 /\ n <= StdinMaxLen
      /\ StdinMaxLen \in Int
  BY DEF StdinInv, StdinSound, StdinTypeOK, RingKeepsOrder
<1>2. moved \in Int /\ 0 <= moved /\ moved <= n /\ moved <= Len(unread) /\ (moved < n => moved = Len(unread))
  BY <1>1, SMTT(30)
<1>3. /\ rpos' = rpos + moved
      /\ stdinIntact' = (stdinIntact /\ taken = SubSeq(unread, 1, moved))
      /\ unread' = SubSeq(unread, moved + 1, Len(unread))
      /\ stdinFlags' = [stdinFlags EXCEPT ![p] = "INTERRUPTED"]
      /\ stdinWant' = [stdinWant EXCEPT ![p] = n - moved]
      /\ ring' = ring /\ wpos' = wpos /\ stdinExiting' = stdinExiting
  BY SMTT(30) DEF Try
<1>4. \/ moved = n /\ stdinPc' = [stdinPc EXCEPT ![p] = StdinBackToUser(p)] /\ stdinQueue' = stdinQueue /\ stdin_wait_state' = stdin_wait_state
      \/ /\ moved < n /\ stdinPc' = [stdinPc EXCEPT ![p] = "read"] /\ stdinQueue' = stdinQueue \union {p}
         /\ stdin_wait_state' = [stdin_wait_state EXCEPT ![p] = "KBD"]
  BY DEF Try
<1>5. \A i \in 1 .. Len(unread) : unread[i] = ring[(rpos + i - 1) % STDIN_BUFSIZE]
  BY DEF StdinInv, RingHolds
<1>6. taken = SubSeq(unread, 1, moved)
  <2>0. 1 .. moved \subseteq 1 .. Len(unread)
    BY <1>1, <1>2, SMTT(30)
  <2>1. taken = [i \in 1 .. moved |-> unread[i]]
    BY <1>5, <2>0
  <2> HIDE DEF moved, taken
  <2>2. SubSeq(unread, 1, moved) = [i \in 1 .. moved |-> unread[i]]
    BY <1>1, <1>2, SMTT(30)
  <2> QED
    BY <2>1, <2>2
<1> HIDE DEF moved, taken
<1>7. /\ unread' \in Seq(Chars) /\ Len(unread') = Len(unread) - moved
      /\ \A i \in 1 .. Len(unread) - moved : unread'[i] = unread[moved + i]
  BY <1>1, <1>2, <1>3, SMTT(30)
<1>8. RingHolds'
  <2> SUFFICES ASSUME NEW i \in 1 .. Len(unread') PROVE unread'[i] = ring'[(rpos' + i - 1) % STDIN_BUFSIZE]
    BY DEF RingHolds
  <2>1. i \in 1 .. Len(unread) - moved /\ moved + i \in 1 .. Len(unread)
    BY <1>1, <1>2, <1>7, SMTT(30)
  <2>2. rpos' + i - 1 = rpos + (moved + i) - 1
    BY <1>1, <1>2, <1>3, <2>1, SMTT(30)
  <2>3. unread[moved + i] = ring[(rpos + (moved + i) - 1) % STDIN_BUFSIZE]
    BY <1>5, <2>1
  <2> QED
    BY <1>3, <1>7, <2>1, <2>2, <2>3, SMTT(30)
<1>9. RingKeepsOrder'
  <2>1. stdinIntact'
    BY <1>3, <1>6, Zenon DEF StdinInv, StdinSound, RingKeepsOrder
  <2>2. rpos' <= wpos' /\ wpos' - rpos' <= STDIN_BUFSIZE /\ Len(unread') = wpos' - rpos'
    BY <1>1, <1>2, <1>3, <1>7, SMTT(30)
  <2> QED
    BY <2>1, <2>2 DEF RingKeepsOrder
<1>10. StdinTypeOK'
  <2>1. ring' \in [0 .. STDIN_BUFSIZE - 1 -> Chars] /\ stdinExiting' \in [StdinProcs -> BOOLEAN]
    BY <1>3, SMTT(30) DEF StdinInv, StdinSound, StdinTypeOK
  <2>2. rpos' \in 0 .. OffMax /\ wpos' \in 0 .. OffMax /\ unread' \in Seq(Chars)
    BY <1>1, <1>2, <1>3, <1>7, SMTT(30)
  <2>3. stdinWant' \in [StdinProcs -> 0 .. StdinMaxLen]
    <3>1. n - moved \in 0 .. StdinMaxLen
      BY <1>1, <1>2
    <3> QED
      BY <1>3, <3>1 DEF StdinInv, StdinSound, StdinTypeOK
  <2>4. /\ stdinQueue' \subseteq StdinProcs /\ stdinPc' \in [StdinProcs -> {"user", "read", "exited"}]
        /\ stdin_wait_state' \in [StdinProcs -> {"none", "KBD"}]
        /\ stdinFlags' \in [StdinProcs -> {"INTERRUPTED", "KBD"}]
    <3>1. StdinBackToUser(p) \in {"user", "read", "exited"}
      BY DEF StdinBackToUser
    <3> QED
      BY <1>3, <1>4, <3>1, Zenon DEF StdinInv, StdinSound, StdinTypeOK
  <2>5. stdinIntact' \in BOOLEAN
    BY <1>3, SMTT(30)
  <2> QED
    BY <2>1, <2>2, <2>3, <2>4, <2>5, SMTT(30) DEF StdinTypeOK
<1>11. NoMissedKey' /\ OnlyReadersWait'
  <2> SUFFICES ASSUME NEW q \in StdinProcs, stdin_wait_state'[q] = "KBD"
               PROVE  rpos' = wpos' /\ q \in stdinQueue' /\ stdinWant'[q] > 0 /\ stdinPc'[q] = "read"
    BY DEF NoMissedKey, OnlyReadersWait
  <2>0. /\ stdinWant \in [StdinProcs -> 0 .. StdinMaxLen] /\ stdinPc \in [StdinProcs -> {"user", "read", "exited"}]
        /\ stdin_wait_state \in [StdinProcs -> {"none", "KBD"}]
    BY DEF StdinInv, StdinSound, StdinTypeOK
  <2>1. CASE q = p
    <3>1. moved < n /\ stdinPc' = [stdinPc EXCEPT ![p] = "read"] /\ stdinQueue' = stdinQueue \union {p}
      BY <1>4, <2>1, SMTT(30)
    <3>2. rpos' = wpos' /\ n - moved > 0
      BY <1>1, <1>2, <1>3, <3>1, SMTT(30)
    <3> QED
      BY <1>3, <2>0, <2>1, <3>1, <3>2, SMTT(30)
  <2>2. CASE q # p
    <3>1. stdin_wait_state[q] = "KBD" /\ q \in stdinQueue => q \in stdinQueue'
      BY <1>4, SMTT(30)
    <3>2. stdin_wait_state[q] = "KBD" /\ stdinPc'[q] = stdinPc[q] /\ stdinWant'[q] = stdinWant[q]
      BY <1>3, <1>4, <2>0, <2>2, SMTT(30)
    <3>3. rpos = wpos /\ q \in stdinQueue /\ stdinWant[q] > 0 /\ stdinPc[q] = "read"
      BY <3>2, SMTT(30) DEF StdinInv, StdinSound, NoMissedKey, OnlyReadersWait
    <3>4. rpos' = wpos'
      BY <1>1, <1>2, <1>3, <3>3, SMTT(30)
    <3> QED
      BY <3>1, <3>2, <3>3, <3>4
  <2> QED
    BY <2>1, <2>2, SMTT(30)
<1> QED
  BY <1>8, <1>9, <1>10, <1>11, SMTT(30) DEF StdinInv, StdinSound

\* A read that a kill ends, and the kill itself, move no character.
LEMMA StdinEndInv ==
  ASSUME StdinAssumption, StdinInv, NEW p \in StdinProcs,
         \/ /\ stdin_wait_state[p] = "none"
            /\ stdinQueue' = stdinQueue \ {p}
            /\ stdinPc' = [stdinPc EXCEPT ![p] = StdinBackToUser(p)]
            /\ stdinWant' = [stdinWant EXCEPT ![p] = 0]
            /\ UNCHANGED <<ring, rpos, wpos, stdin_wait_state, stdinFlags, stdinExiting, unread, stdinIntact>>
         \/ \E victim \in StdinProcs : StdinKill(p, victim)
  PROVE  StdinInv'
<1>1. StdinBackToUser(p) \in {"user", "read", "exited"} /\ 0 \in 0 .. StdinMaxLen
  BY DEF StdinBackToUser, StdinAssumption
<1>2. /\ ring' = ring /\ rpos' = rpos /\ wpos' = wpos /\ stdinFlags' = stdinFlags /\ unread' = unread
      /\ stdinIntact' = stdinIntact
  BY DEF StdinKill
<1>3. stdinExiting \in [StdinProcs -> BOOLEAN] => stdinExiting' \in [StdinProcs -> BOOLEAN]
  BY Zenon DEF StdinKill
<1>4. StdinTypeOK'
  <2>1. /\ ring' \in [0 .. STDIN_BUFSIZE - 1 -> Chars]
        /\ rpos' \in 0 .. OffMax /\ wpos' \in 0 .. OffMax /\ unread' \in Seq(Chars)
        /\ stdinFlags' \in [StdinProcs -> {"INTERRUPTED", "KBD"}]
    BY <1>2 DEF StdinInv, StdinSound, StdinTypeOK
  <2>2. stdinExiting' \in [StdinProcs -> BOOLEAN] /\ stdinIntact' \in BOOLEAN
    BY <1>2, <1>3 DEF StdinInv, StdinSound, StdinTypeOK
  <2>3. /\ stdinQueue' \subseteq StdinProcs /\ stdinPc' \in [StdinProcs -> {"user", "read", "exited"}]
        /\ stdinWant' \in [StdinProcs -> 0 .. StdinMaxLen] /\ stdin_wait_state' \in [StdinProcs -> {"none", "KBD"}]
    <3>1. /\ stdinQueue \subseteq StdinProcs /\ stdinPc \in [StdinProcs -> {"user", "read", "exited"}]
          /\ stdinWant \in [StdinProcs -> 0 .. StdinMaxLen] /\ stdin_wait_state \in [StdinProcs -> {"none", "KBD"}]
      BY DEF StdinInv, StdinSound, StdinTypeOK
    <3>2. stdinPc' = [stdinPc EXCEPT ![p] = StdinBackToUser(p)]
      BY DEF StdinKill
    <3>3. stdinQueue' \subseteq stdinQueue /\ (stdinWant' = stdinWant \/ stdinWant' = [stdinWant EXCEPT ![p] = 0])
      BY DEF StdinKill
    <3>4. stdin_wait_state' \in [StdinProcs -> {"none", "KBD"}]
      BY <3>1, SMTT(30) DEF StdinKill
    <3> QED
      BY <1>1, <3>1, <3>2, <3>3, <3>4, Zenon
  <2> QED
    BY <2>1, <2>2, <2>3, SMTT(30) DEF StdinTypeOK
<1>5. RingKeepsOrder' /\ RingHolds'
  BY <1>2 DEF StdinInv, StdinSound, RingKeepsOrder, RingHolds
<1>6. NoMissedKey' /\ OnlyReadersWait'
  <2> SUFFICES ASSUME NEW q \in StdinProcs, stdin_wait_state'[q] = "KBD"
               PROVE  rpos' = wpos' /\ q \in stdinQueue' /\ stdinWant'[q] > 0 /\ stdinPc'[q] = "read"
    BY DEF NoMissedKey, OnlyReadersWait
  <2>0. /\ stdinWant \in [StdinProcs -> 0 .. StdinMaxLen] /\ stdinPc \in [StdinProcs -> {"user", "read", "exited"}]
        /\ stdin_wait_state \in [StdinProcs -> {"none", "KBD"}]
    BY DEF StdinInv, StdinSound, StdinTypeOK
  <2>1. stdin_wait_state[q] = "KBD"
    BY <2>0 DEF StdinKill
  <2>2. rpos = wpos /\ q \in stdinQueue /\ stdinWant[q] > 0 /\ stdinPc[q] = "read"
    BY <2>1 DEF StdinInv, StdinSound, NoMissedKey, OnlyReadersWait
  <2>3. q # p
    BY <2>1, <2>2 DEF StdinKill
  <2> QED
    BY <1>2, <2>0, <2>2, <2>3, SMTT(30) DEF StdinKill
<1> QED
  BY <1>4, <1>5, <1>6, SMTT(30) DEF StdinInv, StdinSound

\* Every step keeps the invariant.
LEMMA StdinNextInv == ASSUME StdinAssumption PROVE StdinInv /\ [StdinNext]_stdinVars => StdinInv'
<1> SUFFICES ASSUME StdinInv, [StdinNext]_stdinVars PROVE StdinInv'
  OBVIOUS
<1>0. /\ stdinWant \in [StdinProcs -> 0 .. StdinMaxLen] /\ stdin_wait_state \in [StdinProcs -> {"none", "KBD"}]
      /\ StdinMaxLen \in Nat
  BY DEF StdinInv, StdinSound, StdinTypeOK, StdinAssumption
<1>1. CASE \E c \in Chars : dev_stdin_write(c)
  BY <1>1, StdinWriteInv
<1>2. ASSUME NEW p \in StdinProcs, NEW n \in 1 .. StdinMaxLen, dev_stdin_read(p, n) PROVE StdinInv'
  <2>1. n \in 0 .. StdinMaxLen
    BY <1>0
  <2>2. stdin_wait_state[p] = "none"
    BY <1>0, <1>2 DEF dev_stdin_read, StdinInv, OnlyReadersWait
  <2> QED
    BY <1>2, <2>1, <2>2, StdinTryInv DEF dev_stdin_read
<1>3. ASSUME NEW p \in StdinProcs, StdinResume(p) PROVE StdinInv'
  <2>1. stdin_wait_state[p] = "none" /\ stdinWant[p] \in 0 .. StdinMaxLen
    BY <1>0, <1>3, SMTT(30) DEF StdinResume
  <2>2. CASE Try(p, stdinWant[p])
    BY <2>1, <2>2, StdinTryInv, SMTT(30)
  <2>3. CASE ~Try(p, stdinWant[p])
    BY <1>3, <2>1, <2>3, StdinEndInv DEF StdinResume
  <2> QED
    BY <2>2, <2>3
<1>4. ASSUME NEW p \in StdinProcs, NEW victim \in StdinProcs, StdinKill(p, victim) PROVE StdinInv'
  BY <1>4, StdinEndInv, SMTT(30)
<1>5. CASE UNCHANGED stdinVars
  BY <1>5 DEF stdinVars, StdinInv, StdinSound, StdinTypeOK, RingKeepsOrder, NoMissedKey, RingHolds, OnlyReadersWait
<1> QED
  BY <1>1, <1>2, <1>3, <1>4, <1>5, SMTT(30) DEF StdinNext

\* Whatever the size of the ring and however keys, reads and kills interleave, the
\* readers get the characters in the order typed, only the oldest of a full ring is
\* lost, and no thread sleeps in dev_stdin_read beside a character.
THEOREM StdinIsSound == ASSUME StdinAssumption PROVE StdinSpec => []StdinSound
<1>1. StdinInv => StdinSound
  BY DEF StdinInv
<1> QED
  BY StdinInitInv, StdinNextInv, <1>1, PTL DEF StdinSpec
=============================================================================
