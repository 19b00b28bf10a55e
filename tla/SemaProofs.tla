----------------------------- MODULE SemaProofs -----------------------------
(***************************************************************************)
(* The runtime's semaphores lose no token and no goroutine, for any number *)
(* of goroutines and semaphores, and nobody who waits on a sync.Cond, which*)
(* sleeps on those semaphores, is forgotten.                               *)
(***************************************************************************)
EXTENDS Sema, SyncCond, FiniteSetTheorems, TLAPS

\* Where a goroutine's record is in the list, and where semsleep1 has offered it
\* for a wake-up.
Queued == {"sleep1", "try", "undo", "sleep2", "dequeue"}
Offered == {"try", "undo", "sleep2"}

\* The list holds the record of every goroutine inside semacquire's loop, once.
ListOK ==
  /\ \A i, j \in 1 .. Len(list) : list[i] = list[j] => i = j
  /\ \A i \in 1 .. Len(list) : semaPc[list[i]] \in Queued
  /\ \A g \in SemaGs : semaPc[g] \in Queued => \E i \in 1 .. Len(list) : list[i] = g

\* A goroutine offered for a wake-up is listed or has been readied, not both; one
\* asleep is still listed; one that is runnable has been taken off.
SleepOK ==
  \A g \in SemaGs : /\ status[g] # "running" => semaPc[g] = "sleep1"
                    /\ status[g] = "Gwaiting" => listed[g]
                    /\ listed[g] => semaPc[g] \in Offered \/ status[g] = "Gwaiting"
                    /\ semaPc[g] \in Offered => (listed[g] <=> ~readyonstop[g])
                    /\ readyonstop[g] => semaPc[g] \in Offered

\* A goroutine that sleeps or is about to, and one on the way to notice a token.
Sleeper(g) == listed[g] /\ semaPc[g] \in {"sleep1", "sleep2"}
Noticer(h) == /\ status[h] # "Gwaiting"
              /\ \/ semaPc[h] \in {"sleep1", "try", "undo", "dequeue", "wakeup"}
                 \/ semaPc[h] = "sleep2" /\ readyonstop[h]

\* NoLostToken with the goroutines that have decided to sleep and have not yet.
TokenOK ==
  \A a \in Addrs : \A g \in SemaGs :
    count[a] > 0 /\ Sleeper(g) /\ addr[g] = a =>
      \E h \in SemaGs : addr[h] = a /\ Noticer(h)

\* The inductive invariant.
SemaInv == SemaTypeOK /\ ListOK /\ SleepOK /\ TokenOK

-----------------------------------------------------------------------------
\* The inductive invariant is stronger than SemaSound.
LEMMA IInvSound == SemaInv => SemaSound
<1> SUFFICES ASSUME SemaInv PROVE SemaSound
  OBVIOUS
<1>1. SemaTypeOK /\ SleepOK /\ TokenOK
  BY DEF SemaInv
<1>2. UndoFindsReady
  BY <1>1, Zenon DEF UndoFindsReady, SleepOK, Offered, SemaTypeOK
<1>3. NoLostToken
  <2> SUFFICES ASSUME NEW a \in Addrs, count[a] > 0,
                      NEW g \in SemaGs, status[g] = "Gwaiting", addr[g] = a
               PROVE  \E h \in SemaGs : addr[h] = a /\ Noticer(h)
    BY DEF NoLostToken, Noticer
  <2>1. Sleeper(g)
    BY <1>1 DEF SleepOK, Sleeper
  <2> QED
    BY <1>1, <2>1 DEF TokenOK
<1> QED
  BY <1>1, <1>2, <1>3 DEF SemaSound

\* Nobody has called semacquire yet.
LEMMA SemaStarts == ASSUME SemaAssumption PROVE SemaInit => SemaInv
<1> SUFFICES ASSUME SemaInit PROVE SemaInv
  OBVIOUS
<1>1. (CHOOSE a \in Addrs : TRUE) \in Addrs
  BY DEF SemaAssumption
<1>2. count \in [Addrs -> 0 .. MaxCount] /\ list \in Seq(SemaGs)
  BY DEF SemaInit, SemaAssumption
<1>3. SemaTypeOK
  BY <1>1, <1>2 DEF SemaTypeOK, SemaInit
<1>4. Len(list) = 0
  BY DEF SemaInit
<1>5. ListOK
  BY <1>4 DEF ListOK, SemaInit, Queued
<1>6. SleepOK /\ TokenOK
  BY DEF SleepOK, TokenOK, Sleeper, SemaInit, Offered
<1> QED
  BY <1>3, <1>5, <1>6 DEF SemaInv

-----------------------------------------------------------------------------
(* What each part of the invariant needs of a step. *)

\* A step that leaves the list alone keeps it sound if the goroutine that moves
\* stays inside the loop of semacquire, or outside it.
LEMMA ListKept ==
  ASSUME SemaTypeOK, ListOK, NEW g \in SemaGs, NEW label, semaPc' = [semaPc EXCEPT ![g] = label], list' = list,
         label \in Queued <=> semaPc[g] \in Queued
  PROVE  ListOK'
<1>1. list \in Seq(SemaGs) /\ semaPc \in [SemaGs -> {"out", "queue", "sleep1", "try", "undo", "sleep2",
                                                      "dequeue", "wakeup"}]
  BY DEF SemaTypeOK
<1>2. \A h \in SemaGs : semaPc'[h] \in Queued <=> semaPc[h] \in Queued
  BY <1>1
<1>3. \A i \in 1 .. Len(list) : list[i] \in SemaGs
  BY <1>1
<1> QED
  BY <1>2, <1>3 DEF ListOK

\* A step of g that leaves the other goroutines alone, lets no value grow, puts g
\* to sleep only on a semaphore that is 0, and leaves it a noticer if it was one and
\* there is something to notice.
LEMMA TokenKept ==
  ASSUME SemaTypeOK, TokenOK, NEW g \in SemaGs,
         \A a \in Addrs : count'[a] > 0 => count[a] > 0,
         \A h \in SemaGs : h # g => /\ addr'[h] = addr[h] /\ (Sleeper(h)' => Sleeper(h))
                                    /\ (Noticer(h) => Noticer(h)'),
         Sleeper(g)' => addr'[g] = addr[g] /\ (Sleeper(g) \/ ~(count'[addr[g]] > 0)),
         Noticer(g) => addr'[g] = addr[g] /\ (Noticer(g)' \/ ~(count'[addr[g]] > 0))
  PROVE  TokenOK'
<1> SUFFICES ASSUME NEW a \in Addrs, NEW k \in SemaGs, count'[a] > 0, Sleeper(k)', addr'[k] = a
             PROVE  \E h \in SemaGs : addr'[h] = a /\ Noticer(h)'
  BY DEF TokenOK
<1>1. Sleeper(k) /\ addr[k] = a /\ count[a] > 0
  OBVIOUS
<1>2. PICK h \in SemaGs : addr[h] = a /\ Noticer(h)
  BY <1>1 DEF TokenOK
<1> QED
  BY <1>2

\* A step that leaves a noticer of the semaphore whose value or sleepers it changes.
LEMMA TokenNoticed ==
  ASSUME SemaTypeOK, TokenOK, NEW g \in SemaGs, NEW n \in SemaGs, Noticer(n)', addr'[n] = addr'[g],
         \A a \in Addrs : a # addr'[g] => count'[a] = count[a],
         \A h \in SemaGs : h # g /\ h # n => /\ addr'[h] = addr[h] /\ (Sleeper(h)' => Sleeper(h))
                                             /\ (Noticer(h) => Noticer(h)'),
         Noticer(g) => addr'[g] = addr[g],
         Noticer(n) => addr'[n] = addr[n]
  PROVE  TokenOK'
<1> SUFFICES ASSUME NEW a \in Addrs, NEW k \in SemaGs, count'[a] > 0, Sleeper(k)', addr'[k] = a,
                    a # addr'[g]
             PROVE  \E h \in SemaGs : addr'[h] = a /\ Noticer(h)'
  BY DEF TokenOK
<1>1. k # g /\ k # n
  OBVIOUS
<1>2. Sleeper(k) /\ addr[k] = a /\ count[a] > 0
  BY <1>1
<1>3. PICK h \in SemaGs : addr[h] = a /\ Noticer(h)
  BY <1>2 DEF TokenOK
<1>4. h # g /\ h # n
  BY <1>3
<1> QED
  BY <1>3, <1>4

-----------------------------------------------------------------------------
\* The value changes by one within its bounds.
LEMMA CountMoves ==
  ASSUME SemaAssumption, SemaTypeOK, NEW a \in Addrs
  PROVE  /\ count[a] > 0 => [count EXCEPT ![a] = @ - 1] \in [Addrs -> 0 .. MaxCount]
         /\ count[a] < MaxCount => [count EXCEPT ![a] = @ + 1] \in [Addrs -> 0 .. MaxCount]
         /\ \A b \in Addrs : [count EXCEPT ![a] = @ - 1][b] > 0 => count[b] > 0
         /\ count[a] \in Nat
<1>1. /\ count \in [Addrs -> 0 .. MaxCount] /\ MaxCount \in Nat
      /\ \A b \in Addrs : count[b] \in 0 .. MaxCount
  BY DEF SemaTypeOK, SemaAssumption
<1> QED
  BY <1>1

\* semacquire's easy case and its way in, and semrelease's cas.
LEMMA EnterKeeps ==
  ASSUME SemaAssumption, SemaInv, NEW g \in SemaGs, NEW a \in Addrs, semacquire(g, a) \/ semrelease(g, a)
  PROVE  SemaInv'
<1>1. SemaTypeOK /\ ListOK /\ SleepOK /\ TokenOK
  BY DEF SemaInv
<1>2. /\ semaPc[g] = "out" /\ list' = list /\ listed' = listed /\ status' = status
      /\ readyonstop' = readyonstop /\ status[g] = "running"
  BY DEF semacquire, semrelease, SemaAt
<1>3. /\ semaPc \in [SemaGs -> {"out", "queue", "sleep1", "try", "undo", "sleep2", "dequeue", "wakeup"}]
      /\ status \in [SemaGs -> {"running", "Gwaiting", "Grunnable"}] /\ addr \in [SemaGs -> Addrs]
  BY <1>1 DEF SemaTypeOK
<1>4. ~listed[g] /\ ~readyonstop[g]
  BY <1>1, <1>2 DEF SleepOK, Offered
<1>5. \E label \in {"out", "queue", "wakeup"} : semaPc' = [semaPc EXCEPT ![g] = label]
  <2>1. CASE semacquire(g, a)
    <3>1. semaPc' = semaPc \/ semaPc' = [semaPc EXCEPT ![g] = "queue"]
      BY <2>1 DEF semacquire, SemaGoto
    <3>2. semaPc = [semaPc EXCEPT ![g] = "out"]
      BY <1>2, <1>3
    <3> QED
      BY <3>1, <3>2
  <2>2. CASE semrelease(g, a)
    BY <2>2 DEF semrelease, SemaGoto
  <2> QED
    BY <2>1, <2>2
<1>6. count' \in [Addrs -> 0 .. MaxCount] /\ (addr' = addr \/ addr' = [addr EXCEPT ![g] = a])
  <2>1. addr' = addr \/ addr' = [addr EXCEPT ![g] = a]
    BY DEF semacquire, semrelease
  <2>2. \/ count' = count
        \/ count[a] > 0 /\ count' = [count EXCEPT ![a] = @ - 1]
        \/ count[a] < MaxCount /\ count' = [count EXCEPT ![a] = @ + 1]
    BY DEF semacquire, semrelease
  <2>3. count' \in [Addrs -> 0 .. MaxCount]
    <3>1. count \in [Addrs -> 0 .. MaxCount]
      BY <1>1 DEF SemaTypeOK
    <3>2. /\ count[a] > 0 => [count EXCEPT ![a] = @ - 1] \in [Addrs -> 0 .. MaxCount]
          /\ count[a] < MaxCount => [count EXCEPT ![a] = @ + 1] \in [Addrs -> 0 .. MaxCount]
      BY <1>1, CountMoves
    <3> QED
      BY <2>2, <3>1, <3>2
  <2> QED
    BY <2>1, <2>3
<1>7. SemaTypeOK'
  BY <1>1, <1>2, <1>3, <1>5, <1>6, Zenon DEF SemaTypeOK
<1>8. ListOK'
  BY <1>1, <1>2, <1>5, ListKept, Zenon DEF Queued
<1>9. /\ \A h \in SemaGs : h # g => semaPc'[h] = semaPc[h] /\ addr'[h] = addr[h]
      /\ semaPc'[g] \in {"out", "queue", "wakeup"}
  BY <1>3, <1>5, <1>6
<1>10. SleepOK'
  <2>1. /\ status'[g] = "running" /\ ~listed'[g] /\ ~readyonstop'[g] /\ semaPc'[g] \notin Offered
    BY <1>2, <1>4, <1>9 DEF Offered
  <2> QED
    BY <1>1, <1>2, <1>9, <2>1 DEF SleepOK
<1>11. /\ \A h \in SemaGs : h # g => (Sleeper(h)' <=> Sleeper(h)) /\ (Noticer(h)' <=> Noticer(h))
       /\ ~Sleeper(g)' /\ ~Noticer(g)
  BY <1>2, <1>4, <1>9 DEF Sleeper, Noticer
<1>12. TokenOK'
  <2>1. CASE semacquire(g, a)
    <3>1. \A b \in Addrs : count'[b] > 0 => count[b] > 0
      BY <1>1, <2>1, CountMoves DEF semacquire
    <3> QED
      BY <1>1, <1>9, <1>11, <3>1, TokenKept
  <2>2. CASE semrelease(g, a)
    <3>1. Noticer(g)' /\ addr'[g] = a /\ \A b \in Addrs : b # a => count'[b] = count[b]
      BY <1>1, <1>2, <1>3, <2>2 DEF semrelease, Noticer, SemaGoto, SemaTypeOK
    <3> QED
      BY <1>1, <1>9, <1>11, <3>1, TokenNoticed
  <2> QED
    BY <2>1, <2>2
<1> QED
  BY <1>7, <1>8, <1>10, <1>12 DEF SemaInv

-----------------------------------------------------------------------------
\* semqueue and semdequeue: the goroutine's record joins and leaves the list.
LEMMA AppendKeepsList ==
  ASSUME SemaTypeOK, ListOK, NEW g \in SemaGs, semaPc[g] = "queue", list' = Append(list, g),
         semaPc' = [semaPc EXCEPT ![g] = "sleep1"]
  PROVE  ListOK' /\ list' \in Seq(SemaGs)
<1>1. /\ list \in Seq(SemaGs) /\ Len(list) \in Nat
      /\ semaPc \in [SemaGs -> {"out", "queue", "sleep1", "try", "undo", "sleep2", "dequeue", "wakeup"}]
  BY DEF SemaTypeOK
<1>2. /\ list' \in Seq(SemaGs) /\ Len(list') = Len(list) + 1 /\ list'[Len(list) + 1] = g
      /\ \A i \in 1 .. Len(list) : list'[i] = list[i] /\ list[i] \in SemaGs
  BY <1>1
<1>3. \A i \in 1 .. Len(list') : i \in 1 .. Len(list) \/ i = Len(list) + 1
  BY <1>1, <1>2
<1>4. \A i \in 1 .. Len(list) : list[i] # g
  BY DEF ListOK, Queued
<1>5. /\ \A h \in SemaGs : h # g => semaPc'[h] = semaPc[h]
      /\ semaPc'[g] = "sleep1"
  BY <1>1
<1>6. \A i, j \in 1 .. Len(list') : list'[i] = list'[j] => i = j
  BY <1>2, <1>3, <1>4 DEF ListOK
<1>7. \A i \in 1 .. Len(list') : semaPc'[list'[i]] \in Queued
  BY <1>2, <1>3, <1>5 DEF ListOK, Queued
<1>8. \A h \in SemaGs : semaPc'[h] \in Queued => \E i \in 1 .. Len(list') : list'[i] = h
  <2> TAKE h \in SemaGs
  <2>1. CASE h = g
    <3>1. Len(list) + 1 \in 1 .. Len(list')
      BY <1>1, <1>2
    <3> QED
      BY <1>2, <2>1, <3>1
  <2>2. ASSUME h # g, semaPc'[h] \in Queued PROVE \E i \in 1 .. Len(list') : list'[i] = h
    <3>1. PICK i \in 1 .. Len(list) : list[i] = h
      BY <1>5, <2>2 DEF ListOK
    <3>2. i \in 1 .. Len(list')
      BY <1>1, <1>2, <3>1
    <3> QED
      BY <1>2, <3>1, <3>2
  <2> QED
    BY <2>1, <2>2
<1> QED
  BY <1>2, <1>6, <1>7, <1>8 DEF ListOK

\* See AppendKeepsList: the record that leaves is the goroutine's only one.
LEMMA DequeueKeepsList ==
  ASSUME SemaTypeOK, ListOK, NEW g \in SemaGs, Dequeue(g), semaPc' = [semaPc EXCEPT ![g] = "wakeup"]
  PROVE  ListOK' /\ list' \in Seq(SemaGs)
<1>1. /\ list \in Seq(SemaGs) /\ Len(list) \in Nat /\ DOMAIN list = 1 .. Len(list)
      /\ semaPc \in [SemaGs -> {"out", "queue", "sleep1", "try", "undo", "sleep2", "dequeue", "wakeup"}]
      /\ \A i \in 1 .. Len(list) : list[i] \in SemaGs
  BY DEF SemaTypeOK
<1>2. PICK x \in 1 .. Len(list) :
        list[x] = g /\ list' = [j \in 1 .. Len(list) - 1 |-> list[IF j < x THEN j ELSE j + 1]]
  BY <1>1 DEF Dequeue
<1> DEFINE from(j) == IF j < x THEN j ELSE j + 1
<1>3. /\ \A j \in 1 .. Len(list) - 1 : from(j) \in 1 .. Len(list) /\ from(j) # x
      /\ \A i, j \in 1 .. Len(list) - 1 : from(i) = from(j) => i = j
      /\ \A i \in 1 .. Len(list) : i # x => \E j \in 1 .. Len(list) - 1 : from(j) = i
  <2>1. \A j \in 1 .. Len(list) - 1 : from(j) \in 1 .. Len(list) /\ from(j) # x
    BY <1>1, <1>2
  <2>2. \A i, j \in 1 .. Len(list) - 1 : from(i) = from(j) => i = j
    BY <1>1, <1>2
  <2>3. ASSUME NEW i \in 1 .. Len(list), i # x PROVE \E j \in 1 .. Len(list) - 1 : from(j) = i
    <3>1. CASE i < x
      <4>1. i \in 1 .. Len(list) - 1 /\ from(i) = i
        BY <1>1, <1>2, <3>1
      <4> QED
        BY <4>1
    <3>2. CASE i > x
      <4>1. i - 1 \in 1 .. Len(list) - 1 /\ from(i - 1) = i
        BY <1>1, <1>2, <3>2
      <4> QED
        BY <4>1
    <3> QED
      BY <1>1, <1>2, <2>3, <3>1, <3>2
  <2> QED
    BY <2>1, <2>2, <2>3
<1>4. list' = [j \in 1 .. Len(list) - 1 |-> list[from(j)]]
  BY <1>2
<1> HIDE DEF from
<1>5. Len(list) - 1 \in Nat
  BY <1>1, <1>2
<1>6. \A j \in 1 .. Len(list) - 1 : list'[j] = list[from(j)] /\ list'[j] \in SemaGs /\ list'[j] # g
  BY <1>1, <1>2, <1>3, <1>4 DEF ListOK
<1>7. list' \in Seq(SemaGs) /\ Len(list') = Len(list) - 1
  BY <1>4, <1>5, <1>6
<1>8. /\ \A h \in SemaGs : h # g => semaPc'[h] = semaPc[h]
      /\ semaPc'[g] \notin Queued
  BY <1>1 DEF Queued
<1>9. \A i, j \in 1 .. Len(list') : list'[i] = list'[j] => i = j
  BY <1>3, <1>6, <1>7 DEF ListOK
<1>10. \A i \in 1 .. Len(list') : semaPc'[list'[i]] \in Queued
  BY <1>3, <1>6, <1>7, <1>8 DEF ListOK
<1>11. \A h \in SemaGs : semaPc'[h] \in Queued => \E i \in 1 .. Len(list') : list'[i] = h
  <2> SUFFICES ASSUME NEW h \in SemaGs, semaPc'[h] \in Queued
               PROVE  \E i \in 1 .. Len(list') : list'[i] = h
    OBVIOUS
  <2>1. h # g /\ semaPc[h] \in Queued
    BY <1>8
  <2>2. PICK i \in 1 .. Len(list) : list[i] = h
    BY <2>1 DEF ListOK
  <2>3. PICK j \in 1 .. Len(list) - 1 : from(j) = i
    BY <1>2, <1>3, <2>1, <2>2
  <2> QED
    BY <1>6, <1>7, <2>2, <2>3
<1> QED
  BY <1>7, <1>9, <1>10, <1>11 DEF ListOK

-----------------------------------------------------------------------------
\* What SleepOK says of one goroutine.
Settled(g) ==
  /\ status[g] # "running" => semaPc[g] = "sleep1"
  /\ status[g] = "Gwaiting" => listed[g]
  /\ listed[g] => semaPc[g] \in Offered \/ status[g] = "Gwaiting"
  /\ semaPc[g] \in Offered => (listed[g] <=> ~readyonstop[g])
  /\ readyonstop[g] => semaPc[g] \in Offered

\* A step of g inside semacquire keeps the invariant if it does for g alone.
LEMMA MoveKeeps ==
  ASSUME SemaInv, NEW g \in SemaGs, SemaTypeOK', ListOK', addr' = addr,
         \A a \in Addrs : count'[a] > 0 => count[a] > 0,
         \A h \in SemaGs : h # g => /\ semaPc'[h] = semaPc[h] /\ status'[h] = status[h]
                                    /\ listed'[h] = listed[h] /\ readyonstop'[h] = readyonstop[h],
         Settled(g)',
         Sleeper(g)' => Sleeper(g) \/ ~(count'[addr[g]] > 0),
         Noticer(g) => Noticer(g)' \/ ~(count'[addr[g]] > 0)
  PROVE  SemaInv'
<1>1. SemaTypeOK /\ SleepOK /\ TokenOK
  BY DEF SemaInv
<1>2. SleepOK'
  <2> SUFFICES ASSUME NEW h \in SemaGs PROVE Settled(h)'
    BY DEF SleepOK, Settled
  <2>1. CASE h = g
    BY <2>1
  <2>2. CASE h # g
    BY <1>1, <2>2 DEF SleepOK, Settled
  <2> QED
    BY <2>1, <2>2
<1>3. \A h \in SemaGs : h # g => (Sleeper(h)' <=> Sleeper(h)) /\ (Noticer(h)' <=> Noticer(h))
  BY DEF Sleeper, Noticer
<1>4. TokenOK'
  BY <1>1, <1>3, TokenKept
<1> QED
  BY <1>2, <1>4 DEF SemaInv

\* semqueue and semdequeue.
LEMMA ListStepsKeep ==
  ASSUME SemaAssumption, SemaInv, NEW g \in SemaGs, semqueue(g) \/ semdequeue(g)
  PROVE  SemaInv'
<1>1. SemaTypeOK /\ ListOK /\ SleepOK
  BY DEF SemaInv
<1>2. /\ count' = count /\ listed' = listed /\ addr' = addr /\ status' = status
      /\ readyonstop' = readyonstop /\ status[g] = "running"
  BY DEF semqueue, semdequeue, SemaAt
<1>3. \/ semaPc[g] = "queue" /\ semaPc' = [semaPc EXCEPT ![g] = "sleep1"] /\ list' = Append(list, g)
      \/ semaPc[g] = "dequeue" /\ semaPc' = [semaPc EXCEPT ![g] = "wakeup"] /\ Dequeue(g)
  BY DEF semqueue, semdequeue, SemaAt, SemaGoto
<1>4. ListOK' /\ list' \in Seq(SemaGs)
  BY <1>1, <1>3, AppendKeepsList, DequeueKeepsList
<1>5. semaPc \in [SemaGs -> {"out", "queue", "sleep1", "try", "undo", "sleep2", "dequeue", "wakeup"}]
  BY <1>1 DEF SemaTypeOK
<1>6. /\ \A h \in SemaGs : h # g => semaPc'[h] = semaPc[h]
      /\ semaPc'[g] \in {"sleep1", "wakeup"}
      /\ semaPc' \in [SemaGs -> {"out", "queue", "sleep1", "try", "undo", "sleep2", "dequeue", "wakeup"}]
  BY <1>3, <1>5
<1>7. SemaTypeOK'
  BY <1>1, <1>2, <1>4, <1>6 DEF SemaTypeOK
<1>8. ~listed[g] /\ ~readyonstop[g]
  BY <1>1, <1>2, <1>3 DEF SleepOK, Offered
<1>9. Settled(g)' /\ ~Sleeper(g)' /\ Noticer(g)'
  BY <1>2, <1>6, <1>8 DEF Settled, Sleeper, Noticer, Offered
<1> QED
  BY <1>2, <1>4, <1>6, <1>7, <1>9, MoveKeeps

\* semsleep1, cansemacquire, semsleepundo1, semsleep2 and schedule.
LEMMA LoopKeeps ==
  ASSUME SemaAssumption, SemaInv, NEW g \in SemaGs,
         \/ semsleep1(g) \/ cansemacquire(g) \/ semsleepundo1(g) \/ semsleep2(g) \/ schedule(g)
  PROVE  SemaInv'
<1>1. SemaTypeOK /\ ListOK /\ SleepOK
  BY DEF SemaInv
<1>2. /\ semaPc \in [SemaGs -> {"out", "queue", "sleep1", "try", "undo", "sleep2", "dequeue", "wakeup"}]
      /\ status \in [SemaGs -> {"running", "Gwaiting", "Grunnable"}]
      /\ listed \in [SemaGs -> BOOLEAN] /\ readyonstop \in [SemaGs -> BOOLEAN]
      /\ addr[g] \in Addrs
  BY <1>1 DEF SemaTypeOK
<1>3. Settled(g)
  BY <1>1 DEF SleepOK, Settled
<1>4. list' = list /\ addr' = addr
  BY Zenon DEF semsleep1, cansemacquire, semsleepundo1, semsleep2, schedule
<1>5. ASSUME NEW label \in Queued, semaPc[g] \in Queued, semaPc' = [semaPc EXCEPT ![g] = label],
             count' \in [Addrs -> 0 .. MaxCount],
             \A a \in Addrs : count'[a] > 0 => count[a] > 0,
             status' \in [SemaGs -> {"running", "Gwaiting", "Grunnable"}],
             listed' \in [SemaGs -> BOOLEAN], readyonstop' \in [SemaGs -> BOOLEAN],
             \A h \in SemaGs : h # g => /\ status'[h] = status[h]
                                        /\ listed'[h] = listed[h] /\ readyonstop'[h] = readyonstop[h],
             Settled(g)',
             Sleeper(g)' => Sleeper(g) \/ ~(count'[addr[g]] > 0),
             Noticer(g) => Noticer(g)' \/ ~(count'[addr[g]] > 0)
      PROVE  SemaInv'
  <2>1. semaPc' \in [SemaGs -> {"out", "queue", "sleep1", "try", "undo", "sleep2", "dequeue", "wakeup"}]
    BY <1>2, <1>5 DEF Queued
  <2>2. SemaTypeOK'
    BY <1>1, <1>4, <1>5, <2>1 DEF SemaTypeOK
  <2>3. ListOK'
    BY <1>1, <1>4, <1>5, ListKept, Zenon
  <2>4. \A h \in SemaGs : h # g => semaPc'[h] = semaPc[h]
    BY <1>2, <1>5
  <2> QED
    BY <1>4, <1>5, <2>2, <2>3, <2>4, MoveKeeps
<1>6. count \in [Addrs -> 0 .. MaxCount]
  BY <1>1 DEF SemaTypeOK
<1>7. CASE semsleep1(g)
  <2>1. /\ semaPc[g] = "sleep1" /\ status[g] = "running" /\ semaPc' = [semaPc EXCEPT ![g] = "try"]
        /\ listed' = [listed EXCEPT ![g] = TRUE] /\ count' = count /\ status' = status
        /\ readyonstop' = readyonstop
    BY <1>7 DEF semsleep1, SemaAt, SemaGoto
  <2>2. semaPc'[g] = "try" /\ listed'[g] /\ ~readyonstop[g]
    BY <1>2, <1>3, <2>1 DEF Settled, Offered
  <2>3. Settled(g)' /\ ~Sleeper(g)' /\ Noticer(g)'
    BY <2>1, <2>2 DEF Settled, Sleeper, Noticer, Offered
  <2>4. /\ listed' \in [SemaGs -> BOOLEAN]
        /\ \A h \in SemaGs : h # g => listed'[h] = listed[h]
    BY <1>2, <2>1
  <2>5. "try" \in Queued /\ semaPc[g] \in Queued
    BY <2>1 DEF Queued
  <2> QED
    BY <1>2, <1>5, <1>6, <2>1, <2>3, <2>4, <2>5, Zenon
<1>8. CASE cansemacquire(g)
  <2>1. /\ semaPc[g] = "try" /\ status[g] = "running" /\ listed' = listed /\ status' = status
        /\ readyonstop' = readyonstop
    BY <1>8 DEF cansemacquire, SemaAt
  <2>2. semaPc[g] \in Queued /\ "undo" \in Queued /\ "sleep2" \in Queued
    BY <2>1 DEF Queued
  <2>3. CASE /\ count[addr[g]] > 0 /\ count' = [count EXCEPT ![addr[g]] = @ - 1]
             /\ semaPc' = [semaPc EXCEPT ![g] = "undo"]
    <3>1. semaPc'[g] = "undo"
      BY <1>2, <2>3
    <3>2. Settled(g)' /\ ~Sleeper(g)' /\ Noticer(g)'
      BY <1>3, <2>1, <3>1 DEF Settled, Sleeper, Noticer, Offered
    <3>3. /\ count' \in [Addrs -> 0 .. MaxCount]
          /\ \A a \in Addrs : count'[a] > 0 => count[a] > 0
      BY <1>1, <1>2, <2>3, CountMoves
    <3> QED
      BY <1>2, <1>5, <2>1, <2>2, <2>3, <3>2, <3>3, Zenon
  <2>4. CASE count[addr[g]] = 0 /\ count' = count /\ semaPc' = [semaPc EXCEPT ![g] = "sleep2"]
    <3>1. semaPc'[g] = "sleep2" /\ ~(count'[addr[g]] > 0)
      BY <1>2, <2>4
    <3>2. Settled(g)'
      BY <1>3, <2>1, <3>1 DEF Settled, Offered
    <3>3. ASSUME NEW a \in Addrs, count'[a] > 0 PROVE count[a] > 0
      BY <2>4, <3>3
    <3> QED
      BY <1>2, <1>5, <1>6, <2>1, <2>2, <2>4, <3>1, <3>2, <3>3, Zenon
  <2> QED
    BY <1>8, <2>3, <2>4 DEF cansemacquire, SemaGoto
<1>9. CASE semsleepundo1(g)
  <2>1. /\ semaPc[g] = "undo" /\ status[g] = "running" /\ semaPc' = [semaPc EXCEPT ![g] = "dequeue"]
        /\ listed' = [listed EXCEPT ![g] = FALSE] /\ count' = count /\ status' = status
        /\ readyonstop' = [readyonstop EXCEPT ![g] = IF listed[g] THEN @ ELSE FALSE]
    BY <1>9 DEF semsleepundo1, SemaAt, SemaGoto
  <2>2. semaPc'[g] = "dequeue" /\ ~listed'[g] /\ ~readyonstop'[g]
    BY <1>2, <1>3, <2>1 DEF Settled, Offered
  <2>3. Settled(g)' /\ ~Sleeper(g)' /\ Noticer(g)'
    BY <2>1, <2>2 DEF Settled, Sleeper, Noticer, Offered
  <2>4. /\ listed' \in [SemaGs -> BOOLEAN] /\ readyonstop' \in [SemaGs -> BOOLEAN]
        /\ \A h \in SemaGs : h # g => listed'[h] = listed[h] /\ readyonstop'[h] = readyonstop[h]
    BY <1>2, <2>1, Zenon
  <2>5. "dequeue" \in Queued /\ semaPc[g] \in Queued
    BY <2>1 DEF Queued
  <2> QED
    BY <1>2, <1>5, <1>6, <2>1, <2>3, <2>4, <2>5, Zenon
<1>10. CASE semsleep2(g)
  <2>1. /\ semaPc[g] = "sleep2" /\ status[g] = "running" /\ semaPc' = [semaPc EXCEPT ![g] = "sleep1"]
        /\ status' = [status EXCEPT ![g] = IF readyonstop[g] THEN "Grunnable" ELSE "Gwaiting"]
        /\ readyonstop' = [readyonstop EXCEPT ![g] = FALSE] /\ listed' = listed /\ count' = count
    BY <1>10 DEF semsleep2, SemaAt, SemaGoto
  <2>2. /\ semaPc'[g] = "sleep1" /\ ~readyonstop'[g] /\ (listed[g] <=> ~readyonstop[g])
        /\ status'[g] = IF readyonstop[g] THEN "Grunnable" ELSE "Gwaiting"
    BY <1>2, <1>3, <2>1 DEF Settled, Offered
  <2>3. Settled(g)' /\ (Sleeper(g)' => Sleeper(g)) /\ (Noticer(g) => Noticer(g)')
    BY <2>1, <2>2 DEF Settled, Sleeper, Noticer, Offered
  <2>4. /\ status' \in [SemaGs -> {"running", "Gwaiting", "Grunnable"}]
        /\ readyonstop' \in [SemaGs -> BOOLEAN]
        /\ \A h \in SemaGs : h # g => status'[h] = status[h] /\ readyonstop'[h] = readyonstop[h]
    BY <1>2, <2>1
  <2>5. "sleep1" \in Queued /\ semaPc[g] \in Queued
    BY <2>1 DEF Queued
  <2> QED
    BY <1>2, <1>5, <1>6, <2>1, <2>3, <2>4, <2>5, Zenon
<1>11. CASE schedule(g)
  <2>1. /\ status[g] = "Grunnable" /\ status' = [status EXCEPT ![g] = "running"]
        /\ readyonstop' = [readyonstop EXCEPT ![g] = FALSE] /\ listed' = listed /\ count' = count
        /\ semaPc' = semaPc
    BY <1>11 DEF schedule
  <2>2. semaPc[g] = "sleep1" /\ ~listed[g]
    BY <1>3, <2>1 DEF Settled, Offered
  <2>3. semaPc' = [semaPc EXCEPT ![g] = "sleep1"]
    BY <1>2, <2>1, <2>2
  <2>4. /\ status' \in [SemaGs -> {"running", "Gwaiting", "Grunnable"}]
        /\ readyonstop' \in [SemaGs -> BOOLEAN]
        /\ \A h \in SemaGs : h # g => status'[h] = status[h] /\ readyonstop'[h] = readyonstop[h]
        /\ status'[g] = "running" /\ ~readyonstop'[g]
    BY <1>2, <2>1
  <2>5. Settled(g)' /\ ~Sleeper(g)' /\ Noticer(g)'
    BY <2>1, <2>2, <2>4 DEF Settled, Sleeper, Noticer, Offered
  <2>6. "sleep1" \in Queued /\ semaPc[g] \in Queued
    BY <2>2 DEF Queued
  <2> QED
    BY <1>2, <1>5, <1>6, <2>1, <2>3, <2>4, <2>5, <2>6, Zenon
<1> QED
  BY <1>7, <1>8, <1>9, <1>10, <1>11

\* The semwakeup that ends semacquire and semrelease: whoever it readies notices
\* the token that is left, and if there is nobody to ready nobody sleeps.
LEMMA WakeupKeeps ==
  ASSUME SemaAssumption, SemaInv, NEW g \in SemaGs, Wakeup(g)
  PROVE  SemaInv'
<1>1. SemaTypeOK /\ ListOK /\ SleepOK /\ TokenOK
  BY DEF SemaInv
<1>2. /\ semaPc \in [SemaGs -> {"out", "queue", "sleep1", "try", "undo", "sleep2", "dequeue", "wakeup"}]
      /\ status \in [SemaGs -> {"running", "Gwaiting", "Grunnable"}]
      /\ listed \in [SemaGs -> BOOLEAN] /\ readyonstop \in [SemaGs -> BOOLEAN]
      /\ addr \in [SemaGs -> Addrs] /\ list \in Seq(SemaGs) /\ DOMAIN list = 1 .. Len(list)
  BY <1>1 DEF SemaTypeOK
<1>3. /\ semaPc[g] = "wakeup" /\ status[g] = "running" /\ semaPc' = [semaPc EXCEPT ![g] = "out"]
      /\ count' = count /\ list' = list /\ addr' = addr /\ semwakeup(addr[g])
  BY DEF Wakeup, SemaAt, SemaGoto
<1>4. ListOK'
  BY <1>1, <1>3, ListKept, Zenon DEF Queued
<1>5. /\ \A h \in SemaGs : h # g => semaPc'[h] = semaPc[h]
      /\ semaPc' \in [SemaGs -> {"out", "queue", "sleep1", "try", "undo", "sleep2", "dequeue", "wakeup"}]
      /\ semaPc'[g] = "out"
  BY <1>2, <1>3
<1>6. Settled(g) /\ ~listed[g] /\ ~readyonstop[g]
  BY <1>1, <1>3 DEF SleepOK, Settled, Offered
<1>7. CASE Candidates(addr[g]) = {} /\ UNCHANGED <<listed, status, readyonstop>>
  <2>1. SemaTypeOK'
    BY <1>1, <1>3, <1>5, <1>7 DEF SemaTypeOK
  <2>2. SleepOK'
    <3> SUFFICES ASSUME NEW h \in SemaGs PROVE Settled(h)'
      BY DEF SleepOK, Settled
    <3>1. CASE h = g
      BY <1>3, <1>5, <1>6, <1>7, <3>1 DEF Settled, Offered
    <3>2. CASE h # g
      BY <1>1, <1>5, <1>7, <3>2 DEF SleepOK, Settled
    <3> QED
      BY <3>1, <3>2
  <2>3. TokenOK'
    <3> SUFFICES ASSUME NEW a \in Addrs, NEW k \in SemaGs, count[a] > 0, Sleeper(k)', addr[k] = a
                 PROVE  \E h \in SemaGs : addr[h] = a /\ Noticer(h)'
      BY <1>3 DEF TokenOK
    <3>1. k # g /\ listed[k] /\ semaPc[k] \in {"sleep1", "sleep2"}
      BY <1>5, <1>7 DEF Sleeper
    <3>2. PICK i \in 1 .. Len(list) : list[i] = k
      BY <1>1, <3>1 DEF ListOK, Queued
    <3>3. a # addr[g]
      BY <1>2, <1>7, <3>1, <3>2 DEF Candidates
    <3>4. PICK h \in SemaGs : addr[h] = a /\ Noticer(h)
      BY <1>1, <3>1 DEF TokenOK, Sleeper
    <3>5. h # g
      BY <3>3, <3>4
    <3> QED
      BY <1>5, <1>7, <3>4, <3>5 DEF Noticer
  <2> QED
    BY <1>4, <2>1, <2>2, <2>3 DEF SemaInv
<1>8. CASE \E i \in Candidates(addr[g]) :
             LET h == list[i] IN
             /\ listed' = [listed EXCEPT ![h] = FALSE]
             /\ status' = [status EXCEPT ![h] = IF @ = "running" THEN @ ELSE "Grunnable"]
             /\ readyonstop' = [readyonstop EXCEPT ![h] = IF status[h] = "running" THEN TRUE ELSE @]
  <2>1. PICK w \in SemaGs :
          /\ addr[w] = addr[g] /\ listed[w]
          /\ listed' = [listed EXCEPT ![w] = FALSE]
          /\ status' = [status EXCEPT ![w] = IF @ = "running" THEN @ ELSE "Grunnable"]
          /\ readyonstop' = [readyonstop EXCEPT ![w] = IF status[w] = "running" THEN TRUE ELSE @]
    <3>1. PICK i \in Candidates(addr[g]) :
            LET h == list[i] IN
            /\ listed' = [listed EXCEPT ![h] = FALSE]
            /\ status' = [status EXCEPT ![h] = IF @ = "running" THEN @ ELSE "Grunnable"]
            /\ readyonstop' = [readyonstop EXCEPT ![h] = IF status[h] = "running" THEN TRUE ELSE @]
      BY <1>8, Zenon
    <3>2. list[i] \in SemaGs /\ addr[list[i]] = addr[g] /\ listed[list[i]]
      BY <1>2 DEF Candidates
    <3> QED
      BY <3>1, <3>2, Zenon
  <2>2. w # g /\ Settled(w)
    BY <1>1, <1>6, <2>1 DEF SleepOK, Settled
  <2>3. /\ listed' \in [SemaGs -> BOOLEAN] /\ readyonstop' \in [SemaGs -> BOOLEAN]
        /\ \A h \in SemaGs : h # w => listed'[h] = listed[h] /\ readyonstop'[h] = readyonstop[h]
        /\ ~listed'[w]
    BY <1>2, <2>1, Zenon
  <2>4. /\ status' \in [SemaGs -> {"running", "Gwaiting", "Grunnable"}]
        /\ \A h \in SemaGs : h # w => status'[h] = status[h]
        /\ status[w] = "running" => status'[w] = "running" /\ readyonstop'[w]
        /\ status[w] # "running" => status'[w] = "Grunnable" /\ readyonstop'[w] = readyonstop[w]
    BY <1>2, <2>1, Zenon
  <2>5. SemaTypeOK'
    BY <1>1, <1>3, <1>5, <2>3, <2>4 DEF SemaTypeOK
  <2>6. semaPc'[w] = semaPc[w] /\ status[w] \in {"running", "Gwaiting", "Grunnable"}
    BY <1>2, <1>5, <2>2
  <2>7. Settled(w)' /\ Noticer(w)' /\ addr'[w] = addr'[g]
    <3>1. CASE status[w] = "running"
      BY <1>3, <2>1, <2>2, <2>3, <2>4, <2>6, <3>1 DEF Settled, Noticer, Offered
    <3>2. CASE status[w] # "running"
      BY <1>3, <2>1, <2>2, <2>3, <2>4, <2>6, <3>2 DEF Settled, Noticer, Offered
    <3> QED
      BY <3>1, <3>2
  <2>8. SleepOK'
    <3> SUFFICES ASSUME NEW h \in SemaGs PROVE Settled(h)'
      BY DEF SleepOK, Settled
    <3>1. CASE h = g
      BY <1>3, <1>5, <1>6, <2>2, <2>3, <2>4, <3>1 DEF Settled, Offered
    <3>2. CASE h = w
      BY <2>7, <3>2
    <3>3. CASE h # g /\ h # w
      BY <1>1, <1>5, <2>3, <2>4, <3>3 DEF SleepOK, Settled
    <3> QED
      BY <3>1, <3>2, <3>3
  <2>9. \A h \in SemaGs : h # g /\ h # w => (Sleeper(h)' <=> Sleeper(h)) /\ (Noticer(h)' <=> Noticer(h))
    BY <1>5, <2>3, <2>4 DEF Sleeper, Noticer
  <2>10. TokenOK'
    BY <1>1, <1>3, <2>7, <2>9, TokenNoticed
  <2> QED
    BY <1>4, <2>5, <2>8, <2>10 DEF SemaInv
<1> QED
  BY <1>3, <1>7, <1>8, Zenon DEF semwakeup

\* Every step keeps the invariant.
LEMMA NextIInv == ASSUME SemaAssumption PROVE SemaInv /\ [SemaNext]_semaVars => SemaInv'
<1> SUFFICES ASSUME SemaInv, [SemaNext]_semaVars PROVE SemaInv'
  OBVIOUS
<1>1. ASSUME NEW g \in SemaGs, SemaStep(g) PROVE SemaInv'
  BY <1>1, ListStepsKeep, LoopKeeps, WakeupKeeps DEF SemaStep
<1>2. ASSUME NEW g \in SemaGs, NEW a \in Addrs, semacquire(g, a) \/ semrelease(g, a) PROVE SemaInv'
  BY <1>2, EnterKeeps
<1>3. CASE UNCHANGED semaVars
  <2>1. /\ count' = count /\ list' = list /\ listed' = listed /\ addr' = addr /\ semaPc' = semaPc
        /\ status' = status /\ readyonstop' = readyonstop
    BY <1>3 DEF semaVars
  <2>2. SemaTypeOK' /\ ListOK' /\ SleepOK'
    BY <2>1 DEF SemaInv, SemaTypeOK, ListOK, SleepOK
  <2>3. TokenOK'
    BY <2>1 DEF SemaInv, TokenOK, Sleeper, Noticer
  <2> QED
    BY <2>2, <2>3 DEF SemaInv
<1> QED
  BY <1>1, <1>2, <1>3 DEF SemaNext

\* However many goroutines acquire and release however many semaphores: the undoing
\* of a sleep finds the goroutine listed or readied, nobody is readied twice, and a
\* value is never positive beside a sleeper with nobody on the way to notice.
THEOREM SemaIsSound == ASSUME SemaAssumption PROVE SemaSpec => []SemaSound
BY SemaStarts, NextIInv, IInvSound, PTL DEF SemaSpec

-----------------------------------------------------------------------------
\* Who is in Wait has read a semaphore that was made.  Until Signal
\* is used, the current semaphore has no tokens and as many waiters as c.waiters
\* says, an earlier one as many tokens as waiters, and those that Broadcast found
\* share a semaphore with nobody else.
CondPlaces ==
  /\ CondTypeOK
  /\ \A g \in CondGs : g \in L <=> condPc[g] \in {"test", "WaitUnlock"}
  /\ \A g \in CondGs : seen[g] # 0 <=> condPc[g] \in {"WaitUnlock", "WaitAcquire"}
  /\ \A g \in CondGs : seen[g] <= condMade
  /\ condSema <= condMade /\ (condWaiters > 0 => condSema # 0)
CondCalled ==
  ~signalled =>
    /\ \A s \in CondSemas : s # condSema => condTokens[s] = Cardinality(WaitersOf(s))
    /\ condSema # 0 => condTokens[condSema] = 0 /\ condWaiters = Cardinality(WaitersOf(condSema))
    /\ \A g \in called : seen[g] \notin {0, condSema} /\ WaitersOf(seen[g]) \subseteq called
CondInv == CondPlaces /\ NoneForgotten /\ CondCalled

\* A set of numbers that is not empty has a least one.
LEMMA NatLeast ==
  ASSUME NEW T, T \subseteq Nat, T # {}
  PROVE  \E x \in T : \A y \in T : x <= y
<1> DEFINE R == OpToRel(<, Nat)
<1>1. IsWellFoundedOn(R, Nat)
  BY NatLessThanWellFounded, Zenon
<1>2. \A m, n \in Nat : m < n => <<m, n>> \in R
  BY DEF OpToRel
<1> HIDE DEF R
<1>3. PICK x \in T : \A y \in T : ~(<<y, x>> \in R)
  BY <1>1, WFMin, Zenon
<1>4. \A y \in T : ~(y < x)
  BY <1>2, <1>3, Zenon
<1> QED
  BY <1>4

\* g adds up f, as far as n.
AddsUp(g, f, n) == g = [s \in 0 .. n |-> IF s = 0 THEN 0 ELSE g[s - 1] + f[s]]

\* e is f, but d higher in one place.
Higher(e, f, at, d, n) == \A s \in 1 .. n : e[s] = IF s = at THEN f[s] + d ELSE f[s]

\* Every function can be added up.
LEMMA SumExists == \A f : \A n \in Nat : \E g : AddsUp(g, f, n)
<1> SUFFICES ASSUME NEW f, NEW m \in Nat, ~\E g : AddsUp(g, f, m) PROVE FALSE
  OBVIOUS
<1> DEFINE T == {n \in Nat : ~\E g : AddsUp(g, f, n)}
<1>1. PICK x \in T : \A y \in T : x <= y
  <2>1. T \subseteq Nat /\ T # {}
    OBVIOUS
  <2> HIDE DEF T
  <2> QED
    BY <2>1, NatLeast, Zenon
<1>2. x # 0
  <2>1. AddsUp([s \in 0 .. 0 |-> 0], f, 0)
    BY DEF AddsUp
  <2> QED
    BY <2>1
<1>3. x \in Nat /\ x - 1 \in Nat /\ x - 1 \notin T
  BY <1>1, <1>2
<1>4. PICK g : AddsUp(g, f, x - 1)
  BY <1>3
<1>5. AddsUp([s \in 0 .. x |-> IF s = x THEN g[x - 1] + f[x] ELSE g[s]], f, x)
  BY <1>2, <1>3, <1>4 DEF AddsUp
<1> QED
  BY <1>5

\* A sum grows with each of its terms.
LEMMA SumOfChanged ==
  ASSUME NEW m \in Nat, NEW f \in [1 .. m -> Int], NEW at \in 1 .. m, NEW d \in Int,
         NEW e, Higher(e, f, at, d, m),
         NEW g, AddsUp(g, f, m), NEW h, AddsUp(h, e, m)
  PROVE  g[m] \in Int /\ h[m] = g[m] + d
<1> DEFINE Wrong(n) == ~(g[n] \in Int /\ h[n] = g[n] + IF n < at THEN 0 ELSE d)
           T == {n \in 0 .. m : Wrong(n)}
<1> SUFFICES ASSUME T # {} PROVE FALSE
  OBVIOUS
<1>1. PICK x \in T : \A y \in T : x <= y
  <2>1. T \subseteq Nat /\ T # {}
    OBVIOUS
  <2> HIDE DEF T
  <2> QED
    BY <2>1, NatLeast, Zenon
<1>2. x # 0
  BY DEF AddsUp
<1>3. x \in 1 .. m /\ x - 1 \in 0 .. m /\ ~Wrong(x - 1)
  BY <1>1, <1>2
<1>4. \A z \in 1 .. m : g[z] = g[z - 1] + f[z] /\ h[z] = h[z - 1] + e[z]
  BY DEF AddsUp
<1>5. e[x] = IF x = at THEN f[x] + d ELSE f[x]
  BY <1>3 DEF Higher
<1>6. g[x - 1] \in Int /\ f[x] \in Int /\ h[x - 1] = g[x - 1] + IF x - 1 < at THEN 0 ELSE d
  BY <1>3
<1>7. g[x] = g[x - 1] + f[x] /\ h[x] = h[x - 1] + e[x]
  BY <1>3, <1>4
<1>8. g[x] \in Int /\ h[x] = g[x] + IF x < at THEN 0 ELSE d
  <2> HIDE DEF T, Wrong
  <2>1. CASE x < at
    BY <1>3, <1>5, <1>6, <1>7, <2>1
  <2>2. CASE x = at
    BY <1>3, <1>5, <1>6, <1>7, <2>2
  <2>3. CASE x > at
    BY <1>3, <1>5, <1>6, <1>7, <2>3
  <2> QED
    BY <1>3, <2>1, <2>2, <2>3
<1> QED
  BY <1>8

\* A sum of natural numbers is one.
LEMMA SumIsNat ==
  ASSUME NEW m \in Nat, NEW f \in [1 .. m -> Nat], NEW g, AddsUp(g, f, m)
  PROVE  g[m] \in Nat
<1> DEFINE T == {n \in 0 .. m : g[n] \notin Nat}
<1> SUFFICES ASSUME T # {} PROVE FALSE
  OBVIOUS
<1>1. PICK x \in T : \A y \in T : x <= y
  <2>1. T \subseteq Nat /\ T # {}
    OBVIOUS
  <2> HIDE DEF T
  <2> QED
    BY <2>1, NatLeast, Zenon
<1>2. x # 0
  BY DEF AddsUp
<1>3. x \in 1 .. m /\ x - 1 \in 0 .. m /\ g[x - 1] \in Nat
  BY <1>1, <1>2
<1> QED
  BY <1>3 DEF AddsUp

\* What Stored makes of that.
LEMMA StoredIsSum ==
  ASSUME CondAssumption, NEW f
  PROVE  \E g : AddsUp(g, f, MaxCondSemas) /\ Stored(f) = g[MaxCondSemas]
<1>1. \E g : g = [s \in 0 .. MaxCondSemas |-> IF s = 0 THEN 0 ELSE g[s - 1] + f[s]]
  BY SumExists, Zenon DEF AddsUp, CondAssumption
<1> QED
  BY <1>1, Zenon DEF Stored, AddsUp

\* The tokens stored are counted by a natural number,
LEMMA StoredIsNat ==
  ASSUME CondAssumption, NEW f \in [CondSemas -> Nat]
  PROVE  Stored(f) \in Nat
<1>1. MaxCondSemas \in Nat /\ CondSemas = 1 .. MaxCondSemas
  BY DEF CondAssumption, CondSemas
<1>2. PICK g : AddsUp(g, f, MaxCondSemas) /\ Stored(f) = g[MaxCondSemas]
  BY StoredIsSum
<1> QED
  BY <1>1, <1>2, SumIsNat

\* which changes with the tokens of one semaphore.
LEMMA StoredChanges ==
  ASSUME CondAssumption, NEW f \in [CondSemas -> Nat], NEW at \in CondSemas, NEW d \in Int,
         NEW e, Higher(e, f, at, d, MaxCondSemas)
  PROVE  Stored(e) = Stored(f) + d
<1>1. MaxCondSemas \in Nat /\ f \in [1 .. MaxCondSemas -> Int] /\ at \in 1 .. MaxCondSemas
  BY DEF CondAssumption, CondSemas
<1>2. PICK g : AddsUp(g, f, MaxCondSemas) /\ Stored(f) = g[MaxCondSemas]
  BY StoredIsSum
<1>3. PICK h : AddsUp(h, e, MaxCondSemas) /\ Stored(e) = h[MaxCondSemas]
  BY StoredIsSum
<1>4. h[MaxCondSemas] = g[MaxCondSemas] + d
  BY <1>1, <1>2, <1>3, SumOfChanged
<1> QED
  BY <1>2, <1>3, <1>4

\* The goroutines that are about to call, or to look.
Looking == {g \in CondGs : condPc[g] \in {"Signal", "Broadcast", "WaitLock", "test"}}

\* NoneForgotten in those terms, before and after a step.
LEMMA NoneForgottenIs ==
  /\ NoneForgotten <=> (condWaiters > 0 => items <= Stored(condTokens) + Cardinality(Looking))
  /\ NoneForgotten' <=> (condWaiters' > 0 => items' <= Stored(condTokens') + Cardinality(Looking'))
BY DEF NoneForgotten, Looking

\* How their number changes with the one that moves.
LEMMA LookingMoves ==
  ASSUME CondAssumption, NEW g \in CondGs, \A h \in CondGs \ {g} : condPc'[h] = condPc[h]
  PROVE  /\ Cardinality(Looking) \in Nat /\ Cardinality(Looking') \in Nat
         /\ (g \in Looking <=> g \in Looking') => Cardinality(Looking') = Cardinality(Looking)
         /\ g \notin Looking /\ g \in Looking' =>
              Cardinality(Looking') = Cardinality(Looking) + 1
         /\ g \in Looking /\ g \notin Looking' =>
              Cardinality(Looking') = Cardinality(Looking) - 1
<1>1. IsFiniteSet(CondGs)
  BY DEF CondAssumption
<1>2. IsFiniteSet(Looking) /\ IsFiniteSet(Looking')
  BY <1>1, FS_Subset DEF Looking
<1>3. /\ g \in Looking' => Looking' = Looking \union {g}
      /\ g \notin Looking' => Looking' = Looking \ {g}
  BY DEF Looking
<1>4. g \in Looking => Looking \union {g} = Looking
  OBVIOUS
<1>5. g \notin Looking => Looking \ {g} = Looking
  OBVIOUS
<1> QED
  BY <1>2, <1>3, <1>4, <1>5, FS_AddElement, FS_RemoveElement, FS_CardinalityType

\* The places of the goroutines, c.L and the semaphores.
LEMMA CondPlacesStep ==
  ASSUME CondAssumption, CondPlaces, CondNext
  PROVE  CondPlaces'
<1>1. MaxItems \in Nat /\ MaxCondSemas \in Nat
  BY DEF CondAssumption
<1> USE <1>1 DEF CondPlaces, CondTypeOK, CondGoto, CondSemas, NoCondSema
<1>2. ASSUME NEW g \in CondGs, CondLock(g) PROVE CondPlaces'
  BY <1>2 DEF CondLock
<1>3. ASSUME NEW g \in CondGs, NEW all \in BOOLEAN, Produce(g, all) PROVE CondPlaces'
  BY <1>3 DEF Produce
<1>4. ASSUME NEW g \in CondGs, Consume(g) PROVE CondPlaces'
  BY <1>4 DEF Consume
<1>5. ASSUME NEW g \in CondGs, CondWait(g) PROVE CondPlaces'
  <2>1. CASE condSema = 0
    BY <1>5, <2>1 DEF CondWait
  <2>2. CASE condSema # 0
    BY <1>5, <2>2 DEF CondWait
  <2> QED
    BY <2>1, <2>2
<1>6. ASSUME NEW g \in CondGs, WaitUnlock(g) PROVE CondPlaces'
  BY <1>6 DEF WaitUnlock
<1>7. ASSUME NEW g \in CondGs, CondAcquire(g) PROVE CondPlaces'
  BY <1>7 DEF CondAcquire
<1>8. ASSUME NEW g \in CondGs, WaitLock(g) PROVE CondPlaces'
  BY <1>8 DEF WaitLock
<1>9. ASSUME NEW g \in CondGs, Signal(g) PROVE CondPlaces'
  <2>1. CASE condWaiters = 0
    BY <1>9, <2>1 DEF Signal
  <2>2. CASE condWaiters > 0
    <3>1. condSema \in CondSemas /\ condTokens' = [condTokens EXCEPT ![condSema] = @ + 1] /\ condWaiters' = condWaiters - 1
      BY <1>9, <2>2 DEF Signal
    <3>2. condWaiters' \in Nat /\ condTokens' \in [CondSemas -> Nat]
      BY <2>2, <3>1
    <3> QED
      BY <1>9, <2>2, <3>2, Zenon DEF Signal
  <2>3. condWaiters = 0 \/ condWaiters > 0
    OBVIOUS
  <2> QED
    BY <2>1, <2>2, <2>3, Zenon
<1>10. ASSUME NEW g \in CondGs, Broadcast(g) PROVE CondPlaces'
  <2>1. CASE condWaiters = 0
    BY <1>10, <2>1 DEF Broadcast
  <2>2. CASE condWaiters > 0
    <3>1. condSema \in CondSemas /\ condTokens' = [condTokens EXCEPT ![condSema] = @ + condWaiters]
      BY <1>10, <2>2 DEF Broadcast
    <3>2. condTokens' \in [CondSemas -> Nat]
      BY <3>1
    <3>3. /\ called' \subseteq CondGs /\ condSema' = 0 /\ condWaiters' = 0
          /\ UNCHANGED <<L, condMade, seen, items, signalled>> /\ condPc' = [condPc EXCEPT ![g] = "out"]
          /\ condPc[g] = "Broadcast"
      BY <1>10, <2>2 DEF Broadcast
    <3> QED
      BY <3>2, <3>3
  <2>3. condWaiters = 0 \/ condWaiters > 0
    OBVIOUS
  <2> QED
    BY <2>1, <2>2, <2>3, Zenon
<1> QED
  BY <1>2, <1>3, <1>4, <1>5, <1>6, <1>7, <1>8, <1>9, <1>10, Zenon DEF CondNext, CondStep

\* Tokens, callers and lookers cover the items while somebody waits.
LEMMA CondForgetsNone ==
  ASSUME CondAssumption, CondPlaces, NoneForgotten, CondNext
  PROVE  NoneForgotten'
<1>1. PICK g \in CondGs : CondStep(g) \/ CondLock(g) \/ \E all \in BOOLEAN : Produce(g, all)
  BY DEF CondNext
<1>2. /\ condWaiters \in Nat /\ items \in Nat /\ condTokens \in [CondSemas -> Nat]
      /\ \A h \in CondGs \ {g} : condPc'[h] = condPc[h]
  <2>1. condWaiters \in Nat /\ items \in Nat /\ condTokens \in [CondSemas -> Nat]
    BY DEF CondPlaces, CondTypeOK, CondAssumption
  <2>2. \E x : condPc' = [condPc EXCEPT ![g] = x]
    BY <1>1 DEF CondGoto, CondStep, CondLock, Produce, Consume, CondWait,
                WaitUnlock, CondAcquire, WaitLock, Signal, Broadcast
  <2> QED
    BY <2>1, <2>2 DEF CondPlaces, CondTypeOK
<1>3. Stored(condTokens) \in Nat
  BY <1>2, StoredIsNat
<1> DEFINE K == Cardinality(Looking)
<1>4. /\ K \in Nat /\ K' \in Nat
      /\ (g \in Looking <=> g \in Looking') => K' = K
      /\ g \notin Looking /\ g \in Looking' => K' = K + 1
      /\ g \in Looking /\ g \notin Looking' => K' = K - 1
  BY <1>2, LookingMoves
<1>5. /\ condWaiters > 0 => items <= Stored(condTokens) + K
      /\ NoneForgotten' <=> (condWaiters' > 0 => items' <= Stored(condTokens') + K')
  BY NoneForgottenIs
<1> HIDE DEF K
<1>6. /\ g \in Looking <=> condPc[g] \in {"Signal", "Broadcast", "WaitLock", "test"}
      /\ g \in Looking' <=> condPc'[g] \in {"Signal", "Broadcast", "WaitLock", "test"}
  BY DEF Looking
<1> USE DEF CondPlaces, CondTypeOK, CondGoto, NoCondSema
<1>7. CASE CondLock(g)
  BY <1>2, <1>3, <1>4, <1>5, <1>6, <1>7 DEF CondLock
<1>8. ASSUME NEW all \in BOOLEAN, Produce(g, all) PROVE NoneForgotten'
  BY <1>2, <1>3, <1>4, <1>5, <1>6, <1>8 DEF Produce
<1>9. CASE Consume(g)
  BY <1>2, <1>3, <1>4, <1>5, <1>6, <1>9 DEF Consume
<1>10. CASE CondWait(g)
  BY <1>2, <1>3, <1>4, <1>5, <1>6, <1>10 DEF CondWait
<1>11. CASE WaitUnlock(g)
  BY <1>2, <1>3, <1>4, <1>5, <1>6, <1>11 DEF WaitUnlock
<1>12. CASE CondAcquire(g)
  <2>1. seen[g] \in CondSemas /\ condTokens' = [condTokens EXCEPT ![seen[g]] = @ + (-1)]
    BY <1>2, <1>12, Zenon DEF CondAcquire
  <2>2. Higher(condTokens', condTokens, seen[g], -1, MaxCondSemas)
    BY <1>2, <2>1 DEF Higher, CondSemas
  <2>3. Stored(condTokens') = Stored(condTokens) + (-1)
    BY <1>2, <2>1, <2>2, StoredChanges
  <2> QED
    BY <1>2, <1>3, <1>4, <1>5, <1>6, <1>12, <2>3 DEF CondAcquire
<1>13. CASE WaitLock(g)
  BY <1>2, <1>3, <1>4, <1>5, <1>6, <1>13 DEF WaitLock
<1>14. CASE Signal(g)
  <2>1. CASE condWaiters = 0
    BY <1>5, <1>14, <2>1 DEF Signal
  <2>2. CASE condWaiters > 0
    <3>1. condSema \in CondSemas /\ condTokens' = [condTokens EXCEPT ![condSema] = @ + 1]
      BY <1>14, <2>2 DEF Signal
    <3>2. Higher(condTokens', condTokens, condSema, 1, MaxCondSemas)
      BY <1>2, <3>1 DEF Higher, CondSemas
    <3>3. Stored(condTokens') = Stored(condTokens) + 1
      BY <1>2, <3>1, <3>2, StoredChanges
    <3> QED
      BY <1>2, <1>3, <1>4, <1>5, <1>6, <1>14, <2>2, <3>3 DEF Signal
  <2> QED
    BY <1>2, <2>1, <2>2
<1>15. CASE Broadcast(g)
  BY <1>2, <1>5, <1>15 DEF Broadcast
<1> QED
  BY <1>1, <1>7, <1>8, <1>9, <1>10, <1>11, <1>12, <1>13, <1>14, <1>15 DEF CondStep

\* Broadcast reaches everybody in Wait, as long as Signal is not used.
LEMMA CondCalledStep ==
  ASSUME CondAssumption, CondPlaces, CondCalled, CondNext
  PROVE  CondCalled'
<1>1. ASSUME UNCHANGED <<seen, condTokens, condSema, condWaiters, called, signalled>> PROVE CondCalled'
  BY <1>1 DEF CondCalled, WaitersOf
<1> SUFFICES ASSUME ~signalled' PROVE CondCalled'
  BY DEF CondCalled
<1>2. \A s : IsFiniteSet(WaitersOf(s)) /\ IsFiniteSet(WaitersOf(s)')
  <2>1. IsFiniteSet(CondGs)
    BY DEF CondAssumption
  <2> QED
    BY <2>1, FS_Subset DEF WaitersOf
<1>3. \A s : Cardinality(WaitersOf(s)) \in Nat
  BY <1>2, FS_CardinalityType
<1> DEFINE Card(s) == Cardinality(WaitersOf(s))
<1>4. ASSUME NEW g \in CondGs, CondWait(g) PROVE CondCalled'
  <2>1. PICK x \in CondSemas : x = condSema'
    BY <1>4 DEF CondWait, CondPlaces, CondTypeOK, CondSemas, NoCondSema, CondAssumption
  <2>2. /\ seen[g] = 0 /\ seen' = [seen EXCEPT ![g] = x]
        /\ ~signalled /\ UNCHANGED <<condTokens, called>> /\ condWaiters' = condWaiters + 1
    BY <1>4, <2>1 DEF CondWait, CondGoto, CondPlaces, CondTypeOK, NoCondSema
  <2>3. g \notin called /\ called \subseteq CondGs /\ seen \in [CondGs -> CondSemas \union {0}]
    BY <2>2 DEF CondCalled, CondPlaces, CondTypeOK, NoCondSema
  <2>4. /\ WaitersOf(x)' = WaitersOf(x) \union {g} /\ g \notin WaitersOf(x)
        /\ \A s \in CondSemas : s # x => WaitersOf(s)' = WaitersOf(s)
    BY <2>2, <2>3 DEF WaitersOf, CondSemas
  <2>5. Card(x)' = Card(x) + 1
    BY <1>2, <2>4, FS_AddElement, Zenon
  <2>6. condTokens[x] = 0 /\ condWaiters = Card(x) /\ \A h \in called : seen[h] # x
    <3>1. CASE condSema # 0
      BY <1>4, <2>1, <2>2, <3>1 DEF CondWait, NoCondSema, CondCalled
    <3>2. CASE condSema = 0
      <4>1. /\ x = condMade + 1 /\ condMade \in Nat /\ \A h \in CondGs : seen[h] <= condMade
            /\ condWaiters \in Nat /\ ~(condWaiters > 0)
        BY <1>4, <2>1, <3>2 DEF CondWait, NoCondSema, CondPlaces, CondTypeOK, CondAssumption
      <4>2. \A h \in CondGs : seen[h] # x
        BY <2>3, <4>1 DEF CondSemas
      <4>3. WaitersOf(x) = {}
        BY <4>2 DEF WaitersOf
      <4>4. Card(x) = 0
        BY <4>3, FS_EmptySet
      <4>5. condTokens[x] = Card(x)
        BY <2>2, <3>2 DEF CondCalled, CondSemas
      <4> QED
        BY <2>3, <4>1, <4>2, <4>4, <4>5
    <3> QED
      BY <3>1, <3>2
  <2>7. \A s \in CondSemas : s # x => condTokens[s] = Card(s)
    <3>1. condSema # 0 => x = condSema
      BY <1>4, <2>1 DEF CondWait, NoCondSema
    <3> QED
      BY <2>2, <3>1 DEF CondCalled, CondSemas
  <2>8. \A h \in called : /\ seen'[h] = seen[h] /\ seen[h] \in CondSemas /\ seen[h] # x
                          /\ WaitersOf(seen[h]) \subseteq called
    BY <2>2, <2>3, <2>6 DEF CondCalled
  <2>9. \A h \in called : (WaitersOf(seen[h]))' = WaitersOf(seen[h])
    BY <2>2, <2>3, <2>8 DEF WaitersOf
  <2>10. \A s \in CondSemas : s # x => condTokens'[s] = Card(s)'
    BY <2>2, <2>4, <2>7
  <2>11. condTokens'[x] = 0 /\ condWaiters' = Card(x)'
    BY <1>3, <2>2, <2>5, <2>6
  <2> QED
    BY <2>1, <2>2, <2>8, <2>9, <2>10, <2>11 DEF CondCalled, CondSemas
<1>5. ASSUME NEW g \in CondGs, CondAcquire(g) PROVE CondCalled'
  <2>1. PICK x \in CondSemas : x = seen[g]
    BY <1>5 DEF CondAcquire, CondGoto, CondPlaces, CondTypeOK, NoCondSema
  <2>2. /\ ~signalled /\ UNCHANGED <<condSema, condWaiters>> /\ called' = called \ {g}
        /\ seen' = [seen EXCEPT ![g] = 0] /\ condTokens[x] > 0
        /\ condTokens' = [condTokens EXCEPT ![x] = @ - 1]
    BY <1>5, <2>1 DEF CondAcquire, NoCondSema
  <2>3. /\ called \subseteq CondGs /\ seen \in [CondGs -> CondSemas \union {0}]
        /\ condTokens \in [CondSemas -> Nat] /\ condSema \in CondSemas \union {0}
    BY DEF CondPlaces, CondTypeOK, NoCondSema
  <2>4. x # condSema /\ condTokens[x] = Card(x)
    BY <2>2 DEF CondCalled, CondSemas
  <2>5. /\ WaitersOf(x)' = WaitersOf(x) \ {g} /\ g \in WaitersOf(x)
        /\ \A s \in CondSemas : s # x => WaitersOf(s)' = WaitersOf(s)
    BY <2>1, <2>2, <2>3 DEF WaitersOf, CondSemas
  <2>6. Card(x)' = Card(x) - 1
    BY <1>2, <2>5, FS_RemoveElement, Zenon
  <2>7. \A s \in CondSemas : s # condSema => condTokens'[s] = Card(s)'
    BY <2>2, <2>3, <2>4, <2>5, <2>6, Zenon DEF CondCalled
  <2>8. condSema # 0 => condTokens'[condSema] = 0 /\ condWaiters' = Card(condSema)'
    BY <2>2, <2>3, <2>4, <2>5 DEF CondCalled
  <2>9. \A h \in called' : /\ seen'[h] = seen[h] /\ seen[h] \notin {0, condSema}
                           /\ (WaitersOf(seen[h]))' \subseteq called'
    BY <2>2, <2>3 DEF CondCalled, WaitersOf
  <2> QED
    BY <2>2, <2>7, <2>8, <2>9 DEF CondCalled
<1>6. ASSUME NEW g \in CondGs, Signal(g) PROVE CondCalled'
  BY <1>1, <1>6 DEF Signal, CondPlaces, CondTypeOK
<1>7. ASSUME NEW g \in CondGs, Broadcast(g) PROVE CondCalled'
  <2>1. /\ ~signalled /\ UNCHANGED seen /\ called' = {h \in CondGs : seen[h] # 0}
    BY <1>7 DEF Broadcast, NoCondSema
  <2>2. \A s : WaitersOf(s)' = WaitersOf(s)
    BY <2>1 DEF WaitersOf
  <2>3. \A h \in called' : seen[h] # 0 /\ WaitersOf(seen[h]) \subseteq called'
    BY <2>1 DEF WaitersOf
  <2>4. CASE condWaiters = 0
    <3>1. UNCHANGED <<condTokens, condSema, condWaiters>>
      BY <1>7, <2>4 DEF Broadcast
    <3>2. \A h \in called' : seen[h] # condSema
      <4>1. condSema # 0 => WaitersOf(condSema) = {}
        BY <1>2, <2>1, <2>4, FS_EmptySet DEF CondCalled
      <4> QED
        BY <2>1, <4>1 DEF WaitersOf
    <3> QED
      BY <2>1, <2>2, <2>3, <3>1, <3>2 DEF CondCalled
  <2>5. CASE condWaiters > 0
    <3>1. /\ condSema' = 0 /\ condSema \in CondSemas /\ condTokens \in [CondSemas -> Nat]
          /\ condTokens' = [condTokens EXCEPT ![condSema] = @ + condWaiters]
      BY <1>7, <2>5 DEF Broadcast, CondPlaces, CondTypeOK, NoCondSema
    <3>2. \A s \in CondSemas : condTokens'[s] = Card(s)
      BY <1>3, <2>1, <3>1 DEF CondCalled, CondSemas
    <3> QED
      BY <2>1, <2>2, <2>3, <3>1, <3>2 DEF CondCalled
  <2> QED
    BY <2>4, <2>5 DEF CondPlaces, CondTypeOK
<1>8. ASSUME NEW g \in CondGs,
             \/ CondLock(g) \/ Consume(g) \/ WaitUnlock(g) \/ WaitLock(g)
             \/ \E all \in BOOLEAN : Produce(g, all)
      PROVE  CondCalled'
  BY <1>1, <1>8 DEF CondLock, Consume, WaitUnlock, WaitLock, Produce
<1> QED
  BY <1>4, <1>5, <1>6, <1>7, <1>8 DEF CondNext, CondStep

\* Initially nobody waits; and the invariant says what CondSound says.
LEMMA CondStarts == ASSUME CondAssumption, CondInit PROVE CondInv
<1>1. CondPlaces
  <2>1. /\ condMade \in 0 .. MaxCondSemas /\ items \in 0 .. MaxItems /\ condWaiters \in Nat
        /\ condTokens \in [CondSemas -> Nat]
    BY DEF CondAssumption, CondInit
  <2>2. /\ seen \in [CondGs -> CondSemas \union {NoCondSema}] /\ condSema \in CondSemas \union {NoCondSema}
        /\ condPc \in [CondGs -> {"out", "test", "WaitUnlock", "WaitAcquire", "WaitLock",
                                  "Signal", "Broadcast"}]
    BY DEF CondInit
  <2>3. signalled \in BOOLEAN /\ called \subseteq CondGs /\ L = {}
    BY Zenon DEF CondInit
  <2> QED
    BY <2>1, <2>2, <2>3 DEF CondInit, CondPlaces, CondTypeOK, NoCondSema
<1>2. NoneForgotten
  BY NoneForgottenIs DEF CondInit
<1>3. CondCalled
  <2>1. \A s \in CondSemas : WaitersOf(s) = {}
    BY DEF CondInit, WaitersOf, CondSemas, NoCondSema
  <2> QED
    BY <2>1, FS_EmptySet DEF CondInit, CondCalled, NoCondSema
<1> QED
  BY <1>1, <1>2, <1>3 DEF CondInv

\* The invariant implies what is checked.
LEMMA CondInvIsSound == ASSUME CondInv PROVE CondSound
<1>1. ASSUME ~signalled, NEW g \in called
      PROVE  /\ WaitersOf(seen[g]) \subseteq called
             /\ condTokens[seen[g]] = Cardinality(WaitersOf(seen[g]))
             /\ condTokens[seen[g]] \in Nat
  BY <1>1 DEF CondInv, CondCalled, CondPlaces, CondTypeOK, NoCondSema
<1>2. BroadcastAloneWakesAll
  BY <1>1 DEF BroadcastAloneWakesAll, BroadcastWakesAll
<1> QED
  BY <1>2 DEF CondInv, CondPlaces, CondSound

\* Nobody sleeps in Cond.Wait beside an item that nobody is about to signal or to
\* look at, and Broadcast alone wakes everybody, for any number of goroutines.
THEOREM CondIsSound ==
  ASSUME CondAssumption
  PROVE  CondSpec => []CondSound
<1>1. CondInit => CondInv
  BY CondStarts
<1>2. CondInv /\ [CondNext]_(condVars) => CondInv'
  <2>1. CASE CondNext
    BY <2>1, CondPlacesStep, CondForgetsNone, CondCalledStep DEF CondInv
  <2>2. CASE UNCHANGED condVars
    <3>1. CondPlaces => CondPlaces'
      BY <2>2 DEF condVars, CondPlaces, CondTypeOK
    <3>2. CondCalled => CondCalled'
      BY <2>2 DEF condVars, CondCalled, WaitersOf
    <3>3. NoneForgotten => NoneForgotten'
      BY <2>2, NoneForgottenIs DEF condVars, Looking
    <3> QED
      BY <3>1, <3>2, <3>3 DEF CondInv
  <2> QED
    BY <2>1, <2>2
<1>3. CondInv => CondSound
  BY CondInvIsSound
<1> QED
  BY <1>1, <1>2, <1>3, PTL DEF CondSpec
=============================================================================
