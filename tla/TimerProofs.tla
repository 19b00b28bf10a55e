----------------------------- MODULE TimerProofs ----------------------------
(***************************************************************************)
(* The kernel's list of timers keeps every deadline, and its wait queues   *)
(* keep their order, however timers and waiters come and go, for lists and *)
(* queues of any length.                                                   *)
(***************************************************************************)
EXTENDS Timers, KSem, WellFoundedInduction, TLAPS

-----------------------------------------------------------------------------
(* The list of timers. *)

\* A set of numbers that has one has a least one.
LEMMA Least == ASSUME NEW S \in SUBSET Nat, S # {} PROVE \E m \in S : \A n \in S : m <= n
<1>1. PICK m \in S : \A n \in S : ~ (<<n, m>> \in OpToRel(<, Nat))
  BY WFMin, NatLessThanWellFounded, Zenon
<1>2. \A n \in S : ~(n < m)
  BY <1>1, Zenon DEF OpToRel
<1> QED
  BY <1>2

\* Induction from a to b, over a set.
LEMMA Upto ==
  ASSUME NEW a \in Nat, NEW b \in Nat, NEW S,
         a \in S, \A i \in a + 1 .. b : i - 1 \in S => i \in S
  PROVE  \A i \in a .. b : i \in S
<1> SUFFICES ASSUME NEW k \in a .. b, k \notin S PROVE FALSE
  OBVIOUS
<1> DEFINE Bad == {i \in a .. b : i \notin S}
<1>1. Bad \in SUBSET Nat /\ Bad # {}
  OBVIOUS
<1>2. PICK m \in Bad : \A n \in Bad : m <= n
  BY <1>1, Least, Zenon
<1>3. m \in a + 1 .. b /\ m - 1 \notin Bad /\ m - 1 \in a .. b
  BY <1>2
<1> QED
  BY <1>2, <1>3

\* A function on 1 .. m is a sequence.
LEMMA IsSeq ==
  ASSUME NEW S, NEW m \in Nat, NEW f \in [1 .. m -> S]
  PROVE  f \in Seq(S) /\ Len(f) = m
OBVIOUS

\* What Ticks computes.
Sums(f, list, n) == /\ f \in [0 .. n -> Nat] /\ f[0] = 0
                    /\ \A i \in 1 .. n : f[i] = f[i - 1] + list[i].expires

\* The partial sums that Ticks takes exist.
LEMMA SumsExist ==
  ASSUME NEW P, NEW list \in Seq(Timer(P))
  PROVE  \E f : Sums(f, list, Len(list))
<1> DEFINE S == {n \in 0 .. Len(list) : \E f : Sums(f, list, n)}
<1>1. 0 \in S
  <2>1. Sums([i \in 0 .. 0 |-> 0], list, 0)
    BY DEF Sums
  <2> QED
    BY <2>1
<1>2. ASSUME NEW n \in 1 .. Len(list), n - 1 \in S PROVE n \in S
  <2>1. PICK f : Sums(f, list, n - 1)
    BY <1>2
  <2> DEFINE g == [i \in 0 .. n |-> IF i = n THEN f[n - 1] + list[n].expires ELSE f[i]]
  <2>2. list[n].expires \in Nat
    <3>1. list[n] \in Timer(P)
      OBVIOUS
    <3> QED
      BY <3>1 DEF Timer
  <2>3. f \in [0 .. n - 1 -> Nat] /\ f[0] = 0 /\ f[n - 1] \in Nat
    BY <2>1 DEF Sums
  <2>4. g \in [0 .. n -> Nat] /\ g[0] = 0
    BY <2>2, <2>3
  <2>5. ASSUME NEW i \in 1 .. n PROVE g[i] = g[i - 1] + list[i].expires
    BY <2>1 DEF Sums
  <2>6. Sums(g, list, n)
    BY <2>4, <2>5, Zenon DEF Sums
  <2> QED
    BY <2>6
<1>3. Len(list) \in Nat
  OBVIOUS
<1>4. \A i \in 0 .. Len(list) : i \in S
  <2> HIDE DEF S
  <2> QED
    <3>1. \A i \in 0 + 1 .. Len(list) : i - 1 \in S => i \in S
      BY <1>2
    <3> QED
      BY <1>1, <1>3, <3>1, Upto, Zenon
<1> QED
  BY <1>3, <1>4

\* Ticks is the sum of the expires up to a place, whichever function it takes it
\* from.
LEMMA TicksAre ==
  ASSUME NEW P, NEW list \in Seq(Timer(P))
  PROVE  Sums(Ticks(list), list, Len(list))
<1> DEFINE n == Len(list)
           Eq(f) == f = [i \in 0 .. n |-> IF i = 0 THEN 0 ELSE f[i - 1] + list[i].expires]
<1>1. PICK f : Sums(f, list, n)
  BY SumsExist
<1>2. Eq(f)
  BY <1>1 DEF Sums
<1>3. Ticks(list) = CHOOSE g : Eq(g)
  BY DEF Ticks
<1>4. Eq(Ticks(list))
  <2> HIDE DEF Eq
  <2> QED
    BY <1>2, <1>3, Zenon
<1> DEFINE t == Ticks(list)
           S == {i \in 0 .. n : t[i] = f[i]}
<1>5. t[0] = 0 /\ \A i \in 1 .. n : t[i] = t[i - 1] + list[i].expires
  BY <1>4
<1>6. 0 \in S /\ n \in Nat
  BY <1>1, <1>5 DEF Sums
<1>7. ASSUME NEW i \in 1 .. n, i - 1 \in S PROVE i \in S
  BY <1>1, <1>5, <1>7 DEF Sums
<1>8. \A i \in 0 .. n : i \in S
  <2> HIDE DEF S, t
  <2> QED
    <3>1. \A i \in 0 + 1 .. n : i - 1 \in S => i \in S
      BY <1>7
    <3> QED
      BY <1>6, <3>1, Upto, Zenon
<1>9. t = f
  BY <1>1, <1>4, <1>8 DEF Sums
<1> QED
  BY <1>1, <1>9

-----------------------------------------------------------------------------
\* A list of timers of processes in P, with one timer for a process at most, and
\* with a tick left for the first (run_timer_list asserts that).
TimersOK(list, P) ==
  /\ list \in Seq(Timer(P))
  /\ \A i, j \in 1 .. Len(list) : list[i].proc = list[j].proc => i = j
  /\ list # <<>> => list[1].expires # 0

\* The ticks until p's timer fires are those up to its place, the only one it
\* has.
LEMMA TimerAt ==
  ASSUME NEW P, NEW list, TimersOK(list, P), NEW i \in 1 .. Len(list)
  PROVE  /\ Len(list) \in Nat /\ DOMAIN list = 1 .. Len(list)
         /\ list[i].proc \in P /\ list[i].expires \in Nat
         /\ HasTimer(list, list[i].proc) /\ At(list, list[i].proc) = i
         /\ DueIn(list, list[i].proc) = Ticks(list)[i]
<1>1. Len(list) \in Nat /\ DOMAIN list = 1 .. Len(list) /\ list[i] \in Timer(P)
  BY DEF TimersOK
<1>2. list[i].proc \in P /\ list[i].expires \in Nat
  BY <1>1 DEF Timer
<1>3. HasTimer(list, list[i].proc)
  BY <1>1 DEF HasTimer
<1>4. At(list, list[i].proc) = i
  BY <1>1 DEF TimersOK, At
<1> QED
  BY <1>1, <1>2, <1>3, <1>4 DEF DueIn

\* Timers fire in the order of the list, none at once.
LEMMA TicksPositive ==
  ASSUME NEW P, NEW list, TimersOK(list, P)
  PROVE  \A i \in 1 .. Len(list) : Ticks(list)[i] \in Nat \ {0}
<1> DEFINE t == Ticks(list)
           S == {i \in 1 .. Len(list) : t[i] \in Nat \ {0}}
<1>1. Sums(t, list, Len(list)) /\ Len(list) \in Nat
  BY TicksAre DEF TimersOK
<1> SUFFICES ASSUME Len(list) # 0 PROVE \A i \in 1 .. Len(list) : i \in S
  BY <1>1
<1>2. 1 \in S
  <2>1. list[1].expires \in Nat \ {0} /\ 1 \in 1 .. Len(list)
    BY <1>1, TimerAt DEF TimersOK
  <2> QED
    BY <1>1, <2>1 DEF Sums
<1>3. ASSUME NEW i \in 1 + 1 .. Len(list), i - 1 \in S PROVE i \in S
  <2>1. list[i].expires \in Nat /\ i \in 1 .. Len(list) /\ i - 1 \in 1 .. Len(list)
    BY <1>1, TimerAt
  <2>2. t[i] = t[i - 1] + list[i].expires
    BY <1>1, <2>1 DEF Sums
  <2> QED
    BY <1>3, <2>1, <2>2
<1> QED
  <2> HIDE DEF S
  <2> QED
    BY <1>1, <1>2, <1>3, Upto, Zenon

\* A process has a timer as long as it has ticks to wait.
LEMMA DuePositive ==
  ASSUME NEW P, NEW list, TimersOK(list, P), NEW p
  PROVE  /\ DueIn(list, p) \in Nat
         /\ DueIn(list, p) # 0 <=> HasTimer(list, p)
<1>1. CASE HasTimer(list, p)
  <2>1. PICK i \in 1 .. Len(list) : list[i].proc = p
    BY <1>1 DEF HasTimer, TimersOK
  <2> QED
    BY <1>1, <2>1, TimerAt, TicksPositive
<1>2. CASE ~HasTimer(list, p)
  BY <1>2 DEF DueIn
<1> QED
  BY <1>1, <1>2

-----------------------------------------------------------------------------
\* add_timer.  At each place of its walk timer->expires is what is left of the
\* timeout when the timers passed have fired,
LEMMA LeftIs ==
  ASSUME NEW P, NEW list, TimersOK(list, P), NEW e \in Nat
  PROVE  \A i \in 0 .. Len(list) : Left(list, e)[i + 1] = e - Ticks(list)[i]
<1> DEFINE n == Len(list)
           t == Ticks(list)
           Eq(f) == f = [i \in 1 .. n + 1 |-> IF i = 1 THEN e ELSE f[i - 1] - list[i - 1].expires]
           g == [i \in 1 .. n + 1 |-> e - t[i - 1]]
           left == Left(list, e)
           S == {i \in 0 .. n : left[i + 1] = e - t[i]}
<1>1. n \in Nat /\ t[0] = 0 /\ \A i \in 0 .. n : t[i] \in Nat
  BY TicksAre DEF TimersOK, Sums
<1>2. \A i \in 1 .. n : list[i].expires \in Nat /\ t[i] = t[i - 1] + list[i].expires
  BY TicksAre, TimerAt DEF TimersOK, Sums
<1>3. Eq(g)
  <2>1. ASSUME NEW i \in 1 .. n + 1
        PROVE  g[i] = IF i = 1 THEN e ELSE g[i - 1] - list[i - 1].expires
    <3>1. CASE i = 1
      BY <1>1, <3>1
    <3>2. CASE i # 1
      <4> DEFINE k == i - 1
      <4>1. k \in 1 .. n /\ k - 1 \in 0 .. n /\ k \in 0 .. n /\ k \in 1 .. n + 1
        BY <1>1, <3>2
      <4>2. g[i] = e - t[k] /\ g[k] = e - t[k - 1]
        BY <4>1
      <4> HIDE DEF k, g, t
      <4>3. list[k].expires \in Nat /\ t[k] = t[k - 1] + list[k].expires /\ t[k - 1] \in Nat
        BY <1>1, <1>2, <4>1
      <4>4. g[i] = g[k] - list[k].expires
        BY <4>2, <4>3
      <4> QED
        BY <3>2, <4>4 DEF k
    <3> QED
      BY <3>1, <3>2
  <2> QED
    BY <2>1, Zenon
<1>4. left = CHOOSE f : Eq(f)
  BY DEF Left
<1>5. Eq(left)
  <2> HIDE DEF Eq, g
  <2> QED
    BY <1>3, <1>4, Zenon
<1>6. left[1] = e /\ \A i \in 1 .. n : left[i + 1] = left[i] - list[i].expires
  <2>1. left[1] = e
    BY <1>1, <1>5
  <2>2. ASSUME NEW i \in 1 .. n PROVE left[i + 1] = left[i] - list[i].expires
    <3>1. i + 1 \in 1 .. n + 1 /\ i + 1 # 1 /\ (i + 1) - 1 = i
      BY <1>1
    <3> QED
      BY <1>5, <3>1
  <2> QED
    BY <2>1, <2>2
<1>7. 0 \in S
  BY <1>1, <1>6
<1>8. ASSUME NEW i \in 0 + 1 .. n, i - 1 \in S PROVE i \in S
  <2>1. i \in 1 .. n /\ i \in 0 .. n /\ i - 1 \in 0 .. n /\ (i - 1) + 1 = i
    BY <1>1
  <2>2. left[i] = e - t[i - 1]
    BY <1>8, <2>1
  <2> HIDE DEF left, t
  <2>3. list[i].expires \in Nat /\ t[i] = t[i - 1] + list[i].expires /\ t[i - 1] \in Nat
    BY <1>1, <1>2, <2>1
  <2>4. left[i + 1] = left[i] - list[i].expires
    BY <1>6, <2>1
  <2>5. left[i + 1] = e - t[i]
    BY <2>2, <2>3, <2>4
  <2> QED
    BY <2>1, <2>5
<1>9. \A i \in 0 .. n : i \in S
  <2> HIDE DEF S, n
  <2> QED
    BY <1>1, <1>7, <1>8, Upto, Zenon
<1> QED
  BY <1>9

\* and it stops in front of the first timer that fires later.
LEMMA PlaceIs ==
  ASSUME NEW P, NEW list, TimersOK(list, P), NEW e \in Nat
  PROVE  /\ Place(list, e) \in 1 .. Len(list) + 1
         /\ Left(list, e)[Place(list, e)] \in Nat
         /\ Place(list, e) <= Len(list) =>
              Left(list, e)[Place(list, e)] < list[Place(list, e)].expires
<1> DEFINE n == Len(list)
           left == Left(list, e)
           le == Place(list, e)
           S == {i \in 1 .. n + 1 : Stops(list, e, i)}
<1>1. n \in Nat
  BY DEF TimersOK
<1>2. S \in SUBSET Nat /\ S # {}
  <2>1. n + 1 \in S
    BY <1>1 DEF Stops
  <2> QED
    BY <2>1
<1>3. PICK m \in S : \A i \in S : m <= i
  BY <1>2, Least, Zenon
<1>4. m \in 1 .. n + 1 /\ Stops(list, e, m) /\ \A j \in 1 .. m - 1 : ~Stops(list, e, j)
  BY <1>1, <1>3
<1>5. le \in 1 .. n + 1 /\ Stops(list, e, le) /\ \A j \in 1 .. le - 1 : ~Stops(list, e, j)
  BY <1>4, Zenon DEF Place
<1>6. le <= n => left[le] < list[le].expires
  BY <1>1, <1>5 DEF Stops
<1>7. left[le] \in Nat
  <2>1. CASE le = 1
    <3>1. left[1] = e
      <4>1. 0 \in 0 .. n /\ 0 + 1 = 1
        BY <1>1
      <4>2. left[0 + 1] = e - Ticks(list)[0]
        BY <4>1, LeftIs
      <4> QED
        BY <4>1, <4>2, TicksAre DEF TimersOK, Sums
    <3> QED
      BY <2>1, <3>1
  <2>2. CASE le # 1
    <3> DEFINE k == le - 1
    <3>1. k \in 1 .. n /\ k + 1 = le /\ k \in 1 .. le - 1 /\ k \in 0 .. n /\ k - 1 \in 0 .. n
          /\ (k - 1) + 1 = k
      BY <1>1, <1>5, <2>2
    <3> HIDE DEF k, le
    <3>2. ~(left[k] < list[k].expires)
      BY <1>5, <3>1 DEF Stops
    <3>3. left[k + 1] = e - Ticks(list)[k] /\ left[(k - 1) + 1] = e - Ticks(list)[k - 1]
      BY <3>1, LeftIs
    <3>4. /\ Ticks(list)[k] = Ticks(list)[k - 1] + list[k].expires
          /\ Ticks(list)[k] \in Nat /\ Ticks(list)[k - 1] \in Nat /\ list[k].expires \in Nat
      <4>1. Sums(Ticks(list), list, n)
        BY TicksAre DEF TimersOK
      <4>2. list[k].expires \in Nat
        BY <3>1, TimerAt
      <4> QED
        BY <3>1, <4>1, <4>2 DEF Sums
    <3>5. left[le] = left[k] - list[k].expires /\ left[k] \in Int
      BY <3>1, <3>3, <3>4
    <3> QED
      BY <3>2, <3>4, <3>5
  <2> QED
    BY <2>1, <2>2
<1> QED
  BY <1>5, <1>6, <1>7

\* add_timer gives p its timeout and leaves everybody else's as it was.
LEMMA AddTimer ==
  ASSUME NEW P, NEW list, TimersOK(list, P), NEW p \in P, ~HasTimer(list, p),
         NEW e \in Nat \ {0}
  PROVE  /\ TimersOK(add_timer(list, p, e), P)
         /\ DueIn(add_timer(list, p, e), p) = e
         /\ \A q \in P \ {p} : DueIn(add_timer(list, p, e), q) = DueIn(list, q)
<1> DEFINE n == Len(list)
           t == Ticks(list)
           le == Place(list, e)
           left == Left(list, e)[le]
           new == add_timer(list, p, e)
           u == Ticks(new)
<1>1. /\ n \in Nat /\ le \in 1 .. n + 1 /\ left \in Nat
      /\ le <= n => left < list[le].expires
  BY PlaceIs DEF TimersOK
<1>2. \A i \in 1 .. n : list[i].expires \in Nat /\ list[i].proc \in P /\ list[i] \in Timer(P)
  BY TimerAt DEF TimersOK
<1>3. /\ t[0] = 0 /\ \A i \in 0 .. n : t[i] \in Nat
      /\ \A i \in 1 .. n : t[i] = t[i - 1] + list[i].expires
  BY TicksAre DEF TimersOK, Sums
<1>4. left = e - t[le - 1]
  <2>1. le - 1 \in 0 .. n /\ (le - 1) + 1 = le
    BY <1>1
  <2>2. Left(list, e)[(le - 1) + 1] = e - t[le - 1]
    BY <2>1, LeftIs
  <2> QED
    BY <2>1, <2>2
<1>5. new = [i \in 1 .. n + 1 |->
               IF i < le THEN list[i]
               ELSE IF i = le THEN [proc |-> p, expires |-> left]
               ELSE IF i = le + 1 THEN [list[i - 1] EXCEPT !.expires = @ - left]
               ELSE list[i - 1]]
  BY DEF add_timer
<1> HIDE DEF n, t, le, left, new, u
<1>6. /\ \A i \in 1 .. le - 1 : new[i] = list[i]
      /\ new[le] = [proc |-> p, expires |-> left]
      /\ \A i \in le .. n : /\ new[i + 1].proc = list[i].proc
                            /\ new[i + 1].expires = IF i = le THEN list[i].expires - left
                                                    ELSE list[i].expires
  <2>1. \A i \in 1 .. le - 1 : new[i] = list[i]
    BY <1>1, <1>5
  <2>2. new[le] = [proc |-> p, expires |-> left]
    BY <1>1, <1>5
  <2>3. ASSUME NEW i \in le .. n
        PROVE  /\ new[i + 1].proc = list[i].proc
               /\ new[i + 1].expires = IF i = le THEN list[i].expires - left ELSE list[i].expires
    <3>1. i + 1 \in 1 .. n + 1 /\ ~(i + 1 < le) /\ i + 1 # le /\ (i + 1) - 1 = i
          /\ (i + 1 = le + 1 <=> i = le) /\ i \in 1 .. n
      BY <1>1
    <3>2. list[i] \in Timer(P)
      BY <1>2, <3>1
    <3>3. new[i + 1] = IF i = le THEN [list[i] EXCEPT !.expires = @ - left] ELSE list[i]
      BY <1>5, <3>1
    <3> QED
      BY <3>2, <3>3 DEF Timer
  <2> QED
    BY <2>1, <2>2, <2>3
<1>7. new \in Seq(Timer(P)) /\ Len(new) = n + 1
  <2>1. ASSUME NEW i \in 1 .. n + 1 PROVE new[i] \in Timer(P)
    <3>1. CASE i < le
      BY <1>1, <1>2, <1>5, <3>1
    <3>2. CASE i = le
      BY <1>1, <1>6, <3>2 DEF Timer
    <3>3. CASE i > le
      <4>1. i - 1 \in 1 .. n /\ list[i - 1] \in Timer(P)
        BY <1>1, <1>2, <3>3
      <4>2. new[i] = IF i = le + 1 THEN [list[i - 1] EXCEPT !.expires = @ - left] ELSE list[i - 1]
        BY <1>1, <1>5, <3>3
      <4>3. i = le + 1 => list[i - 1].expires - left \in Nat
        BY <1>1, <1>2, <4>1
      <4> QED
        BY <4>1, <4>2, <4>3 DEF Timer
    <3> QED
      BY <1>1, <3>1, <3>2, <3>3
  <2>2. new \in [1 .. n + 1 -> Timer(P)] /\ n + 1 \in Nat
    BY <1>1, <1>5, <2>1
  <2> QED
    BY <2>2, IsSeq
\* Where the timer at place i of the new list was.
<1>8. ASSUME NEW i \in 1 .. n + 1, i # le
      PROVE  \E j \in 1 .. n : j = (IF i < le THEN i ELSE i - 1) /\ new[i].proc = list[j].proc
  <2>1. CASE i < le
    BY <1>1, <1>6, <2>1
  <2>2. CASE i > le
    <3>1. i - 1 \in le .. n /\ i - 1 \in 1 .. n /\ (i - 1) + 1 = i
      BY <1>1, <2>2
    <3>2. new[i].proc = list[i - 1].proc
      BY <1>6, <3>1
    <3>3. ~(i < le)
      BY <1>1, <2>2
    <3> QED
      BY <3>1, <3>2, <3>3, Zenon
  <2> QED
    BY <1>1, <1>8, <2>1, <2>2
<1>9. \A i \in 1 .. n : list[i].proc # p
  BY DEF HasTimer, TimersOK, n
<1>10. TimersOK(new, P)
  <2>1. ASSUME NEW i \in 1 .. n + 1, NEW j \in 1 .. n + 1, new[i].proc = new[j].proc
        PROVE  i = j
    <3>1. new[le].proc = p
      BY <1>6
    <3>2. CASE i = le \/ j = le
      BY <1>8, <1>9, <2>1, <3>1, <3>2
    <3>3. CASE i # le /\ j # le
      <4>1. PICK k \in 1 .. n : k = (IF i < le THEN i ELSE i - 1) /\ new[i].proc = list[k].proc
        BY <1>8, <3>3
      <4>2. PICK m \in 1 .. n : m = (IF j < le THEN j ELSE j - 1) /\ new[j].proc = list[m].proc
        BY <1>8, <3>3
      <4>3. k = m
        BY <2>1, <4>1, <4>2, Zenon DEF TimersOK, n
      <4> QED
        BY <1>1, <3>3, <4>1, <4>2, <4>3
    <3> QED
      BY <3>2, <3>3
  <2>2. new[1].expires # 0
    <3>1. CASE le = 1
      BY <1>3, <1>4, <1>6, <3>1
    <3>2. CASE le # 1
      <4>1. new[1] = list[1] /\ list # <<>>
        BY <1>1, <1>6, <3>2 DEF n
      <4> QED
        BY <4>1 DEF TimersOK
    <3> QED
      BY <3>1, <3>2
  <2> QED
    BY <1>7, <2>1, <2>2 DEF TimersOK
<1>11. /\ u[0] = 0 /\ \A i \in 0 .. n + 1 : u[i] \in Nat
       /\ \A i \in 1 .. n + 1 : u[i] = u[i - 1] + new[i].expires
  BY <1>7, TicksAre, Zenon DEF Sums, u
<1>12. \A i \in 0 .. le - 1 : u[i] = t[i]
  <2> DEFINE S == {i \in 0 .. le - 1 : u[i] = t[i]}
  <2>1. 0 \in S /\ le - 1 \in Nat
    BY <1>1, <1>3, <1>11
  <2>2. ASSUME NEW i \in 0 + 1 .. le - 1, i - 1 \in S PROVE i \in S
    <3>1. i \in 1 .. n /\ i \in 1 .. n + 1 /\ i \in 1 .. le - 1 /\ i \in 0 .. le - 1
      BY <1>1
    <3>2. u[i] = u[i - 1] + new[i].expires /\ t[i] = t[i - 1] + list[i].expires
          /\ new[i] = list[i]
      BY <1>3, <1>6, <1>11, <3>1
    <3> QED
      BY <2>2, <3>1, <3>2
  <2>3. \A i \in 0 .. le - 1 : i \in S
    <3> HIDE DEF S
    <3> QED
      BY <2>1, <2>2, Upto, Zenon
  <2> QED
    BY <2>3
<1>13. u[le] = e
  <2>1. u[le] = u[le - 1] + left /\ le - 1 \in 0 .. le - 1 /\ le - 1 \in 0 .. n
    BY <1>1, <1>6, <1>11
  <2>2. u[le - 1] = t[le - 1] /\ t[le - 1] \in Nat
    BY <1>3, <1>12, <2>1
  <2> QED
    BY <1>4, <2>1, <2>2
<1>14. \A i \in le .. n : u[i + 1] = t[i]
  <2> SUFFICES ASSUME le <= n PROVE \A i \in le .. n : u[i + 1] = t[i]
    BY <1>1
  <2> DEFINE S == {i \in le .. n : u[i + 1] = t[i]}
  <2>1. le \in S
    <3>1. le + 1 \in 1 .. n + 1 /\ (le + 1) - 1 = le /\ le \in 1 .. n /\ le - 1 \in 0 .. n /\ le \in le .. n
      BY <1>1
    <3>2. u[le + 1] = u[le] + new[le + 1].expires /\ new[le + 1].expires = list[le].expires - left
      BY <1>6, <1>11, <3>1
    <3>3. t[le] = t[le - 1] + list[le].expires /\ t[le - 1] \in Nat /\ list[le].expires \in Nat
      BY <1>2, <1>3, <3>1
    <3> QED
      BY <1>4, <1>13, <3>1, <3>2, <3>3
  <2>2. ASSUME NEW i \in le + 1 .. n, i - 1 \in S PROVE i \in S
    <3>1. i + 1 \in 1 .. n + 1 /\ (i + 1) - 1 = i /\ i \in 1 .. n /\ i \in le .. n /\ i # le
          /\ (i - 1) + 1 = i
      BY <1>1
    <3>2. u[i + 1] = u[i] + new[i + 1].expires /\ new[i + 1].expires = list[i].expires
      BY <1>6, <1>11, <3>1
    <3>3. t[i] = t[i - 1] + list[i].expires /\ u[i] = t[i - 1]
      BY <1>3, <2>2, <3>1
    <3> QED
      BY <3>1, <3>2, <3>3
  <2>3. \A i \in le .. n : i \in S
    <3> HIDE DEF S
    <3> QED
      BY <1>1, <2>1, <2>2, Upto
  <2> QED
    BY <2>3
<1>15. DueIn(new, p) = e
  <2>1. le \in 1 .. Len(new) /\ new[le].proc = p
    BY <1>1, <1>6, <1>7
  <2> QED
    BY <1>10, <1>13, <2>1, TimerAt DEF u
<1>16. ASSUME NEW q \in P \ {p} PROVE DueIn(new, q) = DueIn(list, q)
  <2>1. CASE HasTimer(list, q)
    <3>1. PICK i \in 1 .. n : list[i].proc = q
      BY <2>1 DEF HasTimer, TimersOK, n
    <3>2. DueIn(list, q) = t[i]
      BY <3>1, TimerAt DEF n, t
    <3>3. PICK j \in 1 .. n + 1 : new[j].proc = q /\ u[j] = t[i]
      <4>1. CASE i < le
        <5>1. i \in 1 .. n + 1 /\ i \in 1 .. le - 1 /\ i \in 0 .. le - 1
          BY <1>1, <4>1
        <5> QED
          BY <1>6, <1>12, <3>1, <5>1
      <4>2. CASE i >= le
        <5>1. i + 1 \in 1 .. n + 1 /\ i \in le .. n
          BY <1>1, <4>2
        <5> QED
          BY <1>6, <1>14, <3>1, <5>1
      <4> QED
        BY <1>1, <4>1, <4>2
    <3> QED
      BY <1>7, <1>10, <3>2, <3>3, TimerAt DEF u
  <2>2. CASE ~HasTimer(list, q)
    <3>1. \A i \in 1 .. n : list[i].proc # q
      BY <2>2 DEF HasTimer, TimersOK, n
    <3>2. ASSUME NEW i \in 1 .. n + 1 PROVE new[i].proc # q
      <4>1. CASE i = le
        BY <1>6, <4>1
      <4>2. CASE i # le
        BY <1>8, <3>1, <4>2
      <4> QED
        BY <4>1, <4>2
    <3>3. ~HasTimer(new, q)
      BY <1>7, <3>2 DEF HasTimer
    <3> QED
      BY <2>2, <3>3 DEF DueIn
  <2> QED
    BY <2>1, <2>2
<1> QED
  BY <1>10, <1>15, <1>16 DEF new

-----------------------------------------------------------------------------
\* del_timer takes p's timer away and leaves everybody else's as it was.
LEMMA DelTimer ==
  ASSUME NEW P, NEW list, TimersOK(list, P), NEW p \in P
  PROVE  /\ TimersOK(del_timer(list, p), P)
         /\ ~HasTimer(del_timer(list, p), p)
         /\ \A q \in P \ {p} : DueIn(del_timer(list, p), q) = DueIn(list, q)
<1> SUFFICES ASSUME HasTimer(list, p) PROVE  /\ TimersOK(del_timer(list, p), P)
         /\ ~HasTimer(del_timer(list, p), p)
         /\ \A q \in P \ {p} : DueIn(del_timer(list, p), q) = DueIn(list, q)
  BY DEF del_timer
<1> DEFINE n == Len(list)
           t == Ticks(list)
           at == At(list, p)
           new == del_timer(list, p)
           u == Ticks(new)
<1>1. n \in Nat /\ at \in 1 .. n /\ list[at].proc = p
  <2>1. PICK i \in 1 .. n : list[i].proc = p
    BY DEF HasTimer, TimersOK
  <2> QED
    BY <2>1, TimerAt
<1>2. \A i \in 1 .. n : list[i].expires \in Nat /\ list[i].proc \in P /\ list[i] \in Timer(P)
  BY TimerAt DEF TimersOK
<1>3. /\ t[0] = 0 /\ \A i \in 0 .. n : t[i] \in Nat
      /\ \A i \in 1 .. n : t[i] = t[i - 1] + list[i].expires
  BY TicksAre DEF TimersOK, Sums
<1>4. new = [i \in 1 .. n - 1 |->
               IF i < at THEN list[i]
               ELSE IF i = at THEN [list[i + 1] EXCEPT !.expires = @ + list[at].expires]
               ELSE list[i + 1]]
  BY DEF del_timer
<1> HIDE DEF n, t, at, new, u
<1>5. /\ \A i \in 1 .. at - 1 : new[i] = list[i]
      /\ \A i \in at .. n - 1 :
           /\ new[i] \in Timer(P)
           /\ new[i].proc = list[i + 1].proc
           /\ new[i].expires = IF i = at THEN list[i + 1].expires + list[at].expires
                               ELSE list[i + 1].expires
  <2>1. \A i \in 1 .. at - 1 : new[i] = list[i]
    BY <1>1, <1>4
  <2>2. ASSUME NEW i \in at .. n - 1
        PROVE  /\ new[i] \in Timer(P)
               /\ new[i].proc = list[i + 1].proc
               /\ new[i].expires = IF i = at THEN list[i + 1].expires + list[at].expires
                                   ELSE list[i + 1].expires
    <3>1. i \in 1 .. n - 1 /\ ~(i < at) /\ i + 1 \in 1 .. n
      BY <1>1
    <3>2. list[i + 1] \in Timer(P) /\ list[at].expires \in Nat
      BY <1>1, <1>2, <3>1
    <3>3. new[i] = IF i = at THEN [list[i + 1] EXCEPT !.expires = @ + list[at].expires]
                   ELSE list[i + 1]
      BY <1>4, <3>1
    <3> QED
      BY <3>2, <3>3 DEF Timer
  <2> QED
    BY <2>1, <2>2
<1>6. new \in Seq(Timer(P)) /\ Len(new) = n - 1
  <2>1. ASSUME NEW i \in 1 .. n - 1 PROVE new[i] \in Timer(P)
    BY <1>1, <1>2, <1>5
  <2>2. new \in [1 .. n - 1 -> Timer(P)] /\ n - 1 \in Nat
    BY <1>1, <1>4, <2>1
  <2> QED
    BY <2>2, IsSeq
\* Where the timer at place i of the new list was.
<1>7. ASSUME NEW i \in 1 .. n - 1
      PROVE  \E j \in 1 .. n : /\ j = (IF i < at THEN i ELSE i + 1) /\ j # at
                               /\ new[i].proc = list[j].proc
  <2>1. CASE i < at
    BY <1>1, <1>5, <2>1
  <2>2. CASE i >= at
    <3>1. i \in at .. n - 1 /\ i + 1 \in 1 .. n /\ ~(i < at) /\ i + 1 # at
      BY <1>1, <2>2
    <3>2. new[i].proc = list[i + 1].proc
      BY <1>5, <3>1
    <3> QED
      BY <3>1, <3>2, Zenon
  <2> QED
    BY <1>1, <2>1, <2>2
<1>8. TimersOK(new, P)
  <2>1. ASSUME NEW i \in 1 .. n - 1, NEW j \in 1 .. n - 1, new[i].proc = new[j].proc
        PROVE  i = j
    <3>1. PICK k \in 1 .. n : k = (IF i < at THEN i ELSE i + 1) /\ new[i].proc = list[k].proc
      BY <1>7
    <3>2. PICK m \in 1 .. n : m = (IF j < at THEN j ELSE j + 1) /\ new[j].proc = list[m].proc
      BY <1>7
    <3>3. k = m
      BY <2>1, <3>1, <3>2, Zenon DEF TimersOK, n
    <3> QED
      BY <1>1, <3>1, <3>2, <3>3
  <2>2. ASSUME new # <<>> PROVE new[1].expires # 0
    <3>1. n - 1 # 0
      BY <1>6, <2>2
    <3>2. list[1].expires \in Nat \ {0}
      BY <1>1, <1>2 DEF TimersOK, n
    <3>3. CASE at = 1
      <4>1. 1 \in at .. n - 1 /\ 1 + 1 \in 1 .. n
        BY <1>1, <3>1, <3>3
      <4>2. new[1].expires = list[1 + 1].expires + list[1].expires /\ list[1 + 1].expires \in Nat
        BY <1>2, <1>5, <3>3, <4>1
      <4> QED
        BY <3>2, <4>2
    <3>4. CASE at # 1
      BY <1>1, <1>5, <3>2, <3>4
    <3> QED
      BY <3>3, <3>4
  <2> QED
    BY <1>6, <2>1, <2>2 DEF TimersOK
<1>9. ~HasTimer(new, p)
  <2>1. ASSUME NEW i \in 1 .. n - 1 PROVE new[i].proc # p
    <3>1. PICK j \in 1 .. n : j # at /\ new[i].proc = list[j].proc
      BY <1>7
    <3> QED
      BY <1>1, <3>1 DEF TimersOK, n
  <2> QED
    BY <1>6, <2>1 DEF HasTimer
<1>10. /\ u[0] = 0 /\ \A i \in 0 .. n - 1 : u[i] \in Nat
       /\ \A i \in 1 .. n - 1 : u[i] = u[i - 1] + new[i].expires
  BY <1>6, TicksAre DEF Sums, u
<1>11. \A i \in 0 .. at - 1 : u[i] = t[i]
  <2> DEFINE S == {i \in 0 .. at - 1 : u[i] = t[i]}
  <2>1. 0 \in S /\ at - 1 \in Nat
    BY <1>1, <1>3, <1>10
  <2>2. ASSUME NEW i \in 0 + 1 .. at - 1, i - 1 \in S PROVE i \in S
    <3>1. i \in 1 .. n /\ i \in 1 .. n - 1 /\ i \in 1 .. at - 1 /\ i \in 0 .. at - 1
      BY <1>1
    <3>2. u[i] = u[i - 1] + new[i].expires /\ t[i] = t[i - 1] + list[i].expires
          /\ new[i] = list[i]
      BY <1>3, <1>5, <1>10, <3>1
    <3> QED
      BY <2>2, <3>1, <3>2
  <2>3. \A i \in 0 .. at - 1 : i \in S
    <3> HIDE DEF S
    <3> QED
      BY <2>1, <2>2, Upto, Zenon
  <2> QED
    BY <2>3
<1>12. \A i \in at .. n - 1 : u[i] = t[i + 1]
  <2> SUFFICES ASSUME at <= n - 1 PROVE \A i \in at .. n - 1 : u[i] = t[i + 1]
    BY <1>1
  <2> DEFINE S == {i \in at .. n - 1 : u[i] = t[i + 1]}
  <2>1. at \in S
    <3>1. at \in 1 .. n - 1 /\ at + 1 \in 1 .. n /\ (at + 1) - 1 = at /\ at \in 1 .. n
          /\ at - 1 \in 0 .. n /\ at \in at .. n - 1 /\ at - 1 \in 0 .. at - 1
      BY <1>1
    <3>2. /\ u[at] = u[at - 1] + new[at].expires
          /\ new[at].expires = list[at + 1].expires + list[at].expires
          /\ u[at - 1] = t[at - 1]
      BY <1>5, <1>10, <1>11, <3>1
    <3>3. /\ t[at + 1] = t[at] + list[at + 1].expires /\ t[at] = t[at - 1] + list[at].expires
          /\ t[at - 1] \in Nat /\ list[at].expires \in Nat /\ list[at + 1].expires \in Nat
      BY <1>2, <1>3, <3>1
    <3> QED
      BY <3>1, <3>2, <3>3
  <2>2. ASSUME NEW i \in at + 1 .. n - 1, i - 1 \in S PROVE i \in S
    <3>1. i \in 1 .. n - 1 /\ i + 1 \in 1 .. n /\ (i + 1) - 1 = i /\ i \in at .. n - 1 /\ i # at
          /\ (i - 1) + 1 = i
      BY <1>1
    <3>2. u[i] = u[i - 1] + new[i].expires /\ new[i].expires = list[i + 1].expires
      BY <1>5, <1>10, <3>1
    <3>3. t[i + 1] = t[i] + list[i + 1].expires /\ u[i - 1] = t[i]
      BY <1>3, <2>2, <3>1
    <3> QED
      BY <3>1, <3>2, <3>3
  <2>3. \A i \in at .. n - 1 : i \in S
    <3> HIDE DEF S
    <3> QED
      BY <1>1, <2>1, <2>2, Upto
  <2> QED
    BY <2>3
<1>13. ASSUME NEW q \in P \ {p} PROVE DueIn(new, q) = DueIn(list, q)
  <2>1. CASE HasTimer(list, q)
    <3>1. PICK i \in 1 .. n : list[i].proc = q
      BY <2>1 DEF HasTimer, TimersOK, n
    <3>2. DueIn(list, q) = t[i]
      BY <3>1, TimerAt DEF n, t
    <3>3. PICK j \in 1 .. n - 1 : new[j].proc = q /\ u[j] = t[i]
      <4>1. CASE i < at
        <5>1. i \in 1 .. n - 1 /\ i \in 1 .. at - 1 /\ i \in 0 .. at - 1
          BY <1>1, <4>1
        <5> QED
          BY <1>5, <1>11, <3>1, <5>1
      <4>2. CASE i > at
        <5>1. i - 1 \in 1 .. n - 1 /\ i - 1 \in at .. n - 1 /\ (i - 1) + 1 = i
          BY <1>1, <4>2
        <5> QED
          BY <1>5, <1>12, <3>1, <5>1
      <4> QED
        BY <1>1, <3>1, <4>1, <4>2
    <3> QED
      BY <1>6, <1>8, <3>2, <3>3, TimerAt DEF u
  <2>2. CASE ~HasTimer(list, q)
    <3>1. \A i \in 1 .. n : list[i].proc # q
      BY <2>2 DEF HasTimer, TimersOK, n
    <3>2. ~HasTimer(new, q)
      BY <1>6, <1>7, <3>1 DEF HasTimer
    <3> QED
      BY <2>2, <3>2 DEF DueIn
  <2> QED
    BY <2>1, <2>2
<1> QED
  BY <1>8, <1>9, <1>13 DEF new

-----------------------------------------------------------------------------
\* How many timers run_timer_list fires: those that have one tick left.
LEMMA FiredIs ==
  ASSUME NEW P, NEW list, TimersOK(list, P)
  PROVE  /\ fired(list) \in 0 .. Len(list)
         /\ \A i \in 1 .. fired(list) : list[i].expires = IF i = 1 THEN 1 ELSE 0
         /\ fired(list) < Len(list) =>
              list[fired(list) + 1].expires # IF fired(list) = 0 THEN 1 ELSE 0
<1> DEFINE n == Len(list)
           Zero(i) == list[i].expires = IF i = 1 THEN 1 ELSE 0
           S == {k \in 0 .. n : k < n => ~Zero(k + 1)}
           Is(k) == (\A i \in 1 .. k : Zero(i)) /\ (k < n => ~Zero(k + 1))
<1>1. n \in Nat
  BY DEF TimersOK
<1>2. PICK m \in S : \A k \in S : m <= k
  <2>1. n \in S /\ S \in SUBSET Nat
    BY <1>1
  <2> HIDE DEF S
  <2> QED
    BY <2>1, Least
<1>3. ASSUME NEW i \in 1 .. m PROVE Zero(i)
  <2>1. i - 1 \in 0 .. n /\ i - 1 < n /\ (i - 1) + 1 = i /\ ~(m <= i - 1)
    BY <1>1, <1>2
  <2>2. i - 1 \notin S
    BY <1>2, <2>1
  <2> QED
    BY <2>1, <2>2
<1>4. m \in 0 .. n /\ Is(m)
  BY <1>2, <1>3
<1>5. fired(list) = CHOOSE k \in 0 .. n : Is(k)
  BY DEF fired
<1>6. fired(list) \in 0 .. n /\ Is(fired(list))
  <2> HIDE DEF Is
  <2> QED
    BY <1>4, <1>5, Zenon
<1> QED
  BY <1>1, <1>6

\* run_timer_list takes a tick from everybody's timeout and fires the timers that
\* have none left.
LEMMA RunTimerList ==
  ASSUME NEW P, NEW list, TimersOK(list, P)
  PROVE  /\ TimersOK(run_timer_list(list), P)
         /\ \A q : /\ DueIn(run_timer_list(list), q) =
                        IF DueIn(list, q) = 0 THEN 0 ELSE DueIn(list, q) - 1
                   /\ (\E i \in DOMAIN firedProcs(list) : firedProcs(list)[i] = q)
                        <=> DueIn(list, q) = 1
<1> DEFINE n == Len(list)
           t == Ticks(list)
           k == fired(list)
           new == run_timer_list(list)
           u == Ticks(new)
<1>1. /\ n \in Nat /\ k \in 0 .. n
      /\ \A i \in 1 .. k : list[i].expires = IF i = 1 THEN 1 ELSE 0
      /\ k < n => list[k + 1].expires # IF k = 0 THEN 1 ELSE 0
  BY FiredIs DEF TimersOK
<1>2. \A i \in 1 .. n : list[i].expires \in Nat /\ list[i] \in Timer(P)
  BY TimerAt DEF TimersOK
<1>3. /\ t[0] = 0 /\ \A i \in 0 .. n : t[i] \in Nat
      /\ \A i \in 1 .. n : t[i] = t[i - 1] + list[i].expires
  BY TicksAre DEF TimersOK, Sums
<1>4. n # 0 => list[1].expires # 0
  BY DEF TimersOK
<1>5. new = [i \in 1 .. n - k |-> IF k = 0 /\ i = 1 THEN [list[1] EXCEPT !.expires = @ - 1]
                                  ELSE list[k + i]]
  BY DEF run_timer_list
<1>f. firedProcs(list) = [i \in 1 .. k |-> list[i].proc]
  BY DEF firedProcs
<1> HIDE DEF n, t, k, new, u
<1>6. ASSUME NEW i \in 1 .. n - k
      PROVE  /\ k + i \in 1 .. n /\ new[i] \in Timer(P) /\ new[i].proc = list[k + i].proc
             /\ new[i].expires = list[k + i].expires - (IF k = 0 /\ i = 1 THEN 1 ELSE 0)
             /\ i = 1 => new[i].expires # 0
  <2>1. k + i \in 1 .. n /\ k \in Nat
    BY <1>1
  <2>2. list[k + i] \in Timer(P) /\ list[k + i].expires \in Nat
    BY <1>2, <2>1
  <2>3. CASE k = 0 /\ i = 1
    <3>1. k + i = 1 /\ k < n /\ k + 1 = 1 /\ n # 0
      BY <1>1, <2>3
    <3>2. list[1].expires \in Nat \ {0, 1}
      BY <1>1, <1>4, <2>2, <2>3, <3>1
    <3>3. new[i] = [list[1] EXCEPT !.expires = @ - 1]
      BY <1>5, <2>3
    <3> QED
      BY <2>1, <2>2, <2>3, <3>1, <3>2, <3>3 DEF Timer
  <2>4. CASE ~(k = 0 /\ i = 1)
    <3>1. new[i] = list[k + i]
      BY <1>5, <2>4
    <3>2. i = 1 => list[k + i].expires # 0
      BY <1>1, <2>4
    <3> QED
      BY <2>1, <2>2, <2>4, <3>1, <3>2 DEF Timer
  <2> QED
    BY <2>3, <2>4
<1>7. new \in Seq(Timer(P)) /\ Len(new) = n - k
  <2>1. new \in [1 .. n - k -> Timer(P)] /\ n - k \in Nat
    BY <1>1, <1>5, <1>6
  <2> QED
    BY <2>1, IsSeq
<1>8. TimersOK(new, P)
  <2>1. ASSUME NEW i \in 1 .. n - k, NEW j \in 1 .. n - k, new[i].proc = new[j].proc
        PROVE  i = j
    <3>1. k + i \in 1 .. n /\ k + j \in 1 .. n /\ list[k + i].proc = list[k + j].proc
      BY <1>6, <2>1
    <3>2. k + i = k + j
      BY <3>1 DEF TimersOK, n
    <3> QED
      BY <1>1, <3>2
  <2>2. ASSUME new # <<>> PROVE new[1].expires # 0
    <3>1. 1 \in 1 .. n - k
      BY <1>1, <1>7, <2>2
    <3> QED
      BY <1>6, <3>1
  <2> QED
    BY <1>7, <2>1, <2>2 DEF TimersOK
<1>9. /\ u[0] = 0 /\ \A i \in 0 .. n - k : u[i] \in Nat
      /\ \A i \in 1 .. n - k : u[i] = u[i - 1] + new[i].expires
  BY <1>7, TicksAre DEF Sums, u
<1>10. \A i \in 1 .. k : t[i] = 1
  <2> SUFFICES ASSUME k # 0 PROVE \A i \in 1 .. k : t[i] = 1
    BY <1>1
  <2> DEFINE S == {i \in 1 .. k : t[i] = 1}
  <2>1. 1 \in S /\ k \in Nat
    BY <1>1, <1>3
  <2>2. ASSUME NEW i \in 1 + 1 .. k, i - 1 \in S PROVE i \in S
    <3>1. i \in 1 .. n /\ i \in 1 .. k /\ i # 1
      BY <1>1
    <3>2. t[i] = t[i - 1] + list[i].expires /\ list[i].expires = 0
      BY <1>1, <1>3, <3>1
    <3> QED
      BY <2>2, <3>1, <3>2
  <2>3. \A i \in 1 .. k : i \in S
    <3> HIDE DEF S
    <3> QED
      BY <2>1, <2>2, Upto
  <2> QED
    BY <2>3
<1>11. \A i \in 1 .. n - k : u[i] = t[k + i] - 1
  <2> SUFFICES ASSUME n - k # 0 PROVE \A i \in 1 .. n - k : u[i] = t[k + i] - 1
    BY <1>1
  <2> DEFINE S == {i \in 1 .. n - k : u[i] = t[k + i] - 1}
  <2>1. 1 \in S /\ n - k \in Nat
    <3>1. /\ 1 \in 1 .. n - k /\ k + 1 \in 1 .. n /\ (k + 1) - 1 = k /\ k \in 0 .. n /\ n - k \in Nat
      BY <1>1
    <3>2. u[1] = new[1].expires
      <4>1. u[1] = u[1 - 1] + new[1].expires /\ new[1] \in Timer(P) /\ 1 - 1 = 0
        BY <1>6, <1>9, <3>1
      <4>2. new[1].expires \in Nat
        BY <4>1 DEF Timer
      <4> QED
        BY <1>9, <4>1, <4>2
    <3>3. t[k + 1] = t[k] + list[k + 1].expires /\ t[k] \in Nat /\ list[k + 1].expires \in Nat
      BY <1>2, <1>3, <3>1
    <3>4. t[k] = IF k = 0 THEN 0 ELSE 1
      BY <1>1, <1>3, <1>10
    <3>5. new[1].expires = list[k + 1].expires - (IF k = 0 THEN 1 ELSE 0)
      BY <1>6, <3>1
    <3> QED
      BY <3>1, <3>2, <3>3, <3>4, <3>5
  <2>2. ASSUME NEW i \in 1 + 1 .. n - k, i - 1 \in S PROVE i \in S
    <3>1. /\ i \in 1 .. n - k /\ k + i \in 1 .. n /\ (k + i) - 1 = k + (i - 1) /\ i # 1
          /\ k + (i - 1) \in 0 .. n
      BY <1>1
    <3>2. u[i] = u[i - 1] + new[i].expires /\ new[i].expires = list[k + i].expires - 0
      BY <1>6, <1>9, <3>1
    <3>3. /\ t[k + i] = t[k + (i - 1)] + list[k + i].expires
          /\ list[k + i].expires \in Nat /\ t[k + (i - 1)] \in Nat
      BY <1>2, <1>3, <3>1
    <3>4. u[i - 1] = t[k + (i - 1)] - 1
      BY <2>2
    <3> QED
      BY <3>1, <3>2, <3>3, <3>4
  <2>3. \A i \in 1 .. n - k : i \in S
    <3> HIDE DEF S
    <3> QED
      BY <2>1, <2>2, Upto, Zenon
  <2> QED
    BY <2>3
<1>12. ASSUME NEW q
       PROVE  /\ DueIn(new, q) = IF DueIn(list, q) = 0 THEN 0 ELSE DueIn(list, q) - 1
              /\ (\E i \in DOMAIN firedProcs(list) : firedProcs(list)[i] = q) <=> DueIn(list, q) = 1
  <2>1. CASE ~HasTimer(list, q)
    <3>1. \A i \in 1 .. n : list[i].proc # q
      BY <2>1 DEF HasTimer, TimersOK, n
    <3>2. ~HasTimer(new, q)
      BY <1>6, <1>7, <3>1 DEF HasTimer
    <3>3. DueIn(list, q) = 0 /\ DueIn(new, q) = 0
      BY <2>1, <3>2 DEF DueIn
    <3>4. ~\E i \in DOMAIN firedProcs(list) : firedProcs(list)[i] = q
      BY <1>1, <1>f, <3>1
    <3> QED
      BY <3>3, <3>4
  <2>2. CASE HasTimer(list, q)
    <3>1. PICK i \in 1 .. n : list[i].proc = q
      BY <2>2 DEF HasTimer, TimersOK, n
    <3>2. DueIn(list, q) = t[i] /\ t[i] \in Nat \ {0}
      BY <3>1, TimerAt, TicksPositive DEF n, t
    <3>3. \A j \in 1 .. n : list[j].proc = q => j = i
      BY <3>1 DEF TimersOK, n
    <3>4. CASE i \in 1 .. k
      <4>1. t[i] = 1
        BY <1>10, <3>4
      <4>2. \E j \in DOMAIN firedProcs(list) : firedProcs(list)[j] = q
        BY <1>f, <3>1, <3>4
      <4>3. ASSUME NEW j \in 1 .. n - k, new[j].proc = q PROVE FALSE
        BY <1>1, <1>6, <3>3, <3>4, <4>3
      <4>4. ~HasTimer(new, q)
        BY <1>7, <4>3 DEF HasTimer
      <4> QED
        BY <3>2, <4>1, <4>2, <4>4 DEF DueIn
    <3>5. CASE i \notin 1 .. k
      <4> DEFINE j == i - k
      <4>1. j \in 1 .. n - k /\ k + j = i
        BY <1>1, <3>5
      <4> HIDE DEF j
      <4>2. new[j].proc = q /\ u[j] = t[i] - 1
        BY <1>6, <1>11, <3>1, <4>1
      <4>3. DueIn(new, q) = u[j] /\ u[j] \in Nat \ {0}
        BY <1>7, <1>8, <4>1, <4>2, TimerAt, TicksPositive DEF u
      <4>4. ~\E m \in DOMAIN firedProcs(list) : firedProcs(list)[m] = q
        BY <1>1, <1>f, <3>3, <3>5
      <4> QED
        BY <3>2, <4>2, <4>3, <4>4
    <3> QED
      BY <3>4, <3>5
  <2> QED
    BY <2>1, <2>2
<1> QED
  BY <1>8, <1>12 DEF new

-----------------------------------------------------------------------------
(* Wait queues. *)

\* A queue of distinct members of P, and who is in it.
Line(q, P) == q \in Seq(P) /\ \A i, j \in 1 .. Len(q) : q[i] = q[j] => i = j
In(q, p) == \E i \in DOMAIN q : q[i] = p

\* Nobody stands in an empty queue.
LEMMA LineEmpty == ASSUME NEW P PROVE Line(<<>>, P) /\ \A p : ~In(<<>>, p)
BY DEF Line, In

\* wait_queue_add: who joins stands last, and the others where they stood.
LEMMA LineAppend ==
  ASSUME NEW P, NEW q, Line(q, P), NEW p \in P, ~In(q, p)
  PROVE  Line(Append(q, p), P) /\ \A r : In(Append(q, p), r) <=> In(q, r) \/ r = p
<1>1. q \in Seq(P) /\ Len(q) \in Nat /\ DOMAIN q = 1 .. Len(q)
  BY DEF Line
<1>2. /\ Append(q, p) \in Seq(P) /\ DOMAIN Append(q, p) = 1 .. Len(q) + 1
      /\ Len(Append(q, p)) = Len(q) + 1
      /\ \A i \in 1 .. Len(q) : Append(q, p)[i] = q[i]
      /\ Append(q, p)[Len(q) + 1] = p
  BY <1>1
<1>3. Line(Append(q, p), P)
  BY <1>1, <1>2 DEF Line, In
<1>4. ASSUME NEW r PROVE In(Append(q, p), r) <=> In(q, r) \/ r = p
  <2>1. In(Append(q, p), r) => In(q, r) \/ r = p
    BY <1>1, <1>2 DEF In
  <2>2. In(q, r) => In(Append(q, p), r)
    BY <1>1, <1>2 DEF In
  <2>3. In(Append(q, p), p)
    <3>1. Len(q) + 1 \in 1 .. Len(q) + 1
      BY <1>1
    <3> QED
      BY <1>2, <3>1 DEF In
  <2> QED
    BY <2>1, <2>2, <2>3
<1> QED
  BY <1>3, <1>4

\* Waking the first waiter: it is gone, and the others are still there.
LEMMA LineTail ==
  ASSUME NEW P, NEW q, Line(q, P), q # <<>>
  PROVE  /\ Line(Tail(q), P) /\ Head(q) \in P /\ In(q, Head(q))
         /\ \A r : In(Tail(q), r) <=> In(q, r) /\ r # Head(q)
<1>1. q \in Seq(P) /\ Len(q) \in Nat \ {0} /\ DOMAIN q = 1 .. Len(q)
  BY DEF Line
<1>2. /\ Tail(q) \in Seq(P) /\ DOMAIN Tail(q) = 1 .. Len(q) - 1 /\ Len(Tail(q)) = Len(q) - 1
      /\ \A i \in 1 .. Len(q) - 1 : Tail(q)[i] = q[i + 1]
      /\ Head(q) = q[1] /\ Head(q) \in P
  BY <1>1
<1>3. Line(Tail(q), P)
  <2> SUFFICES ASSUME NEW i \in 1 .. Len(q) - 1, NEW j \in 1 .. Len(q) - 1, Tail(q)[i] = Tail(q)[j]
               PROVE  i = j
    BY <1>2 DEF Line
  <2>1. i + 1 \in 1 .. Len(q) /\ j + 1 \in 1 .. Len(q) /\ q[i + 1] = q[j + 1]
    BY <1>1, <1>2
  <2>2. i + 1 = j + 1
    BY <2>1 DEF Line
  <2> QED
    BY <2>2
<1>4. In(q, Head(q))
  BY <1>1, <1>2 DEF In
<1>5. ASSUME NEW r PROVE In(Tail(q), r) <=> In(q, r) /\ r # Head(q)
  <2>1. ASSUME In(Tail(q), r) PROVE In(q, r) /\ r # Head(q)
    <3>1. PICK i \in 1 .. Len(q) - 1 : Tail(q)[i] = r
      BY <1>2, <2>1 DEF In
    <3>2. i + 1 \in 1 .. Len(q) /\ q[i + 1] = r /\ 1 \in 1 .. Len(q) /\ i + 1 # 1
      BY <1>1, <1>2, <3>1
    <3>3. q[i + 1] # q[1]
      BY <3>2 DEF Line
    <3> QED
      BY <1>1, <1>2, <3>2, <3>3 DEF In
  <2>2. ASSUME In(q, r), r # Head(q) PROVE In(Tail(q), r)
    <3>1. PICK i \in 1 .. Len(q) : q[i] = r
      BY <1>1, <2>2 DEF In
    <3>2. i # 1
      BY <1>2, <2>2, <3>1
    <3>3. i - 1 \in 1 .. Len(q) - 1 /\ (i - 1) + 1 = i
      BY <1>1, <3>1, <3>2
    <3>4. Tail(q)[i - 1] = q[(i - 1) + 1]
      BY <1>2, <3>3
    <3> QED
      BY <1>2, <3>1, <3>3, <3>4, Zenon DEF In
  <2> QED
    BY <2>1, <2>2
<1> QED
  BY <1>2, <1>3, <1>4, <1>5

\* wait_current_del: who leaves is gone, and the others are still there.
LEMMA LineDel ==
  ASSUME NEW P, NEW q, Line(q, P), NEW p
  PROVE  /\ Line(wait_current_del(q, p), P)
         /\ \A r : In(wait_current_del(q, p), r) <=> In(q, r) /\ r # p
<1>1. q \in Seq(P) /\ Len(q) \in Nat /\ DOMAIN q = 1 .. Len(q) /\ \A i \in 1 .. Len(q) : q[i] \in P
  BY DEF Line
<1>2. CASE ~In(q, p)
  BY <1>2 DEF wait_current_del, In
<1>3. CASE In(q, p)
  <2>1. PICK at \in 1 .. Len(q) : at = CHOOSE i \in DOMAIN q : q[i] = p
    BY <1>1, <1>3 DEF In
  <2>2. q[at] = p
    BY <1>1, <1>3, <2>1 DEF In
  <2> DEFINE d == wait_current_del(q, p)
  <2>3. d = [i \in 1 .. Len(q) - 1 |-> IF i < at THEN q[i] ELSE q[i + 1]]
    BY <1>3, <2>1 DEF wait_current_del, In
  <2>4. /\ d \in [1 .. Len(q) - 1 -> P] /\ Len(q) - 1 \in Nat
        /\ \A i \in 1 .. Len(q) - 1 : d[i] = IF i < at THEN q[i] ELSE q[i + 1]
    <3>1. \A i \in 1 .. Len(q) - 1 : i \in 1 .. Len(q) /\ i + 1 \in 1 .. Len(q)
      BY <1>1
    <3> QED
      BY <1>1, <2>3, <3>1
  <2> HIDE DEF d
  <2>5. d \in Seq(P) /\ Len(d) = Len(q) - 1 /\ DOMAIN d = 1 .. Len(q) - 1
    BY <2>4, IsSeq
  <2>6. Line(d, P)
    <3> SUFFICES ASSUME NEW i \in 1 .. Len(q) - 1, NEW j \in 1 .. Len(q) - 1, d[i] = d[j]
                 PROVE  i = j
      BY <2>5 DEF Line
    <3> DEFINE a == IF i < at THEN i ELSE i + 1
               b == IF j < at THEN j ELSE j + 1
    <3>1. a \in 1 .. Len(q) /\ b \in 1 .. Len(q) /\ q[a] = q[b]
      BY <1>1, <2>4
    <3>2. a = b
      BY <3>1 DEF Line
    <3> QED
      BY <3>2, <1>1, <2>1
  <2>7. ASSUME NEW r PROVE In(d, r) <=> In(q, r) /\ r # p
    <3>1. ASSUME In(d, r) PROVE In(q, r) /\ r # p
      <4>1. PICK i \in 1 .. Len(q) - 1 : d[i] = r
        BY <3>1, <2>5 DEF In
      <4> DEFINE a == IF i < at THEN i ELSE i + 1
      <4>2. a \in 1 .. Len(q) /\ q[a] = r /\ a # at
        <5>1. d[i] = IF i < at THEN q[i] ELSE q[i + 1]
          BY <2>4
        <5>2. CASE i < at
          BY <1>1, <5>1, <5>2, <4>1
        <5>3. CASE ~(i < at)
          BY <1>1, <5>1, <5>3, <4>1
        <5> QED
          BY <5>2, <5>3
      <4>3. q[a] # q[at]
        BY <4>2, <2>1 DEF Line
      <4> HIDE DEF a
      <4> QED
        BY <4>2, <4>3, <2>2, <1>1 DEF In
    <3>2. ASSUME In(q, r), r # p PROVE In(d, r)
      <4>1. PICK i \in 1 .. Len(q) : q[i] = r
        BY <1>1, <3>2 DEF In
      <4>2. i # at
        BY <4>1, <3>2, <2>2
      <4> DEFINE a == IF i < at THEN i ELSE i - 1
      <4>3. a \in 1 .. Len(q) - 1 /\ (IF a < at THEN a ELSE a + 1) = i
        BY <1>1, <2>1, <4>2
      <4>4. d[a] = q[i]
        BY <2>4, <4>3
      <4> HIDE DEF a
      <4> QED
        BY <4>1, <4>3, <4>4, <2>5 DEF In
    <3> QED
      BY <3>1, <3>2
  <2> QED
    BY <2>6, <2>7 DEF d
<1> QED
  BY <1>2, <1>3

\* What Kept computes, entry by entry.
Walks(f, q, S, n) ==
  /\ f[0] = <<>>
  /\ \A i \in 1 .. n : f[i] = IF q[i] \in S THEN Append(f[i - 1], q[i]) ELSE f[i - 1]
Keeps(f, q, S, n, P) == f \in [0 .. n -> Seq(P)] /\ Walks(f, q, S, n)

\* The function that Kept takes its answer from exists.
LEMMA KeepsExists ==
  ASSUME NEW P, NEW q \in Seq(P), NEW K
  PROVE  \E f : Keeps(f, q, K, Len(q), P)
<1> DEFINE S == {n \in 0 .. Len(q) : \E f : Keeps(f, q, K, n, P)}
<1>1. 0 \in S
  <2>1. Keeps([i \in 0 .. 0 |-> <<>>], q, K, 0, P)
    BY DEF Keeps, Walks
  <2> QED
    BY <2>1
<1>2. ASSUME NEW n \in 1 .. Len(q), n - 1 \in S PROVE n \in S
  <2>1. PICK f : Keeps(f, q, K, n - 1, P)
    BY <1>2
  <2>2. PICK last : last = IF q[n] \in K THEN Append(f[n - 1], q[n]) ELSE f[n - 1]
    BY Zenon
  <2> DEFINE g == [i \in 0 .. n |-> IF i = n THEN last ELSE f[i]]
  <2>3. /\ \A i \in 0 .. n - 1 : f[i] \in Seq(P)
        /\ f[0] = <<>>
        /\ \A i \in 1 .. n - 1 : f[i] = IF q[i] \in K THEN Append(f[i - 1], q[i]) ELSE f[i - 1]
    BY <2>1 DEF Keeps, Walks
  <2>4. last \in Seq(P)
    <3>1. f[n - 1] \in Seq(P) /\ q[n] \in P
      BY <2>3
    <3> QED
      BY <2>2, <3>1
  <2>5. g \in [0 .. n -> Seq(P)] /\ g[0] = <<>>
    BY <2>3, <2>4
  <2>6. ASSUME NEW i \in 1 .. n PROVE g[i] = IF q[i] \in K THEN Append(g[i - 1], q[i]) ELSE g[i - 1]
    <3>1. g[i - 1] = f[i - 1]
      OBVIOUS
    <3>2. CASE i = n
      BY <2>2, <3>1, <3>2
    <3>3. CASE i # n
      <4>1. i \in 1 .. n - 1 /\ g[i] = f[i]
        BY <3>3
      <4> QED
        BY <2>3, <3>1, <4>1
    <3> QED
      BY <3>2, <3>3
  <2>7. Keeps(g, q, K, n, P)
    BY <2>5, <2>6, Zenon DEF Keeps, Walks
  <2> QED
    BY <2>7
<1>3. Len(q) \in Nat
  OBVIOUS
<1>4. \A i \in 0 .. Len(q) : i \in S
  <2> HIDE DEF S
  <2> QED
    <3>1. \A i \in 0 + 1 .. Len(q) : i - 1 \in S => i \in S
      BY <1>2
    <3> QED
      BY <1>1, <1>3, <3>1, Upto, Zenon
<1> QED
  BY <1>3, <1>4

\* Two queues that agree on an initial part, and on who is kept of it.
LEMMA KeepsSame ==
  ASSUME NEW n \in Nat, NEW q, NEW r, NEW K, NEW L, NEW f, NEW g, Walks(f, q, K, n), Walks(g, r, L, n),
         \A i \in 1 .. n : q[i] = r[i] /\ (q[i] \in K <=> r[i] \in L)
  PROVE  \A i \in 0 .. n : f[i] = g[i]
<1> DEFINE S == {i \in 0 .. n : f[i] = g[i]}
<1>1. 0 \in S
  BY DEF Walks
<1>2. ASSUME NEW i \in 1 .. n, i - 1 \in S PROVE i \in S
  <2>1. f[i - 1] = g[i - 1]
    BY <1>2
  <2> QED
    BY <2>1 DEF Walks
<1>3. \A i \in 0 .. n : i \in S
  <2> HIDE DEF S
  <2> QED
    <3>1. \A i \in 0 + 1 .. n : i - 1 \in S => i \in S
      BY <1>2
    <3> QED
      BY <1>1, <3>1, Upto, Zenon
<1> QED
  BY <1>3

\* Kept is the last entry of that function.
LEMMA KeptIs ==
  ASSUME NEW P, NEW q \in Seq(P), NEW K
  PROVE  \E f : Keeps(f, q, K, Len(q), P) /\ Kept(q, K) = f[Len(q)]
<1> DEFINE n == Len(q)
           E(f, i) == IF i = 0 THEN <<>> ELSE IF q[i] \in K THEN Append(f[i - 1], q[i]) ELSE f[i - 1]
           Eq(f) == f = [i \in 0 .. n |-> E(f, i)]
           k == CHOOSE g : Eq(g)
<1>0. n \in Nat
  OBVIOUS
<1>1. PICK f : Keeps(f, q, K, n, P)
  BY KeepsExists, Zenon
<1>2. Eq(f)
  <2>1. f = [i \in 0 .. n |-> f[i]]
    BY <1>1 DEF Keeps
  <2>2. ASSUME NEW i \in 0 .. n PROVE f[i] = E(f, i)
    <3>1. i = 0 \/ i \in 1 .. n
      BY <1>0
    <3> QED
      BY <1>1, <3>1, Zenon DEF Keeps, Walks
  <2> HIDE DEF E
  <2> QED
    BY <2>1, <2>2
<1>3. Kept(q, K) = k[n]
  BY DEF Kept
<1>4. Eq(k)
  <2> HIDE DEF Eq
  <2> QED
    BY <1>2, Zenon
<1> HIDE DEF k
<1>5. Walks(k, q, K, n)
  <2>1. \A i \in 0 .. n : k[i] = E(k, i)
    <3> HIDE DEF E
    <3> QED
      BY <1>4
  <2>2. k[0] = E(k, 0) /\ \A i \in 1 .. n : k[i] = E(k, i)
    BY <1>0, <2>1
  <2> QED
    BY <2>2 DEF Walks
<1>6. \A i \in 0 .. n : k[i] = f[i]
  BY <1>0, <1>1, <1>5, KeepsSame DEF Keeps
<1>7. k[n] = f[n]
  BY <1>0, <1>6
<1> QED
  BY <1>1, <1>3, <1>7

\* Kept makes a queue out of a queue.
LEMMA KeptType ==
  ASSUME NEW P, NEW q \in Seq(P), NEW K
  PROVE  Kept(q, K) \in Seq(P)
<1>1. PICK f : Keeps(f, q, K, Len(q), P) /\ Kept(q, K) = f[Len(q)]
  BY KeptIs
<1>2. Len(q) \in 0 .. Len(q)
  OBVIOUS
<1> QED
  BY <1>1, <1>2 DEF Keeps

\* Only who is in the queue matters.
LEMMA KeptSame ==
  ASSUME NEW P, NEW q \in Seq(P), NEW K, NEW L, \A i \in 1 .. Len(q) : q[i] \in K <=> q[i] \in L
  PROVE  Kept(q, K) = Kept(q, L)
<1>1. PICK f : Keeps(f, q, K, Len(q), P) /\ Kept(q, K) = f[Len(q)]
  BY KeptIs
<1>2. PICK g : Keeps(g, q, L, Len(q), P) /\ Kept(q, L) = g[Len(q)]
  BY KeptIs
<1>3. \A i \in 0 .. Len(q) : f[i] = g[i]
  <2>1. Len(q) \in Nat /\ Walks(f, q, K, Len(q)) /\ Walks(g, q, L, Len(q))
    BY <1>1, <1>2 DEF Keeps
  <2> QED
    BY <2>1, KeepsSame
<1> QED
  BY <1>1, <1>2, <1>3

\* There is nobody to keep of nobody.
LEMMA KeptEmpty == ASSUME NEW K PROVE Kept(<<>>, K) = <<>>
<1>1. <<>> \in Seq({}) /\ Len(<<>>) = 0
  OBVIOUS
<1>2. PICK f : Keeps(f, <<>>, K, 0, {}) /\ Kept(<<>>, K) = f[0]
  BY <1>1, KeptIs, Zenon
<1> QED
  BY <1>2 DEF Keeps, Walks

\* Who joins the queue joins the kept ones, if it is kept.
LEMMA KeptAppend ==
  ASSUME NEW P, NEW q \in Seq(P), NEW p \in P, NEW K
  PROVE  Kept(Append(q, p), K) = IF p \in K THEN Append(Kept(q, K), p) ELSE Kept(q, K)
<1> DEFINE n == Len(q)
           r == Append(q, p)
<1>1. r \in Seq(P) /\ Len(r) = n + 1 /\ n \in Nat /\ r[n + 1] = p /\ \A i \in 1 .. n : r[i] = q[i]
  OBVIOUS
<1> HIDE DEF r
<1>2. PICK f : Keeps(f, q, K, n, P) /\ Kept(q, K) = f[n]
  BY KeptIs
<1>3. PICK g : Keeps(g, r, K, n + 1, P) /\ Kept(r, K) = g[n + 1]
  BY <1>1, KeptIs
<1>4. \A i \in 0 .. n : f[i] = g[i]
  <2>1. Walks(f, q, K, n) /\ Walks(g, r, K, n)
    BY <1>1, <1>2, <1>3 DEF Keeps, Walks
  <2> QED
    BY <1>1, <2>1, KeepsSame
<1>5. f[n] = g[n]
  BY <1>1, <1>4
<1>6. g[n + 1] = IF p \in K THEN Append(g[n], p) ELSE g[n]
  <2>1. n + 1 \in 1 .. n + 1 /\ (n + 1) - 1 = n
    BY <1>1
  <2>2. g[n + 1] = IF r[n + 1] \in K THEN Append(g[(n + 1) - 1], r[n + 1]) ELSE g[(n + 1) - 1]
    BY <1>3, <2>1 DEF Keeps, Walks
  <2> QED
    BY <1>1, <2>1, <2>2
<1> QED
  BY <1>2, <1>3, <1>5, <1>6 DEF r

\* The first waiter and the last one do not meet unless they are one.
LEMMA TailAppend ==
  ASSUME NEW P, NEW q \in Seq(P), q # <<>>, NEW p \in P
  PROVE  /\ Tail(Append(q, p)) = Append(Tail(q), p)
         /\ Append(q, p) # <<>> /\ Head(Append(q, p)) = Head(q)
OBVIOUS

\* The first waiter is kept: so it is the first of the kept ones.
LEMMA KeptTail ==
  ASSUME NEW P, NEW q \in Seq(P), q # <<>>, NEW K, Head(q) \in K
  PROVE  Kept(q, K) # <<>> /\ Head(Kept(q, K)) = Head(q) /\ Kept(Tail(q), K) = Tail(Kept(q, K))
<1> DEFINE n == Len(q) - 1
           r == Tail(q)
<1>1. /\ r \in Seq(P) /\ Len(r) = n /\ n \in Nat /\ Len(q) = n + 1 /\ Head(q) = q[1]
      /\ \A i \in 1 .. n : r[i] = q[i + 1] /\ r[i] \in P
      /\ q[1] \in P
  OBVIOUS
<1> HIDE DEF r, n
<1>2. PICK f : Keeps(f, q, K, n + 1, P) /\ Kept(q, K) = f[n + 1]
  BY <1>1, KeptIs
<1>3. PICK g : Keeps(g, r, K, n, P) /\ Kept(r, K) = g[n]
  BY <1>1, KeptIs
<1> DEFINE S == {i \in 0 .. n : f[i + 1] \in Seq(P) /\ f[i + 1] # <<>> /\ Head(f[i + 1]) = q[1] /\ g[i] = Tail(f[i + 1])}
<1>4. 0 \in S
  <2>1. f[1] = Append(f[0], q[1]) /\ f[0] = <<>> /\ g[0] = <<>>
    <3>1. 1 \in 1 .. n + 1 /\ 1 - 1 = 0
      BY <1>1
    <3>2. f[1] = IF q[1] \in K THEN Append(f[1 - 1], q[1]) ELSE f[1 - 1]
      BY <1>2, <3>1, Zenon DEF Keeps, Walks
    <3> QED
      BY <1>1, <1>2, <1>3, <3>1, <3>2, Zenon DEF Keeps, Walks
  <2>2. f[1] = <<q[1]>> /\ 0 + 1 = 1 /\ 0 \in 0 .. n
    BY <1>1, <2>1
  <2>3. <<q[1]>> \in Seq(P) /\ <<q[1]>> # <<>> /\ Head(<<q[1]>>) = q[1] /\ Tail(<<q[1]>>) = <<>>
    BY <1>1
  <2> QED
    BY <2>1, <2>2, <2>3, Zenon
<1>5. ASSUME NEW i \in 1 .. n, i - 1 \in S PROVE i \in S
  <2>1. i \in 0 .. n /\ i + 1 \in 1 .. n + 1 /\ (i - 1) + 1 = i /\ (i + 1) - 1 = i
    BY <1>1
  <2>2. f[i] \in Seq(P) /\ f[i] # <<>> /\ Head(f[i]) = q[1] /\ g[i - 1] = Tail(f[i])
    BY <1>5, <2>1
  <2>3. f[i + 1] = IF q[i + 1] \in K THEN Append(f[i], q[i + 1]) ELSE f[i]
    BY <1>2, <2>1 DEF Keeps, Walks
  <2>4. g[i] = IF r[i] \in K THEN Append(g[i - 1], r[i]) ELSE g[i - 1]
    BY <1>3 DEF Keeps, Walks
  <2>5. r[i] = q[i + 1] /\ r[i] \in P
    BY <1>1
  <2>6. CASE r[i] \in K
    <3>1. f[i + 1] = Append(f[i], r[i]) /\ g[i] = Append(Tail(f[i]), r[i])
      BY <2>2, <2>3, <2>4, <2>5, <2>6
    <3>2. Append(f[i], r[i]) \in Seq(P)
      BY <2>2, <2>5
    <3>3. /\ Tail(Append(f[i], r[i])) = Append(Tail(f[i]), r[i])
          /\ Append(f[i], r[i]) # <<>> /\ Head(Append(f[i], r[i])) = Head(f[i])
      BY <2>2, <2>5, TailAppend
    <3> QED
      BY <2>1, <2>2, <3>1, <3>2, <3>3, Zenon
  <2>7. CASE r[i] \notin K
    BY <2>1, <2>2, <2>3, <2>4, <2>5, <2>7
  <2> QED
    BY <2>6, <2>7
<1>6. \A i \in 0 .. n : i \in S
  <2> HIDE DEF S
  <2> QED
    <3>1. \A i \in 0 + 1 .. n : i - 1 \in S => i \in S
      BY <1>5
    <3> QED
      BY <1>1, <1>4, <3>1, Upto, Zenon
<1>7. n \in S
  BY <1>1, <1>6
<1> QED
  BY <1>1, <1>2, <1>3, <1>7, Zenon DEF r

\* Who is not kept can leave unnoticed.
LEMMA KeptDel ==
  ASSUME NEW P, NEW q, Line(q, P), NEW p, NEW K, p \notin K
  PROVE  Kept(wait_current_del(q, p), K) = Kept(q, K)
<1>0. q \in Seq(P) /\ Len(q) \in Nat /\ DOMAIN q = 1 .. Len(q)
  BY DEF Line
<1>1. CASE ~In(q, p)
  BY <1>1 DEF wait_current_del, In
<1>2. CASE In(q, p)
  <2>1. PICK at \in 1 .. Len(q) : at = CHOOSE i \in DOMAIN q : q[i] = p
    BY <1>0, <1>2 DEF In
  <2>2. q[at] = p
    BY <1>0, <1>2, <2>1 DEF In
  <2> DEFINE d == wait_current_del(q, p)
             n == Len(q) - 1
  <2>3. d = [i \in 1 .. n |-> IF i < at THEN q[i] ELSE q[i + 1]]
    BY <1>2, <2>1 DEF wait_current_del, In
  <2>4. d \in Seq(P) /\ n \in Nat /\ Len(q) = n + 1
    BY <1>0, LineDel DEF Line
  <2>5. Len(d) = n /\ \A i \in 1 .. n : d[i] = IF i < at THEN q[i] ELSE q[i + 1]
    BY <2>3, <2>4
  <2> HIDE DEF d, n
  <2>6. PICK f : Keeps(f, q, K, n + 1, P) /\ Kept(q, K) = f[n + 1]
    BY <1>0, <2>4, KeptIs
  <2>7. PICK g : Keeps(g, d, K, n, P) /\ Kept(d, K) = g[n]
    BY <2>4, <2>5, KeptIs
  <2> DEFINE S == {i \in 0 .. n : g[i] = IF i < at THEN f[i] ELSE f[i + 1]}
  <2>8. f[at] = f[at - 1]
    <3>1. at \in 1 .. n + 1
      BY <2>1, <2>4
    <3> QED
      BY <2>2, <2>6, <3>1 DEF Keeps, Walks
  <2>9. 0 \in S
    <3>1. g[0] = f[0] /\ 0 < at
      BY <2>1, <2>6, <2>7 DEF Keeps, Walks
    <3> QED
      BY <2>4, <3>1
  <2>10. ASSUME NEW i \in 1 .. n, i - 1 \in S PROVE i \in S
    <3>1. i \in 1 .. n + 1 /\ i + 1 \in 1 .. n + 1 /\ (i - 1) + 1 = i /\ (i + 1) - 1 = i /\ at \in Nat
      BY <2>1, <2>4
    <3>2. g[i] = IF d[i] \in K THEN Append(g[i - 1], d[i]) ELSE g[i - 1]
      BY <2>7 DEF Keeps, Walks
    <3>3. f[i] = IF q[i] \in K THEN Append(f[i - 1], q[i]) ELSE f[i - 1]
      BY <2>6, <3>1 DEF Keeps, Walks
    <3>4. f[i + 1] = IF q[i + 1] \in K THEN Append(f[i], q[i + 1]) ELSE f[i]
      BY <2>6, <3>1 DEF Keeps, Walks
    <3>5. g[i - 1] = IF i - 1 < at THEN f[i - 1] ELSE f[i]
      BY <2>10, <3>1
    <3>6. d[i] = IF i < at THEN q[i] ELSE q[i + 1]
      BY <2>5
    <3>7. CASE i < at
      <4>1. g[i] = f[i]
        BY <3>1, <3>2, <3>3, <3>5, <3>6, <3>7
      <4> QED
        BY <3>7, <4>1
    <3>8. CASE i = at
      <4>1. g[i - 1] = f[i]
        BY <2>8, <3>5, <3>8
      <4>2. g[i] = f[i + 1]
        BY <3>2, <3>4, <3>6, <3>8, <4>1
      <4> QED
        BY <3>8, <4>2
    <3>9. CASE i > at
      <4>1. g[i - 1] = f[i]
        BY <3>1, <3>5, <3>9
      <4>2. g[i] = f[i + 1]
        BY <3>1, <3>2, <3>4, <3>6, <3>9, <4>1
      <4> QED
        BY <3>1, <3>9, <4>2
    <3> QED
      BY <3>1, <3>7, <3>8, <3>9
  <2>11. \A i \in 0 .. n : i \in S
    <3> HIDE DEF S
    <3> QED
      <4>1. \A i \in 0 + 1 .. n : i - 1 \in S => i \in S
        BY <2>10
      <4> QED
        BY <2>4, <2>9, <4>1, Upto
  <2>12. g[n] = f[n + 1]
    <3>1. g[n] = IF n < at THEN f[n] ELSE f[n + 1]
      BY <2>4, <2>11
    <3>2. n < at => at = n + 1
      BY <2>1, <2>4
    <3>3. n < at => f[n + 1] = f[n]
      BY <2>4, <2>8, <3>2
    <3> QED
      BY <3>1, <3>3
  <2> QED
    BY <2>6, <2>7, <2>12 DEF d
<1> QED
  BY <1>1, <1>2

\* Keeping twice is keeping who would be kept both times.
LEMMA KeptTwice ==
  ASSUME NEW P, NEW q \in Seq(P), NEW K, NEW L
  PROVE  Kept(Kept(q, K), L) = Kept(q, K \cap L)
<1> DEFINE n == Len(q)
<1>1. PICK f : Keeps(f, q, K, n, P) /\ Kept(q, K) = f[n]
  BY KeptIs
<1>2. PICK g : Keeps(g, q, K \cap L, n, P) /\ Kept(q, K \cap L) = g[n]
  BY KeptIs
<1>3. n \in Nat /\ \A i \in 1 .. n : q[i] \in P
  OBVIOUS
<1> HIDE DEF n
<1> DEFINE S == {i \in 0 .. n : Kept(f[i], L) = g[i]}
<1>4. 0 \in S
  BY <1>1, <1>2, <1>3, KeptEmpty DEF Keeps, Walks
<1>5. ASSUME NEW i \in 1 .. n, i - 1 \in S PROVE i \in S
  <2>1. i - 1 \in 0 .. n /\ i \in 0 .. n /\ q[i] \in P
    BY <1>3
  <2>2. /\ f[i] = IF q[i] \in K THEN Append(f[i - 1], q[i]) ELSE f[i - 1]
        /\ f[i - 1] \in Seq(P)
    BY <1>1, <2>1, Zenon DEF Keeps, Walks
  <2>3. g[i] = IF q[i] \in K \cap L THEN Append(g[i - 1], q[i]) ELSE g[i - 1]
    BY <1>2 DEF Keeps, Walks
  <2>4. Kept(f[i - 1], L) = g[i - 1]
    BY <1>5
  <2>5. Kept(Append(f[i - 1], q[i]), L) =
          IF q[i] \in L THEN Append(Kept(f[i - 1], L), q[i]) ELSE Kept(f[i - 1], L)
    <3>1. PICK x \in Seq(P), y \in P : x = f[i - 1] /\ y = q[i]
      BY <2>1, <2>2
    <3>2. Kept(Append(x, y), L) = IF y \in L THEN Append(Kept(x, L), y) ELSE Kept(x, L)
      BY KeptAppend
    <3> QED
      BY <3>1, <3>2
  <2> QED
    BY <2>1, <2>2, <2>3, <2>4, <2>5
<1>6. \A i \in 0 .. n : i \in S
  <2> HIDE DEF S
  <2> QED
    <3>1. \A i \in 0 + 1 .. n : i - 1 \in S => i \in S
      BY <1>5
    <3> QED
      BY <1>3, <1>4, <3>1, Upto, Zenon
<1> QED
  BY <1>1, <1>2, <1>3, <1>6
=============================================================================
