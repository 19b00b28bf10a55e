------------------------------- MODULE Timers -------------------------------
(***************************************************************************)
(* The kernel's timer list (kern/schedule/sched.c) as operators on a       *)
(* sequence of records: proc is the process a timer wakes, expires the     *)
(* number of ticks it has to wait after the timer in front of it.  Each    *)
(* function runs with interrupts off, so each is one change of the list.   *)
(***************************************************************************)
EXTENDS Integers, Sequences

Timer(Procs) == [proc : Procs, expires : Nat]

HasTimer(list, p) == \E i \in DOMAIN list : list[i].proc = p

\* The place of p's timer.
At(list, p) == CHOOSE i \in DOMAIN list : list[i].proc = p

\* Ticks until each timer fires: the sum of the deltas up to it.
Ticks(list) ==
  LET sum[i \in 0 .. Len(list)] == IF i = 0 THEN 0 ELSE sum[i - 1] + list[i].expires
  IN  sum

\* Ticks until p's timer fires; 0 without one.
DueIn(list, p) == IF HasTimer(list, p) THEN Ticks(list)[At(list, p)] ELSE 0

\* add_timer walks along the list, taking every delta it passes from its own.
\* Left(...)[i] is timer->expires when the walk has reached position i, and the
\* walk stops in front of the first timer that fires later.
Left(list, expires) ==
  LET left[i \in 1 .. Len(list) + 1] ==
        IF i = 1 THEN expires ELSE left[i - 1] - list[i - 1].expires
  IN  left
Stops(list, expires, i) == i = Len(list) + 1 \/ Left(list, expires)[i] < list[i].expires
Place(list, expires) ==
  CHOOSE i \in 1 .. Len(list) + 1 :
    Stops(list, expires, i) /\ \A j \in 1 .. i - 1 : ~Stops(list, expires, j)

add_timerKeepsNext(list, p, expires) ==
  LET le == Place(list, expires)
  IN  [i \in 1 .. Len(list) + 1 |->
         IF i < le THEN list[i]
         ELSE IF i = le THEN [proc |-> p, expires |-> Left(list, expires)[le]]
         ELSE list[i - 1]]

add_timer(list, p, expires) ==
  LET le == Place(list, expires)
      left == Left(list, expires)[le]
  IN  [i \in 1 .. Len(list) + 1 |->
         IF i < le THEN list[i]
         ELSE IF i = le THEN [proc |-> p, expires |-> left]
         ELSE IF i = le + 1 THEN [list[i - 1] EXCEPT !.expires = @ - left]
         ELSE list[i - 1]]

\* del_timer gives its delta to the timer behind it; a timer that is not linked
\* is left alone.
del_timer(list, p) ==
  LET at == At(list, p)
  IN  IF ~HasTimer(list, p) THEN list
      ELSE [i \in 1 .. Len(list) - 1 |->
              IF i < at THEN list[i]
              ELSE IF i = at THEN [list[i + 1] EXCEPT !.expires = @ + list[at].expires]
              ELSE list[i + 1]]

\* run_timer_list counts the first timer down; when it reaches zero it fires,
\* and with it the timers behind it that wait zero ticks more.  fired is how
\* many do.
firedOne(list) == IF list # <<>> /\ list[1].expires = 1 THEN 1 ELSE 0

fired(list) ==
  LET Zero(i) == list[i].expires = IF i = 1 THEN 1 ELSE 0
  IN  CHOOSE n \in 0 .. Len(list) : (\A i \in 1 .. n : Zero(i)) /\ (n < Len(list) => ~Zero(n + 1))

firedProcs(list) == [i \in 1 .. fired(list) |-> list[i].proc]

run_timer_list(list) ==
  LET n == fired(list)
  IN  [i \in 1 .. Len(list) - n |-> IF n = 0 /\ i = 1 THEN [list[1] EXCEPT !.expires = @ - 1]
                                    ELSE list[n + i]]
=============================================================================
