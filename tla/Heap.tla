-------------------------------- MODULE Heap --------------------------------
(***************************************************************************)
(* Package container/heap (heap.go), on a heap whose elements know their   *)
(* own place, as package time keeps its timers: a record of the array h    *)
(* (numbered from 0) and of every element's index i, -1 outside the heap.  *)
(* The operators take the keys of the elements as a function t.            *)
(***************************************************************************)
EXTENDS Integers

Less(s, t, a, b) == t[s.h[a]] < t[s.h[b]]

\* timerHeap.Swap.
Swap(s, a, b) ==
  [s EXCEPT !.h = [@ EXCEPT ![a] = s.h[b], ![b] = s.h[a]],
            !.i = [@ EXCEPT ![s.h[b]] = a, ![s.h[a]] = b]]

\* up.  Go's division rounds to zero, so the parent of 0 is 0.
RECURSIVE up(_, _, _)
up(s, t, j) ==
  LET i == IF j = 0 THEN 0 ELSE (j - 1) \div 2
  IN IF i = j \/ Less(s, t, i, j) THEN s ELSE up(Swap(s, i, j), t, i)

\* down, on the first n elements.
RECURSIVE down(_, _, _, _)
down(s, t, i, n) ==
  LET j1 == 2 * i + 1
      j == IF j1 + 1 < n /\ ~Less(s, t, j1, j1 + 1) THEN j1 + 1 ELSE j1
  IN IF j1 >= n \/ Less(s, t, i, j) THEN s ELSE down(Swap(s, i, j), t, j, n)

\* heap.Init.
RECURSIVE heapify(_, _, _)
heapify(s, t, i) == IF i < 0 THEN s ELSE heapify(down(s, t, i, s.n), t, i - 1)
heapInit(s, t) == heapify(s, t, s.n \div 2 - 1)

\* heap.Push without up.
PushAppends(s, t, e) ==
  [h |-> [k \in 0 .. s.n |-> IF k = s.n THEN e ELSE s.h[k]],
   i |-> [s.i EXCEPT ![e] = s.n], n |-> s.n + 1]

\* timerHeap.Push and heap.Push.
Push(s, t, e) ==
  up([h |-> [k \in 0 .. s.n |-> IF k = s.n THEN e ELSE s.h[k]],
      i |-> [s.i EXCEPT ![e] = s.n], n |-> s.n + 1], t, s.n)

\* timerHeap.Pop: the last element leaves.
Drop(s) == LET n == s.n - 1
           IN [h |-> [k \in 0 .. n - 1 |-> s.h[k]], i |-> [s.i EXCEPT ![s.h[n]] = -1], n |-> n]

\* heap.Pop.
Pop(s, t) == Drop(down(Swap(s, 0, s.n - 1), t, 0, s.n - 1))

\* heap.Remove that only moves the last element down.
RemoveDownOnly(s, t, i) ==
  LET n == s.n - 1
  IN Drop(IF n # i THEN down(Swap(s, i, n), t, i, n) ELSE s)

\* heap.Remove.
Remove(s, t, i) ==
  LET n == s.n - 1
  IN Drop(IF n # i THEN up(down(Swap(s, i, n), t, i, n), t, i) ELSE s)

\* The invariant of the package's comment, heap.go:16, and that every element
\* knows where it is.
IsHeap(s, t) ==
  /\ \A a \in 0 .. s.n - 1 : \A j \in {2 * a + 1, 2 * a + 2} :
        j < s.n => ~Less(s, t, j, a)
  /\ \A a \in 0 .. s.n - 1 : s.i[s.h[a]] = a
  /\ \A e \in DOMAIN s.i : s.i[e] >= 0 => s.h[s.i[e]] = e
=============================================================================
