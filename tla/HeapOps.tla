------------------------------- MODULE HeapOps ------------------------------
(***************************************************************************)
(* A caller of package container/heap: elements with any keys are pushed,  *)
(* the first is popped, and any is removed by the index it holds, in every *)
(* order.                                                                  *)
(***************************************************************************)
EXTENDS Heap, FiniteSets

CONSTANTS MaxElems, MaxKey   \* bounds

VARIABLES s, t

vars == <<s, t>>

Elems == 1 .. MaxElems

\* Any array that heap.Init has ordered.
Init == \E n \in 0 .. MaxElems : \E keys \in [1 .. n -> 0 .. MaxKey] :
  /\ t = keys
  /\ s = heapInit([h |-> [k \in 0 .. n - 1 |-> k + 1], n |-> n,
                   i |-> [e \in Elems |-> IF e <= n THEN e - 1 ELSE -1]], keys)

\* An element is pushed once; t has the keys of those that have been.
PushOp == \E k \in 0 .. MaxKey :
  /\ Cardinality(DOMAIN t) < MaxElems
  /\ t' = [e \in 1 .. Cardinality(DOMAIN t) + 1 |-> IF e \in DOMAIN t THEN t[e] ELSE k]
  /\ s' = Push(s, t', Cardinality(DOMAIN t) + 1)

PopOp == s.n > 0 /\ s' = Pop(s, t) /\ UNCHANGED t

RemoveOp == \E e \in DOMAIN t :
  s.i[e] >= 0 /\ s' = Remove(s, t, s.i[e]) /\ UNCHANGED t

Next == PushOp \/ PopOp \/ RemoveOp
Spec == Init /\ [][Next]_vars

Inside == {e \in Elems : s.i[e] >= 0}

-----------------------------------------------------------------------------
\* The invariants of heap.go:16-17: the tree is ordered, and every element knows
\* its index, however pushes, pops and removals follow each other.
StaysHeap == s.n = Cardinality(Inside) /\ IsHeap(s, t)

\* Every operation leaves a heap, and "Pop removes the minimum element", heap.go:48,
\* and no other.
OpStep == /\ StaysHeap'
          /\ PopOp => /\ Cardinality(Inside \ Inside') = 1 /\ Inside' \subseteq Inside
                      /\ \A e \in Inside \ Inside', d \in Inside' : t[e] <= t[d]
PopIsLeast == StaysHeap /\ [][OpStep]_vars
=============================================================================
