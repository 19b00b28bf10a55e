------------------------------ MODULE Deadlines -----------------------------
(***************************************************************************)
(* What the timer list promises: every process that has a timer has its    *)
(* own number of ticks to wait, each tick takes one from all of them, and  *)
(* a timer leaves when it has none left or when its owner deletes it.      *)
(***************************************************************************)
EXTENDS Naturals

CONSTANTS Procs, MaxSleep

VARIABLE due  \* ticks until the process's timer fires, 0 for no timer

Init == due = [p \in Procs |-> 0]

Start(p) == /\ due[p] = 0
            /\ \E n \in 1 .. MaxSleep : due' = [due EXCEPT ![p] = n]

Stop(p) == due' = [due EXCEPT ![p] = 0]

Tick == due' = [p \in Procs |-> IF due[p] = 0 THEN 0 ELSE due[p] - 1]

Next == Tick \/ \E p \in Procs : Start(p) \/ Stop(p)

Spec == Init /\ [][Next]_due
=============================================================================
