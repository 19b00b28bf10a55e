------------------------------ MODULE Semaphore -----------------------------
(***************************************************************************)
(* What a user semaphore promises its callers: tokens go to waiters in the *)
(* order they came, a waiter that gives up leaves the queue and takes      *)
(* nothing with it, and nobody is left waiting for a freed semaphore.      *)
(***************************************************************************)
EXTENDS Naturals, Sequences, KSem

CONSTANTS Procs, InitValue

VARIABLES sem,  \* the semaphore
          st    \* what each process knows: out, waiting, granted or failed

vars == <<sem, st>>

Init == /\ sem = sem_init(InitValue)
        /\ st = [p \in Procs |-> "out"]

Wait(p) == /\ st[p] = "out" /\ sem.valid
           /\ sem' = down(sem, p)
           /\ st' = IF downTakes(sem) THEN st ELSE [st EXCEPT ![p] = "waiting"]

Post == /\ sem.valid
        /\ sem' = up(sem)
        /\ st' = [p \in Procs |-> IF p \in upWakes(sem) THEN "granted" ELSE st[p]]

\* A timeout or a kill; several waiters can give up at one tick.
GiveUp(S) == /\ \A p \in S : st[p] = "waiting"
             /\ sem' = [sem EXCEPT !.queue = Kept(@, Procs \ S)]
             /\ st' = [p \in Procs |-> IF p \in S THEN "failed" ELSE st[p]]

Free == /\ sem.valid
        /\ sem' = free(sem)
        /\ st' = [p \in Procs |-> IF st[p] = "waiting" THEN "failed" ELSE st[p]]

Return(p) == /\ st[p] \in {"granted", "failed"}
             /\ st' = [st EXCEPT ![p] = "out"]
             /\ UNCHANGED sem

Next == \/ Post \/ Free
        \/ \E p \in Procs : Wait(p) \/ Return(p)
        \/ \E S \in SUBSET Procs : GiveUp(S)

Spec == Init /\ [][Next]_vars
=============================================================================
