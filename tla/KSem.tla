-------------------------------- MODULE KSem --------------------------------
(***************************************************************************)
(* A user semaphore of the ucore kernel (kern/sync/sem.c) as the threads   *)
(* that use it through system calls 40-43 see it: a value, a valid flag    *)
(* and the FIFO queue of the threads asleep in sem_wait.  The kernel is    *)
(* not preemptible, so between entry and the point where the caller sleeps *)
(* or returns each of these calls is one atomic change of the record.      *)
(***************************************************************************)
EXTENDS Integers, Sequences

SemRec(Threads) == [value : Nat, valid : BOOLEAN, queue : Seq(Threads)]

\* sem_init: a fresh semaphore.
sem_init(v) == [value |-> v, valid |-> TRUE, queue |-> <<>>]

\* sem_init returns -E_NO_MEM when kmalloc fails: an unsigned number that is
\* neither 0 nor the id of a semaphore.
ENoMem == -4

\* __up hands the token to the first waiter, or stores it when nobody waits.
up(s) == IF s.queue = <<>>
         THEN [s EXCEPT !.value = @ + 1]
         ELSE [s EXCEPT !.queue = Tail(@)]

\* The threads __up makes runnable: the first waiter, if there is one.
upWakes(s) == IF s.queue = <<>> THEN {} ELSE {Head(s.queue)}

\* __down takes a stored token, or puts the caller at the tail of the queue.
downTakes(s) == s.value > 0
down(s, t) == IF downTakes(s)
              THEN [s EXCEPT !.value = @ - 1]
              ELSE [s EXCEPT !.queue = Append(@, t)]

\* A waiter that runs again unlinks itself if nobody has, wherever it stands.
wait_current_del(queue, t) ==
  LET at == CHOOSE i \in DOMAIN queue : queue[i] = t
  IN  IF \E i \in DOMAIN queue : queue[i] = t
      THEN [i \in 1 .. Len(queue) - 1 |-> IF i < at THEN queue[i] ELSE queue[i + 1]]
      ELSE queue

\* The threads of a queue that are in S, in order.
Kept(queue, S) ==
  LET kept[i \in 0 .. Len(queue)] == IF i = 0 THEN <<>>
                                     ELSE IF queue[i] \in S THEN Append(kept[i - 1], queue[i])
                                     ELSE kept[i - 1]
  IN  kept[Len(queue)]

\* ipc_sem_free invalidates the semaphore and wakes every waiter; the record
\* itself stays on the process's semu_list until a later search or exit.
free(s) == [s EXCEPT !.valid = FALSE, !.queue = <<>>]
=============================================================================
