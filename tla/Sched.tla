-------------------------------- MODULE Sched -------------------------------
(***************************************************************************)
(* The processor and who runs on it: schedule, wakeup_proc and             *)
(* run_timer_list (kern/schedule/sched.c) over the multi-level feedback    *)
(* queues (sched_MLFQ.c, sched_RR.c), driven by the timer interrupt        *)
(* (kern/trap/trap.c) and by processes that compute, yield, sleep, fork    *)
(* and exit (kern/process/proc.c).  There is one processor.  Interrupts    *)
(* stay on inside the kernel, so a tick comes between any two actions: the *)
(* actions are what runs with interrupts off.                              *)
(***************************************************************************)
EXTENDS Integers, Sequences, FiniteSets, Timers

CONSTANTS Procs,       \* the processes, idleproc not among them
          InitProc,    \* the first of them
          Idle,        \* idleproc
          Levels,      \* number of run queues (4 in the code)
          Base,        \* max_time_slice of the first queue (8 in the code)
          MaxSleep,    \* the longest sleep
          Interactive  \* the processes that yield and sleep

\* What the constants have to be.
SchedAssumption == /\ IsFiniteSet(Procs) /\ InitProc \in Procs
                   /\ Idle \notin Procs /\ Interactive \subseteq Procs
                   /\ Levels \in Nat \ {0} /\ Base \in Nat \ {0}
                   /\ MaxSleep \in Nat

VARIABLES
  state,         \* proc->state
  rq,            \* the run queues, the first one first
  level,         \* proc->rq as an index, 0 for NULL
  slice,         \* proc->time_slice
  need_resched,  \* proc->need_resched
  current,       \* the running process
  timer_list,    \* the timers
  pc,            \* what current is doing
  next,          \* schedule's next
  ret            \* what a process does when its call of schedule returns

vars == <<state, rq, level, slice, need_resched, current, timer_list, pc, next, ret>>

All == Procs \cup {Idle}
max_time_slice(l) == Base * 2 ^ (l - 1)
Queued(p) == \E l \in 1 .. Levels : \E i \in DOMAIN rq[l] : rq[l][i] = p

Init == /\ state = [p \in All |-> IF p \in {InitProc, Idle} THEN "RUNNABLE" ELSE "UNINIT"]
        /\ rq = [l \in 1 .. Levels |-> IF l = 1 THEN <<InitProc>> ELSE <<>>]
        /\ level = [p \in Procs |-> IF p = InitProc THEN 1 ELSE 0]
        /\ slice = [p \in Procs |-> IF p = InitProc THEN Base ELSE 0]
        /\ need_resched = [p \in All |-> p = Idle]
        /\ current = Idle
        /\ timer_list = <<>>
        /\ pc = "run"
        /\ next = Idle
        /\ ret = [p \in All |-> "run"]

-----------------------------------------------------------------------------
\* MLFQ_enqueue chooses the queue: one that used its slice up goes one level
\* down, or stays on the last one; everybody else starts at the first.
MLFQ_level(p) ==
  IF level[p] # 0 /\ slice[p] = 0
  THEN IF level[p] = Levels THEN Levels ELSE level[p] + 1
  ELSE 1

\* RR_enqueue puts it at the tail of that queue with a fresh slice, unless it
\* has one left that fits.  ps are enqueued one after the other.
EnqueuedFront(ps) ==
  [l \in 1 .. Levels |-> SelectSeq(ps, LAMBDA p : MLFQ_level(p) = l) \o rq[l]]

Enqueued(ps) ==
  [l \in 1 .. Levels |-> rq[l] \o SelectSeq(ps, LAMBDA p : MLFQ_level(p) = l)]

EnqueuedLevel(ps) ==
  [p \in Procs |-> IF \E i \in DOMAIN ps : ps[i] = p THEN MLFQ_level(p) ELSE level[p]]

EnqueuedSlice(ps) ==
  [p \in Procs |->
     IF (\E i \in DOMAIN ps : ps[i] = p)
        /\ (slice[p] = 0 \/ slice[p] > max_time_slice(MLFQ_level(p)))
     THEN max_time_slice(MLFQ_level(p)) ELSE slice[p]]

\* MLFQ_pick_next: the first process of the first queue that has one, as the
\* set of the levels with one; MLFQ_dequeue takes it off.
Busy(q) == {l \in 1 .. Levels : q[l] # <<>>}
FirstBusy(q) == CHOOSE l \in Busy(q) : \A m \in Busy(q) : l <= m
pick_next(q) == IF Busy(q) = {} THEN Idle ELSE Head(q[FirstBusy(q)])
dequeue(q) == IF Busy(q) = {} THEN q ELSE [q EXCEPT ![FirstBusy(q)] = Tail(@)]

-----------------------------------------------------------------------------
\* The timer interrupt: run_timer_list wakes the processes whose timers fire
\* (wakeup_proc enqueues those that are not runnable) and charges the tick to
\* current.  trap calls schedule on the way out if it came from user mode.
Tick ==
  LET woken == SelectSeq(firedProcs(timer_list), LAMBDA p : state[p] # "RUNNABLE")
      charged == EnqueuedSlice(woken)
      left == IF charged[current] > 0 THEN charged[current] - 1 ELSE 0
      resched == current = Idle \/ left = 0
  IN  /\ pc # "panic"
      /\ timer_list' = run_timer_list(timer_list)
      /\ state' = [p \in All |-> IF \E i \in DOMAIN woken : woken[i] = p
                                 THEN "RUNNABLE" ELSE state[p]]
      /\ rq' = Enqueued(woken)
      /\ level' = EnqueuedLevel(woken)
      /\ slice' = IF current = Idle THEN charged ELSE [charged EXCEPT ![current] = left]
      /\ need_resched' = [need_resched EXCEPT ![current] = @ \/ resched]
      /\ pc' = IF pc = "run" /\ current # Idle /\ need_resched'[current] THEN "schedule" ELSE pc
      /\ UNCHANGED <<current, next, ret>>

\* cpu_idle's loop.
CpuIdle ==
  /\ pc = "run" /\ current = Idle /\ need_resched[Idle]
  /\ pc' = "schedule"
  /\ UNCHANGED <<state, rq, level, slice, need_resched, current, timer_list, next, ret>>

\* What schedule puts back on a queue: current, if it can run on.
Requeued == IF state[current] = "RUNNABLE" /\ current # Idle THEN <<current>> ELSE <<>>

\* schedule up to local_intr_restore.  MLFQ_enqueue asserts that the process is
\* on no queue yet.
Schedule ==
  /\ pc = "schedule"
  /\ IF Requeued # <<>> /\ Queued(current)
     THEN /\ pc' = "panic"
          /\ UNCHANGED <<state, rq, level, slice, need_resched, current, timer_list, next, ret>>
     ELSE /\ need_resched' = [need_resched EXCEPT ![current] = FALSE]
          /\ next' = pick_next(Enqueued(Requeued))
          /\ rq' = dequeue(Enqueued(Requeued))
          /\ level' = EnqueuedLevel(Requeued)
          /\ slice' = EnqueuedSlice(Requeued)
          /\ pc' = "switch"
          /\ UNCHANGED <<state, current, timer_list, ret>>

\* proc_run: the next process goes on where it called schedule, a new one in
\* user mode.
ProcRun ==
  /\ pc = "switch"
  /\ current' = next
  /\ pc' = ret[next]
  /\ ret' = [ret EXCEPT ![next] = "run"]
  /\ UNCHANGED <<state, rq, level, slice, need_resched, timer_list, next>>

Running(p) == pc = "run" /\ current = p

\* do_yield, and trap's schedule after it.
Yield(p) ==
  /\ Running(p) /\ p \in Interactive
  /\ need_resched' = [need_resched EXCEPT ![p] = TRUE]
  /\ pc' = "schedule"
  /\ UNCHANGED <<state, rq, level, slice, current, timer_list, next, ret>>

\* do_sleep up to its call of schedule.
Sleep(p, time) ==
  /\ Running(p) /\ p \in Interactive
  /\ state' = [state EXCEPT ![p] = "SLEEPING"]
  /\ timer_list' = add_timer(timer_list, p, time)
  /\ pc' = "schedule"
  /\ ret' = [ret EXCEPT ![p] = "woken"]
  /\ UNCHANGED <<rq, level, slice, need_resched, current, next>>

\* do_sleep after schedule, and trap on the way to user mode.
SleepReturns(p) ==
  /\ pc = "woken" /\ current = p
  /\ timer_list' = del_timer(timer_list, p)
  /\ pc' = IF need_resched[p] THEN "schedule" ELSE "run"
  /\ UNCHANGED <<state, rq, level, slice, need_resched, current, next, ret>>

\* do_fork as far as the scheduler sees it: the child gets half of what is left
\* of its parent's slice, and wakeup_proc puts it on the first queue, where a
\* slice of zero is replaced by a full one (ProcLife has the rest of do_fork).
Fork(p, new) ==
  LET half == slice[p] \div 2
  IN  /\ Running(p) /\ state[new] = "UNINIT"
      /\ state' = [state EXCEPT ![new] = "RUNNABLE"]
      /\ rq' = Enqueued(<<new>>)
      /\ level' = EnqueuedLevel(<<new>>)
      /\ slice' = [slice EXCEPT ![p] = @ - half,
                                ![new] = IF half = 0 \/ half > Base THEN Base ELSE half]
      /\ UNCHANGED <<need_resched, current, timer_list, pc, next, ret>>

\* do_fork out of memory after it has split the slice: the half it took from
\* its parent is not given back.
ForkFails(p) ==
  /\ Running(p)
  /\ slice' = [slice EXCEPT ![p] = @ - @ \div 2]
  /\ UNCHANGED <<state, rq, level, need_resched, current, timer_list, pc, next, ret>>

\* do_exit's change of state and its call of schedule, which does not return.
Exit(p) ==
  /\ Running(p) /\ p # InitProc
  /\ state' = [state EXCEPT ![p] = "ZOMBIE"]
  /\ pc' = "schedule"
  /\ UNCHANGED <<rq, level, slice, need_resched, current, timer_list, next, ret>>

-----------------------------------------------------------------------------
Kernel == CpuIdle \/ Schedule \/ ProcRun \/ \E p \in Procs : SleepReturns(p)

User(p) == \/ Yield(p) \/ Exit(p) \/ ForkFails(p)
           \/ \E time \in 1 .. MaxSleep : Sleep(p, time)
           \/ \E new \in Procs : Fork(p, new)

Next == Tick \/ Kernel \/ \E p \in Procs : User(p)

Spec == Init /\ [][Next]_vars

\* The clock ticks, and the kernel does not stop between two instructions.
FairSpec == Spec /\ WF_vars(Tick) /\ WF_vars(Kernel)

-----------------------------------------------------------------------------
Positions == {<<l, i>> \in (1 .. Levels) \X (1 .. Cardinality(Procs) + 1) : i \in DOMAIN rq[l]}

\* The process that runs, or is about to.
Chosen == IF pc = "switch" THEN next ELSE current

Due == [p \in Procs |-> DueIn(timer_list, p)]

\* Type correctness.
TypeOK == /\ state \in [All -> {"UNINIT", "RUNNABLE", "SLEEPING", "ZOMBIE"}]
          /\ rq \in [1 .. Levels -> Seq(Procs)]
          /\ level \in [Procs -> 0 .. Levels]
          /\ slice \in [Procs -> 0 .. max_time_slice(Levels)]
          /\ need_resched \in [All -> BOOLEAN]
          /\ current \in All /\ next \in All
          /\ timer_list \in Seq(Timer(Procs))
          /\ pc \in {"run", "schedule", "switch", "woken", "panic"}
          /\ ret \in [All -> {"run", "woken"}]

\* No process is lost and none is queued twice: a process that is runnable and
\* does not have the processor is on exactly one run queue, at one place, the
\* queue proc->rq names; one that sleeps or has exited is on none.
RunQueueOK ==
  \A p \in Procs :
    LET at == {x \in Positions : rq[x[1]][x[2]] = p}
    IN  /\ state[p] = "RUNNABLE" /\ p # Chosen => \E x \in at : at = {x} /\ x[1] = level[p]
        /\ state[p] # "RUNNABLE" => at = {}
        /\ Cardinality(at) <= 1

\* Who runs can run: the process on the processor is runnable unless it is on
\* its way into schedule, or schedule has chosen another.
RunningIsRunnable == pc \in {"run", "woken"} => state[current] = "RUNNABLE"

\* A sleeping process has a timer, and do_sleep returns only when that timer
\* has fired: the del_timer after schedule finds it gone.
SleepersHaveTimers ==
  /\ \A p \in Procs : state[p] = "SLEEPING" => Due[p] > 0
  /\ pc = "woken" => ~HasTimer(timer_list, current)

\* run_timer_list's assert(timer->expires != 0): the first timer always has a
\* tick left.
HeadNotZero == timer_list # <<>> => timer_list[1].expires # 0

\* The list of deltas keeps every timer's own deadline, whatever is added in
\* front of it, behind it or at the same tick, and fires it at that tick.
D == INSTANCE Deadlines WITH due <- Due
DeadlinesSpec == D!Spec

\* Processes that only compute share the processor: one that is runnable runs,
\* however often it was demoted.
RunnableRuns == \A p \in Procs : state[p] = "RUNNABLE" ~> current = p

\* sched_MLFQ.c:23: assert(list_empty(&(proc->run_link))).
NeverQueuedTwice == pc # "panic"

\* The scheduler loses no process and runs only those that can run, and a
\* process asleep has a timer that will fire.
SchedSound == /\ TypeOK /\ RunQueueOK /\ RunningIsRunnable
              /\ SleepersHaveTimers /\ HeadNotZero
=============================================================================
