# A TLA+ verification of the ucore port of Go

The repository runs Go programs on ucore, a small 32-bit x86 teaching kernel.
It has two parts of its own: the kernel (`src/src/ucore/kern`) and the ucore
back end of the Go runtime (`src/patch/src/pkg/runtime/ucore`). The Go tree
itself (`src/src/go`) is upstream Go of 2011. This directory holds TLA+ models
of the concurrent core of the kernel, of the port, and of the part of the Go
tree that runs directly on it, with TLC runs on small instances and TLAPS proofs.

Kernel paths below are relative to `src/src/ucore/kern`; `thread.c` and
`runtime.h` are under `src/patch/src/pkg/runtime`; paths of Go packages and
`runtime/...` are under `src/src/go/src/pkg`.

## 1. The system

### Parts and how they interact

A Go program is a group of kernel threads that share memory. The ucore back end
creates them with `clone` (`thread.c: newosproc`) and synchronises them with
**locks** and **notes**, which work in user space with atomic instructions and
fall back on a kernel **semaphore** (`sync/sem.c`) to sleep. On locks and notes
stands the **goroutine scheduler** (`runtime/proc.c`), on it the **runtime
semaphores** (`runtime/sema.goc`) and **channels** (`runtime/chan.c`), and on
those packages **sync**, **io** (Pipe), **time** (timers, which keep a
**container/heap**), **netchan** and **rpc**.

In the kernel, a wait can have a timeout: a **timer** (`schedule/sched.c`) that
the clock interrupt (`trap/trap.c`) fires. Waking a process puts it on a **run
queue** (`schedule/sched_MLFQ.c`, `sched_RR.c`). **Processes and threads**
(`process/proc.c`) fork, exec, exit, exit as a group, kill each other and wait for
their children; `get_pid` numbers them. They meet on semaphores, **events**
(`sync/event.c`), **mailboxes** (`sync/mbox.c`), **pipes** (`fs/pipe`) and the
**console** (`fs/devs/dev_stdin.c`). Their memory is a list of areas
(`mm/vmm.c`) over page frames from a **buddy allocator** (`mm/buddy_pmm.c`).

There is one processor and the kernel is not preemptible: `trap` calls
`schedule` only on its way back to user mode. But all gates except the
breakpoint's are trap gates, so interrupts stay on inside the kernel, and the
clock can strike anywhere outside `local_intr_save`. The granularity of the
models follows from this:

| who | can be interleaved with others |
| --- | --- |
| user code (the Go runtime and packages) | at every access to shared memory outside a lock that all who touch it hold |
| kernel code against other processes | at `schedule` |
| kernel code against the clock and the keyboard | outside `local_intr_save` ... `local_intr_restore` |

`PROJECT.json` lists all parts with their status, the hazards of the code at the
lines where they bite, and the source lines behind every definition.

## 2. The modules

| module | models | abstract specification it implements |
| --- | --- | --- |
| `RuntimeLock` | `runtime.lock`, `unlock`, `destroylock`, `initsema` | `Mutex` |
| `RuntimeNote` | notes and user-level semaphores | |
| `GoSched` | the goroutine scheduler, system calls, `GOMAXPROCS`, `stoptheworld` | |
| `Sema` | `semacquire`, `semrelease` | |
| `Chan` | `chansend`, `chanrecv`, `selectgo`, `closechan` | `Channels` |
| `SyncMutex`, `RWMutex`, `WaitGroup`, `SyncCond` | package sync | `Mutex` (SyncMutex) |
| `IoPipe` | io.Pipe | |
| `Heap`, `HeapOps` | container/heap, and any caller of it | the definition of a heap and of its least element |
| `GoTimer` | timers of package time | |
| `Netchan` | exporter, importer and their connection | |
| `Rpc` | one client and the server's side of its connection | |
| `KSem`, `UserSem` | the semaphore record; a user semaphore with timeouts, kills, frees and exits | `Semaphore` |
| `Timers`, `Sched` | the timer list; run queues, clock, `schedule`, `do_sleep`, `do_yield` | `Deadlines` |
| `ProcLife` | fork, execve, exit, exit_group, kill, wait, the family tree and the thread rings | |
| `Pid` | `get_pid` and `do_fork` around it | the set of pids in use |
| `Event` | `event_send`, `event_recv` | `Rendezvous` |
| `Mbox` | mailboxes | |
| `KPipe` | pipes and the reference counts of the files at their ends | |
| `Stdin` | the console ring | |
| `Vmm` | areas, `mmap`, `munmap`, `brk`, `shmem`, fork and exit | a function from pages to what they show |
| `Buddy` | the allocator of page frames | the set of free frames |
| `ChanCalls` | the sets of calls that the instances of `Chan` make | |
| `MCSync`, `MCIpc`, `MCGo`, `MCProcs`, `MCLive` | what TLC runs | |
| `...Proofs` | theorems, see part 4 | |

Composition goes upwards by what a lower module promises: `RWMutex` and
`SyncCond` use a mutex that is free or held, which `SyncMutex` is shown to be;
`SyncMutex` and `WaitGroup` use semaphores whose tokens are never lost, which
`Sema` shows; `IoPipe` uses conditions that `SyncCond` shows to wake a waiter;
`GoTimer` runs on the operators of `Heap`; `UserSem`, `Event`, `Mbox` and `Sched`
share `Timers`.

Some operators differ from the one that follows them by a plausible mistake
(a dropped guard, a missing reset, a signed comparison made unsigned). No
specification uses them. `PROJECT.json` ("mutants") pairs each with the property
that TLC finds violated when it takes the place of the correct one.

### State and actions

**RuntimeLock.** `lockKey` and `lockSema` are the lock's two words. `lockPc` says where a thread is between two atomic operations:
after lock's or unlock's `xadd`, `test` is `if(l->sema == 0)`, `init`, `alloc`,
`cas` and `free` are the steps of `initsema`, `sem` is the system call. `op`
says whether lock or unlock is under way, `mine` is initsema's local. `sems`
are the semaphores ever created; `MaxSems` of them fit in memory, after which
`sem_init` returns `ENoMem`, which initsema stores like a semaphore.

**RuntimeNote.** The note is used as `runtime/proc.c` uses `m->havenextg`:
cleared, slept on by one thread, woken by one. A round starts when the sleepers
of the last one have returned; its waker may still be in `usemrelease`. `u` is
an unsigned number below `2 * Half`, and the comparisons convert it to a signed one
as the code does.

**GoSched.** The record `s` has what the scheduler lock protects; what happens
between `schedlock` and `schedunlock` is one step on it, and the `notewakeup`
after the unlock another. `pc` is where an m is: in its goroutine, in a system
call, on its way into or out of `schedule`, asleep, or in the parts of `gc`.
Which goroutine waits for what is left open; one that waits is readied once, at
any time after its status became Gwaiting, so also before it has stopped. A
goroutine may call Gosched at any time, which includes the places that poll
`gcwaiting`. A thrown error and the program's exit end the behaviour.

**Chan.** A WaitQ is its list of SudoGs and whether `q->last` is the last of
them. `selgen` counts modulo `SelGens`. A call of chansend or chanrecv is one
step from the lock to the unlock; `ready`, after the unlock, is another. A
select takes the locks one by one in the order of addresses, then does its
passes in one step; the order of pass 1 is chosen anew on every pass, of which
the code's choice once per select is a part. `param` holds a copy of the SudoG.
`wokenFor` and `passedOn` are history. When a SudoG is linked where nobody can
find it (`lost`), the module stops: see `chan_lost` below.

**Sema.** One list holds the records of all waiters; each function under
`semlock` is a step, and so is each `cas`. `status` and `readyonstop` are the
fields that `ready`, `gosched` and `schedule` use.

**Package sync.** `key` and `mutexSema` of `SyncMutex` are the mutex's fields. In
`RWMutex`, `w` and `r` are mutexes. `WaitGroup` and `SyncCond` make a new
semaphore per generation, numbered, as the code does; `sawZero`, `called` and
`signalled` are history. The callers of `SyncCond` are consumers and producers
that use it as its comment says.

**IoPipe, HeapOps, GoTimer.** What `p.l` protects is one step up to a wait on a
condition. The heap is the array and every element's index. In `GoTimer` a
sleeper is numbered by its generation, `now` is the clock, and a call's `t` may
be read before it has the mutex, as in the code.

**Netchan, Rpc.** A message is a record; a connection is a queue each way, that
may fail or be closed at any point. In `Rpc` header and body are separate steps.
In `Netchan` they are for data, because the importer acknowledges a header before
it reads the value, and a write waits: the connection holds `Buffer` items that
nobody has read (0 for `net.Pipe`), the writer of one more stays in `encode` with
`encLock`, and with `seqLock` or `chanLock` if it has them, until the other side
has read (`Return`). `mu` is shown while its owner waits for `seqLock`. `run` is
where a run loop is between two reads, writes or locks. A lock that is held only
across steps that cannot wait is not shown.

**Sched.** `pc` belongs to the processor: `run` (user mode or cpu_idle),
`schedule` (about to enter it), `switch` (`schedule` has restored interrupts and
will call `proc_run`), `woken` (do_sleep after `schedule`). `Tick` can happen in
each. `rq`, `level` and `slice` are the run queues, `proc->rq` and
`proc->time_slice`.

**UserSem, Event, Mbox.** A process in the call sleeps, or has been woken and
not run yet (`wait_state` none). Whoever wakes it leaves it in the queue or takes
it out as the code does: post and free unlink, the clock and do_kill do not.
What the code does after `schedule` is the next step of the sleeper. A timeout
that is used again for a second wait is what the code leaves in
`timer->expires`.

**KPipe, Stdin.** Positions are numbers that wrap (`OffRange`) or end (`OffMax`);
the data are followed byte by byte, so that order and loss can be stated.

**ProcLife.** An action is what the current process does between two calls of
`schedule`. `kids` is the list from `cptr` along `optr`; `rings` are the
`thread_group` lists. `ready` is a process that will go to user mode without
passing trap's test of PF_EXITING: a new one, or one preempted at the end of
`trap`. `loop` is initproc between two calls of do_wait, `panic` the kernel's end.
`deserted` is history. Of execve there is what the family sees: the thread leaves
its group, or exits, or nothing happens.

**Pid.** `forking` counts the forks that have passed the test of `nr_process` and
not yet called `get_pid`. The walk over `proc_list` takes one entry per step.

**Vmm, Buddy.** Each system call is one step. `mm` holds the sorted areas, the
cached one, the brk; `pages` is what the calls should have made of every page.
`mem` is the array of page headers and the free lists; `used` what was given out.

## 3. What the runs check

Each question about one component is a small instance, and the components do not
share variables, so one run checks several of them: the variable `part` chooses
at the start which one moves. `MCSync` and `MCIpc` extend their components, whose
names do not meet, so the properties they check are the very definitions that the
theorems of part 4 are about, and the assumptions of the proofs are evaluated
there. `MCGo`, `MCProcs` and `MCLive` instantiate theirs. `PROJECT.json` has the
properties.

| run | instances | shows |
| --- | --- | --- |
| `sync` | lock: 3 threads, 4 semaphores, 1 reuse; note: 1 sleeper, 3 wakers, a counter of 8 values; Sema: 3 goroutines, 2 semaphores; sync: 4 goroutines; io.Pipe: 2 readers, 2 writers; console: 3 readers, a ring of 2; Pid: 5 processes, 9 pids | nothing is lost, doubled, out of order or entered twice; `RuntimeLock` and `SyncMutex` implement `Mutex` |
| `ipc` | 3 processes on a semaphore, an event box, a mailbox or a pipe | no wake-up, message or byte is missed or given twice; `Semaphore` and `Rendezvous` are implemented |
| `go` | heap: 6 elements; timers: 3; netchan: 5 instances; channels: 4 instances of 3 goroutines and 2 channels; scheduler: 2 goroutines with GOMAXPROCS and wiring, 3 on one processor; rpc: 2 calls | nothing is lost, doubled or out of order; `Chan` implements `Channels` |
| `procs` | Sched: 3 processes, 2 levels, sleeps up to 2; ProcLife: initproc and 3, twice; Vmm: 2 address spaces, 5 pages, 4 calls; Buddy: zones of 6 and 3 adjacent pages | no process lost or queued twice, no child missed, pages as the calls said, no frame lost or given twice; `Deadlines` is implemented |
| `live` | smaller ones of the lock (no reuse), notes, RWMutex, io.Pipe, timers, netchan, rpc, Sched (2 levels), ProcLife, Pid | what must happen does |

The four instances of channels: mixed (one buffered and one unbuffered channel,
sends, receives and selects with both kinds of case), sync (selects that meet
selects), close, and a full buffer with plain and selecting receivers.

The five instances of netchan: a channel each way while the connection fails, the
same while they are closed, both on a connection that holds exactly as many items
as the channels have credits; the same for one value each over `net.Pipe` with hang-ups; one channel
with a count; two that go down. Those of ProcLife: the first
process, or one forked into its slot later, sleeps on other things than children
and is killed; and everybody waits for one child by its pid, where only exit_group
kills. The one of `live` has all of this for every process, with one less, and
kills of initproc.

### Violations

Seven runs end in a violation, each of a statement made in the repository:

- `lock_nomem`: when `sem_init` fails, initsema installs its error number,
  `sem_wait` fails at once and a second thread is in. `thread.c:45-47` says the
  others wait.
- `note_two`: `runtime.h:494-497` allows any number of sleepers and says all
  return; one `usemrelease` wakes one. The Go scheduler has one sleeper per note.
- `sched_twice`: a tick after do_sleep's `local_intr_restore` and before
  `schedule` makes current runnable and queues it; `schedule` queues it again
  and the assertion of `sched_MLFQ.c:23` fails. `__down` and `dev_stdin_read`
  have the same window.
- `usem_assert`: a waiter woken by its timer or by do_kill stays in the queue
  until it runs; a post before that fails the assertion of `sem.c:70`.
- `life_code`: a thread that exit_group ends in do_wait exits with -E_KILLED,
  although `proc.c:574-577` says it passes the group's code.
- `mbox_assert`: a receiver whose timer has run down can be sent back to wait with
  the same timer, and `add_timer`'s assertion (`sched.c:111`) fails.
- `chan_lost`: `dequeueg` takes a SudoG out of a queue and leaves `q->last` as it
  is. If it was the last of several, the next goroutine to wait is linked behind
  a freed SudoG, is in no queue, and sleeps although partners come. `chan.c:42-43`
  calls the queues lists of waiters. Three goroutines and two channels suffice: a
  receiver waits, a select waits behind it and leaves by its other channel, and
  the same select comes again.

After a failed assertion the kernel panics, so `Sched`, `UserSem` and `Mbox` stop
there, and `Chan` at a lost SudoG. The other properties are about everything
before it.

### Behaviour to know of

What the models showed beside the properties; each is excused by name in the
property it would disturb, or outside the model.

- Channels: a select that is woken for a buffered channel only tries again, may
  end by another case, and then passes the wake-up to nobody; another receiver
  can sleep beside a value (`passedOn` in `NoMissedBuffer`).
- Goroutine scheduler: GOMAXPROCS called while the collector stops the others
  sets `mcpumax` back and goroutines run during the collection (`resized`),
  although `runtime/mgc0.c:630-631` relies on their being stopped.
- sync.Cond: a goroutine that waits after a Signal can take the token meant for
  an earlier one, and a later Broadcast then leaves one behind. `cond.go:69` says
  all are woken; only a Cond that is never signalled keeps that.
- io.Pipe: after the writer's close a write is still delivered.
- netchan: Drain can return between `nch.recv` and `seqNum++` (`export.go:321-324`
  says it waits); `ack` returns `seqNum` (`export.go:258`), so Sync never waits;
  data for an unknown id stay undecoded in the stream; a hang-up with data under
  way can panic; an Import after the importer's loop has ended succeeds and its
  channel is never closed. A connection that fails between a header and its value
  ends the importer's loop without closing the channels (`import.go:137-140`).
- netchan: when values go both ways, or several channels are imported, and the
  connection holds fewer items than the channels have credits (`Buffer` below the
  number of channels times `Size`; over `net.Pipe` one value each way suffices),
  each run loop can wait to write, or for a lock whose owner does, and neither
  reads (`Jammed`). `NetSound` says that this does not happen from that size on or
  with one channel, and `NetDelivers` that nothing else holds the values up.
- Processes: do_kill takes initproc too, which panics the kernel when it next
  returns from a sleep in do_wait (`Panicked` in `OrphansReaped`). execve takes a
  thread and its children out of the group and wakes nobody: another thread of the
  group that sleeps in do_wait for these children is left asleep (`deserted` in
  `NoMissedChild`).
- rpc: a request encoded after Close panics (`client.go:88`).
- Mailboxes: a message put back may exceed `max_slots`, overtake, or reach a box
  made anew under the same id. A timer started again can fire early.
- Pipes: the buffer size does not divide 2^32, so the stream breaks once the
  positions wrap, after 4 GB (`wrapped`).
- Address spaces: splitting a shared area gives the lower part VM_SHARE without
  an object (`vmm.c:382`), where the module stops; a length within a page of 2^32
  wraps and mmap of an unaligned address succeeds with one page;
  `get_unmapped_area_with_hint` also works from the next area above its hint.

### Bounds

`MaxSems` and `MaxDestroys` bound the semaphores and the reuse of a lock; four
semaphores for three threads let all of them race in initsema and still run out
of memory. `MaxTokens` and `MaxSurplus` end the rounds of a note after its
counter has wrapped once. Two values of `selgen` (`SelGens`) are enough because
no SudoG outlives its sleep (`QueuesClean`), which is checked. `Levels` and
`Base` are 4 and 8 in the code; two levels with slices 1 and 2 have a demotion, a
slice left over that fits, one that does not, and one halved to zero by fork.
`MaxSleep` and the timeouts of 1 and 2 make timers that fire together, one after
the other, and around one that is stopped; lists of any length and any timeouts
are a matter of part 4. `MaxValue`, `MaxCount`, `MaxItems`, `MaxSlots`,
`MaxVals`, `MaxGroupSemas` and `MaxCondSemas` stop those who only add. Buffers of two bytes are empty, partly full
and full, and their positions pass the wrap. Three slots beside initproc are a
process, a second thread and a child of either; `Victims`, `Sleepers` and
`WaitPids` say who is killed, who sleeps and who is waited for by pid, and the one
exit code is also that of a killed process. `MaxSleepTime` 1 with `MaxNow` 2 has
timers beyond the longest sleep, and new ones for which the sleeper is back in
time. `Buffer` is 0 or the least that excludes a jam; sizes below it, larger ones
and three channels gave the same picture in runs not kept. `MAX_PID` is twice `MAX_PROCESS`
as in the code. The areas of `Vmm` have pages of two addresses, so that lengths
and places are aligned and not, at both ends of user memory and past the wrap;
`MaxCalls` 4 allows two maps, a cut through both and a use of the result. The
zones of `Buddy` have no power of two as their size and touch each other.

Symmetry is used only in runs without liveness: over threads, goroutines and
processes (`sync`), over processes (`ipc`), over those other than the first two
(`procs`), over goroutines (`go`). In `live`, one of several interchangeable
goroutines stands for all.

Deadlock is not checked: a component stops for reasons that are not the code's
waiting, namely bounds reached, a panic, a thrown error, everybody exited. The
properties `...Sound` say who may wait for what, and `live` says who must go on;
`AskedIsServed` excludes a deadlock on the lock.

### Fairness

In `live` the fairness of a component is the premise of its properties.

- `RuntimeLock`, `RuntimeNote`, `RWMutex`, `Netchan`, `Rpc`: weak
  fairness of each thread's or goroutine's steps: who can run gets the processor,
  and critical sections end. In `RuntimeNote` some waker also takes every round,
  as the caller must. The program receives what arrives on its netchan channels,
  and a write that the connection has taken returns.
- `IoPipe`: strong fairness of each goroutine's steps, since it competes for `l`
  with others that take it again and again. A woken waiter of a sync.Mutex can be
  overtaken by one that comes at that moment and finds the token; the assumption
  is that this does not happen to the same goroutine for ever.
- `GoTimer`: the clock goes on, and no sleeper or call stays for ever at one
  point at which it can go on.
- `Sched`: weak fairness of the clock and of the kernel's own steps.
- `ProcLife`: weak fairness of the kernel's steps, strong fairness of being
  chosen and of some process being preempted. `need_resched` is set at the end of
  a slice whatever the process does, and the queues are first in, first out.
- `Pid`: the walk, with interrupts off, goes on.

The assumption on `ProcLife` has a limit worth knowing. A process that yields or
sleeps before its slice ends returns to the first queue, so with three queues or
more one that does so in the second can keep those in the third waiting for ever.
`RunnableRuns` therefore speaks of processes that compute.

## 4. What is proved

The theorems hold for every value of the constants that their module's
assumption allows, with the component's own specification. `MCSync` and `MCIpc`
evaluate the assumptions on their instances and check the same properties there.

| module | theorems | for |
| --- | --- | --- |
| `RuntimeLockProofs` | `LockInvariant`, `LockTypes`, `LockExcludes`, `KeyIsWaiters`, `WakeupNotLost`, `SleepersReachable`, `LockIsSound`, `LockImplementsMutex` | any finite set of threads, any number of semaphores and reuses |
| `KernelProofs` | `NoteIsSound` | one sleeper, any finite set of wakers, any range of the counter |
| | `PidsAreSound` | any MAX_PROCESS from 3 on, MAX_PID twice that |
| | `StdinIsSound` | any size of the ring, any readers |
| `SemaProofs` | `SemaIsSound` | any goroutines and semaphores |
| | `CondIsSound` | any finite set of goroutines, any bounds |
| `GoSyncProofs` | `MutexIsSound`, `MutexIsMutex`, `RWMutexIsSound` | any finite set of goroutines |
| | `WaitGroupIsSound` | any finite set of goroutines, any bound on the counter |
| | `IoPipeIsSound` | any readers and writers, any lengths |
| `KPipeProofs` | `KPipeIsSound` | any finite set of threads, any size of the buffer, any larger range of positions |
| `TimerProofs` | lemmas on `Timers` and `KSem`: `AddTimer`, `DelTimer`, `RunTimerList`, `LineDel`, `KeptTail`, ... | lists and queues of any length |
| `UserSemProofs` | `UserSemIsSound`, `UserSemImplementsSemaphore` | any finite set of processes, any value and timeouts |
| `EventProofs` | `EventIsSound`, `EventImplementsRendezvous` | any processes, events and timeouts |

None of these properties is inductive by itself. Each proof strengthens it to an
invariant, shows that the initial states have it and that every action keeps it,
one lemma or step per action and part that the action can disturb, and concludes
by PTL. Each invariant was model-checked before it was proved.

**RuntimeLock.** That nobody else is inside when a waiter returns from `sem_wait`
depends on the tokens in the semaphore, which depend on who has yet to post,
which depends on `lockKey`; and all of it on every thread using the one semaphore
that the `cas` installed. `IInv` has `LockTypeOK`, `KeyCountsWanting`,
`SleepersOnLockSema`, and

- `SemaOK`: `lockSema` is 0, the error number or a valid semaphore, and not 0
  once a thread has reached its final system call;
- `OthersUnused`: a semaphore that is not `lockSema` has no token and no sleeper;
- `MineOK`: a semaphore initsema has just made is valid and nobody else's;
- `QueueOK`: the queue holds only sleeping threads, each once;
- `RightOK`: the threads that carry the right and the token stored are together
  at most one, and exactly one while somebody wants the lock.

**RuntimeNote.** `NoteInv` counts: the tokens stored and the wakers about to post
cover the sleeper in the kernel and, while `u` is negative, what it is below
zero. Once every waker has released, a sleeper that has not seen `wakeup` finds
`u` above zero or a token. The counter may wrap; the inequality survives it
because a wrap only lowers what has to be covered.

**SyncMutex** counts the same right as the lock without the race for a semaphore.
**RWMutex** adds to the agreement of `readerCount` with the goroutines inside
that each mutex has at most one owner. **WaitGroup** adds that the tokens of a
generation and the goroutines that wait for them are equal in number, and that
an old generation was released at zero. **SyncCond** adds that, until Signal is
used, the current semaphore has no tokens and as many waiters as `c.waiters`, an
earlier one as many tokens as waiters. **IoPipe** adds that `rl` and `wl` are
held from Lock to return and that what lies in `data` and what readers took are
together what the writer brought. **Sema** adds which records are in the list,
who is asleep with a record, and where a token that nobody has seen can be.

**Pid** adds what `last_pid` and `next_safe` claim of the part of the list already
walked, and that live processes and forks under way leave a pid free (a counting
argument from MAX_PID = 2 MAX_PROCESS). **Stdin** and **KPipe** add that the
buffer between the positions holds exactly the bytes to be read; lemmas on
remainders carry this around the ring. **KPipe** also counts the threads inside a
call against the references of the two files.

**Timers.** The property of a list of deltas is about sums over prefixes, which a
recursive function defines. `AddTimer` says that the new timer is due after its
timeout and that nobody else's deadline moves, `DelTimer` that only the one taken
out is gone, `RunTimerList` that a tick takes one from every deadline and fires
those that had one left. The inductions behind them go over a set of numbers:
`Least` (from `WFMin`) gives a counterexample's least place and `Upto` concludes
that there is none. That the recursive functions exist is shown the same way,
with a function built up to each place (`SumsExist`, `KeepsExists`).

**UserSem, Event.** `SemInv` and `EventInv` add to the properties that list and
queues hold nobody twice, that who is queued has not been answered, that a
sleeper's timer has not fired, and that who was woken for nothing has a reason:
timed out, killed, or the semaphore freed (the receiver exited). For the
refinements the queue of the abstract semaphore is the code's without those whom
the clock or do_kill has woken but who have not run yet (`Kept`); each action is
matched with the abstract one it performs, and `KeptTail`, `KeptDel`, `KeptTwice`
say that taking those out commutes with what the action does to the queue.

Only model-checked:

- liveness, and what else needs ENABLED: all of `live`;
- `MboxSound`: a timer there may be used for a second wait and fire early, so the
  lemmas on `Timers` do not carry over; `SchedSound` and `DeadlinesSpec`: run
  queues per level beside the timer list, with the bound `MaxSleep` on it;
- `LifeSound` and `VmmSound`, about trees of lists and lists of intervals that
  several nested loops rebuild in one step;
- `GoSchedSound`, `TimerSound`, `PopIsLeast`, `BuddySound`: their modules use
  RECURSIVE operators, for which the prover loses its SMT solver;
- `ChanSound` and `ChannelSpec`, `NetSound` and `RpcSound`: a select's passes, and a
  message on its way, go through many queues, for which no inductive invariant has
  been worked out.

## 5. Not modelled, and why

Most of the repository's lines are the vendored Go tree: compilers, parsers,
codecs, tables, mathematics, tests and wrappers of system calls. It is sequential
code without shared state, which a state machine does not describe better than
its own tests do; the models take from it what runs on the port's primitives. So
they cover a small share of all lines, and most of those that synchronise.

- `runtime`: stacks, panics and deferred calls, cgo, hash maps, and what the
  allocator and the collector do with memory; `mem.c` and `signals.c` of the port
  wrap mmap or are stubs. Nil channels panic at once or are left out of a select.
- netchan's Drain and Sync poll with sleeps; rpc's registration of services and
  its HTTP handlers.
- Page tables, descriptor tables, register and stack set-up (`386/sys.s`,
  `switch.S`): layout without concurrency of its own.
- Page faults, copying on write, swapping: they work on page tables. The tree
  that replaces the search of the area list from 32 areas on. The slab allocator.
- The table of open files beyond the counts that a pipe's close needs; names of
  pipes (`pipe_root.c`); which semaphore ids a process may use.
- SFS and VFS: block layout and device I/O; there is no journal and no recovery.
- Undo of semaphore operations at exit: `sem.h:15-20` describes it, but
  `exit_sem_queue` only drops references, so there is nothing to model.
- `del_proc_timer` has no caller; `ipc_mbox_info` only reads.
