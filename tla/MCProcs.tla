------------------------------ MODULE MCProcs ------------------------------
(***************************************************************************)
(* Processes and their memory in the kernel, each component checked by     *)
(* itself in one run: the scheduler with its timers, the life of           *)
(* processes, their address spaces, and the allocator of page frames.  The *)
(* variable part chooses the component; the variables of the others stay   *)
(* 0.                                                                      *)
(***************************************************************************)
EXTENDS Integers, Sequences, TLC

CONSTANTS Procs, InitProc, UserMain, NoProc, Idle

VARIABLES part,  \* the component
          state, rq, level, slice, need_resched, current, timer_list, pc,
          next, ret, parent, kids, rings, wait_state, waitpid, exiting,
          exit_code, deserted, mm, ref, shlen, pages, calls, mem, used

allvars == <<part, state, rq, level, slice, need_resched, current, timer_list, pc,
            next, ret, parent, kids, rings, wait_state, waitpid, exiting,
            exit_code, deserted, mm, ref, shlen, pages, calls, mem, used>>

S == INSTANCE Sched WITH Procs <- Procs \ {UserMain}, Levels <- 2, Base <- 1, MaxSleep <- 2,
                         Interactive <- Procs \ {UserMain}
\* Processes one of which sleeps on other things than children and is killed,
L == INSTANCE ProcLife WITH Sleepers <- {UserMain}, WaitPids <- {}, Victims <- {UserMain},
                            Codes <- {"E_KILLED"}
\* and processes that wait for one child.
LW == INSTANCE ProcLife WITH Sleepers <- {}, WaitPids <- Procs \ {InitProc, UserMain},
                             Victims <- {}, Codes <- {"E_KILLED"}
V == INSTANCE Vmm WITH Mms <- {1, 2}, First <- 1, Shmems <- {"s"},
                       PGSIZE <- 2, USERBASE <- 2, USERTOP <- 12, AddrRange <- 16,
                       Ptrs <- {2, 4, 10}, Places <- {0, 3, 6, 8, 15}, Lens <- {1, 4, 15},
                       Accesses <- {"RW"}, MaxCalls <- 4
B == INSTANCE Buddy WITH Zones <- <<[base |-> 1, n |-> 6], [base |-> 7, n |-> 3]>>,
                         npage <- 11, MAX_ORDER <- 2

-----------------------------------------------------------------------------
\* The variables by the components that use them.  They are 0 in the others.
schedLifeVars == <<state, current, pc>>
schedLifeOff == state = 0 /\ current = 0 /\ pc = 0
schedVars == <<rq, level, slice, need_resched, timer_list, next, ret>>
schedOff == rq = 0 /\ level = 0 /\ slice = 0 /\ need_resched = 0 /\
            timer_list = 0 /\ next = 0 /\ ret = 0
lifeVars == <<parent, kids, rings, wait_state, waitpid, exiting, exit_code, deserted>>
lifeOff == parent = 0 /\ kids = 0 /\ rings = 0 /\ wait_state = 0 /\
           waitpid = 0 /\ exiting = 0 /\ exit_code = 0 /\ deserted = 0
vmmVars == <<mm, ref, shlen, pages, calls>>
vmmOff == mm = 0 /\ ref = 0 /\ shlen = 0 /\ pages = 0 /\ calls = 0
buddyVars == <<mem, used>>
buddyOff == mem = 0 /\ used = 0

SchedInit == /\ part = "sched" /\ S!Init
             /\ lifeOff /\ vmmOff /\ buddyOff
SchedNext == /\ part = "sched" /\ S!Next
             /\ UNCHANGED <<part, lifeVars, vmmVars, buddyVars>>

LifeInit == /\ part = "life" /\ L!Init
            /\ schedOff /\ vmmOff /\ buddyOff
LifeNext == /\ part = "life" /\ L!Next
            /\ UNCHANGED <<part, schedVars, vmmVars, buddyVars>>

LifewaitInit == /\ part = "lifewait" /\ LW!Init
                /\ schedOff /\ vmmOff /\ buddyOff
LifewaitNext == /\ part = "lifewait" /\ LW!Next
                /\ UNCHANGED <<part, schedVars, vmmVars, buddyVars>>

VmmInit == /\ part = "vmm" /\ V!Init
           /\ schedLifeOff /\ schedOff /\ lifeOff /\ buddyOff
VmmNext == /\ part = "vmm" /\ V!Next
           /\ UNCHANGED <<part, schedLifeVars, schedVars, lifeVars, buddyVars>>

BuddyInit == /\ part = "buddy" /\ B!Init
             /\ schedLifeOff /\ schedOff /\ lifeOff /\ vmmOff
BuddyNext == /\ part = "buddy" /\ B!Next
             /\ UNCHANGED <<part, schedLifeVars, schedVars, lifeVars, vmmVars>>

Init == SchedInit \/ LifeInit \/ LifewaitInit \/ VmmInit \/ BuddyInit
Next == SchedNext \/ LifeNext \/ LifewaitNext \/ VmmNext \/ BuddyNext

Spec == Init /\ [][Next]_allvars

ASSUME /\ S!SchedAssumption /\ L!LifeAssumption /\ LW!LifeAssumption /\ V!VmmAssumption /\ B!BuddyAssumption

\* The processes without a special part are interchangeable.
ProcSymmetry == Permutations(Procs \ {InitProc, UserMain})

-----------------------------------------------------------------------------
\* A runnable process is on the processor or at one place of the run queue it
\* names, any other on none; who sleeps in do_sleep has a timer.
SchedSound == part = "sched" => S!SchedSound

\* Every process that is not free is once in the list of its live parent, thread
\* groups are rings, and nobody sleeps in do_wait past the child it waits for.
LifeSound == part \in {"life", "lifewait"} => L!LifeSound

\* The sorted list of areas maps every page as mmap, munmap, brk, shmem, fork and
\* exit said, and a shared object lives as long as a page shows it.
VmmSound == part = "vmm" => V!VmmSound

\* The buddy allocator gives out no page twice, loses none, and fails only when no
\* aligned block is free.
BuddySound == part = "buddy" => B!BuddySound

\* The timer list keeps the deadlines that Deadlines promises.
DeadlinesSpec ==
  /\ part = "sched" => S!D!Init
  /\ [][part = "sched" => S!D!Next \/ UNCHANGED S!Due]_allvars
=============================================================================
