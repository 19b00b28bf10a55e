------------------------------ MODULE ProcLife ------------------------------
(***************************************************************************)
(* The life of processes and threads (kern/process/proc.c, trap.c):        *)
(* do_fork, do_execve, do_exit, do_exit_group, do_kill and do_wait, with   *)
(* parents, children and thread groups.  One processor, and the kernel     *)
(* gives it up only in schedule, so an action is what current does between *)
(* two calls of schedule; which runnable process runs next is left open    *)
(* (Sched).  kswapd and idleproc, which never exit, are left out.          *)
(***************************************************************************)
EXTENDS Naturals, Sequences, FiniteSets, SequencesExt

CONSTANTS Procs,     \* the slots of proc_struct (MAX_PROCESS in the code)
          InitProc,  \* initproc
          UserMain,  \* the first child of initproc
          NoProc,    \* NULL
          Sleepers,  \* the processes that sleep on other things than children
          WaitPids,  \* the pids programs wait for, besides 0
          Victims,   \* the processes that programs kill
          Codes      \* the exit codes of programs, and of an execve that fails

\* What the constants have to be.
LifeAssumption == /\ IsFiniteSet(Procs) /\ NoProc \notin Procs
                  /\ InitProc \in Procs /\ UserMain \in Procs \ {InitProc}
                  /\ Sleepers \subseteq Procs /\ WaitPids \subseteq Procs \ {InitProc}
                  /\ Victims \subseteq Procs
                  /\ Codes # {}

VARIABLES
  state,       \* proc->state, UNUSED for a slot that is free
  parent,      \* proc->parent
  kids,        \* cptr and the optr chain behind it: the youngest child first
  rings,       \* the thread_group lists, each one a ring of live processes
  wait_state,  \* none (0), CHILD, or USEM for any other interruptible sleep
  waitpid,     \* the argument of the do_wait a process sleeps in, NoProc for 0
  exiting,     \* PF_EXITING
  exit_code,   \* proc->exit_code
  pc,          \* where the process is, or will go on
  current,     \* the running process, NoProc inside schedule
  deserted     \* history: who sleeps in do_wait for children of threads that
               \* have left its group by execve

records == <<state, parent, kids, rings, wait_state, waitpid, exiting, exit_code, deserted>>
vars == <<records, pc, current>>

User == Procs \ {InitProc}

Init == /\ state = [p \in Procs |-> IF p \in {InitProc, UserMain} THEN "RUNNABLE" ELSE "UNUSED"]
        /\ parent = [p \in Procs |-> IF p = UserMain THEN InitProc ELSE NoProc]
        /\ kids = [p \in Procs |-> IF p = InitProc THEN <<UserMain>> ELSE <<>>]
        /\ rings = {<<InitProc>>, <<UserMain>>}
        /\ wait_state = [p \in Procs |-> "none"]
        /\ waitpid = [p \in Procs |-> NoProc]
        /\ exiting = [p \in Procs |-> FALSE]
        /\ exit_code = [p \in Procs |-> "none"]
        /\ pc = [p \in Procs |-> IF p = InitProc THEN "loop" ELSE "ready"]
        /\ current = NoProc /\ deserted = {}

-----------------------------------------------------------------------------
Ring(p) == CHOOSE r \in rings : Contains(r, p)

\* The group as next_thread walks it, from p on.
From(p) == LET r == Ring(p)
               i == CHOOSE j \in DOMAIN r : r[j] = p
           IN  SubSeq(r, i, Len(r)) \o SubSeq(r, 1, i - 1)

Group(p) == ToSet(Ring(p))

Runnable(ps) == [p \in Procs |-> IF p \in ps THEN "RUNNABLE" ELSE state[p]]
Awake(ps) == [p \in Procs |-> IF p \in ps THEN "none" ELSE wait_state[p]]

\* schedule picks somebody, who goes on where it was: one that was preempted or
\* is new goes to user mode, past trap's test of PF_EXITING.
Run(p) ==
  /\ current = NoProc /\ state[p] = "RUNNABLE" /\ pc[p] # "done"
  /\ current' = p
  /\ pc' = [pc EXCEPT ![p] = IF @ = "ready" THEN "user"
                             ELSE IF @ = "sleep" THEN "sysret" ELSE @]
  /\ UNCHANGED records

-----------------------------------------------------------------------------
\* do_exit: the process becomes a zombie; the threads of its parent's group that
\* sleep in do_wait are woken; its children go, one after the other, to the next
\* thread of its group or else to initproc, which is woken for a zombie.  A
\* thread that inherits itself from the thread that created it is its own child
\* from then on, and goes to initproc when it exits last.  Should initproc come
\* here the kernel panics, and nobody runs any more.
Heir(p) == IF Len(Ring(p)) > 1 THEN From(p)[2] ELSE InitProc

WokenParentOnly(p) == {q \in {parent[p]} : wait_state[q] = "CHILD"}

WokenByExit(p) ==
  {q \in Group(parent[p]) : wait_state[q] = "CHILD"}
    \cup {q \in {Heir(p)} : wait_state[q] = "CHILD"
                              /\ \E c \in ToSet(kids[p]) : c = p \/ state[c] = "ZOMBIE"}

Adopted(p) == [kids EXCEPT ![Heir(p)] = Reverse(kids[p]) \o @, ![p] = <<>>]

\* The ring once de_thread has taken p out of it.
WithoutThread(p) == (rings \ {Ring(p)}) \cup ({Remove(Ring(p), p)} \ {<<>>})

DoExit(p, code) ==
  \/ /\ p = InitProc
     /\ pc' = [pc EXCEPT ![p] = "panic"]
     /\ UNCHANGED <<records, current>>
  \/ /\ p # InitProc
     /\ state' = [Runnable(WokenByExit(p)) EXCEPT ![p] = "ZOMBIE"]
     /\ wait_state' = Awake(WokenByExit(p))
     /\ exit_code' = [exit_code EXCEPT ![p] = code]
     /\ rings' = WithoutThread(p)
     /\ kids' = Adopted(p)
     /\ parent' = [q \in Procs |-> IF q \in ToSet(kids[p]) THEN Heir(p) ELSE parent[q]]
     /\ pc' = [pc EXCEPT ![p] = "dead"]
     /\ current' = NoProc
     /\ waitpid' = [waitpid EXCEPT ![p] = NoProc]
     /\ deserted' = deserted \ WokenByExit(p)
     /\ UNCHANGED exiting

\* The end of trap, after a system call or an interrupt that came in user mode:
\* PF_EXITING first, then need_resched.
TrapReturn(p) ==
  /\ current = p /\ pc[p] = "sysret"
  /\ IF exiting[p] THEN DoExit(p, exit_code[p])
     ELSE /\ pc' = [pc EXCEPT ![p] = "user"]
          /\ UNCHANGED <<records, current>>

Preempt(p) ==
  /\ current = p /\ pc[p] = "sysret" /\ ~exiting[p]
  /\ pc' = [pc EXCEPT ![p] = "ready"]
  /\ current' = NoProc
  /\ UNCHANGED records

InUser(p) == current = p /\ pc[p] = "user"

\* The timer interrupt in user mode.
Interrupt(p) ==
  /\ InUser(p)
  /\ pc' = [pc EXCEPT ![p] = "sysret"]
  /\ UNCHANGED <<records, current>>

\* do_fork, with CLONE_THREAD or without: set_links puts the child in front of
\* the list, list_add_before puts the thread in the ring just before current.
DoFork(p, new, thread) ==
  /\ InUser(p) /\ state[new] = "UNUSED"
  /\ state' = [state EXCEPT ![new] = "RUNNABLE"]
  /\ parent' = [parent EXCEPT ![new] = p]
  /\ kids' = [kids EXCEPT ![p] = <<new>> \o @]
  /\ rings' = IF thread THEN (rings \ {Ring(p)}) \cup {Append(From(p), new)}
              ELSE rings \cup {<<new>>}
  /\ exiting' = [exiting EXCEPT ![new] = FALSE]
  /\ pc' = [pc EXCEPT ![p] = "sysret", ![new] = "ready"]
  /\ UNCHANGED <<wait_state, waitpid, exit_code, current, deserted>>

\* do_fork when every slot is taken (-E_NO_FREE_PROC) or memory is short.
ForkFails(p) ==
  /\ InUser(p)
  /\ pc' = [pc EXCEPT ![p] = "sysret"]
  /\ UNCHANGED <<records, current>>

\* sys_exit: do_exit, which has no return path to user mode.
SysExit(p, code) == InUser(p) /\ DoExit(p, code)

\* do_kill: mark the victim, whoever it is, set its exit code and end its sleep.
Interrupted(ps) == {q \in ps : wait_state[q] # "none"}

DoKill(p, victim) ==
  /\ InUser(p) /\ state[victim] # "UNUSED"
  /\ exiting' = [exiting EXCEPT ![victim] = TRUE]
  /\ exit_code' = [exit_code EXCEPT ![victim] = "E_KILLED"]
  /\ state' = Runnable(Interrupted({victim}))
  /\ wait_state' = Awake(Interrupted({victim}))
  /\ pc' = [pc EXCEPT ![p] = "sysret"]
  /\ deserted' = deserted \ {victim}
  /\ UNCHANGED <<parent, kids, rings, waitpid, current>>

\* do_exit_group: do_kill for every other thread, with the group's code instead
\* of -E_KILLED, and do_exit.
DoExitGroup(p, code) ==
  LET others == Group(p) \ {p}
      woken  == Interrupted(others) \cup WokenByExit(p)
  IN  /\ InUser(p)
      /\ exiting' = [q \in Procs |-> exiting[q] \/ q \in others]
      /\ exit_code' = [q \in Procs |-> IF q \in Group(p) THEN code ELSE exit_code[q]]
      /\ state' = [Runnable(woken) EXCEPT ![p] = "ZOMBIE"]
      /\ wait_state' = Awake(woken)
      /\ rings' = WithoutThread(p)
      /\ kids' = Adopted(p)
      /\ parent' = [q \in Procs |-> IF q \in ToSet(kids[p]) THEN Heir(p) ELSE parent[q]]
      /\ pc' = [pc EXCEPT ![p] = "dead"]
      /\ current' = NoProc
      /\ deserted' = deserted \ woken
      /\ UNCHANGED waitpid

\* An interruptible sleep (sem_wait, a pipe, an event), and its end.
Sleep(p) ==
  /\ InUser(p) /\ p \in Sleepers
  /\ state' = [state EXCEPT ![p] = "SLEEPING"]
  /\ wait_state' = [wait_state EXCEPT ![p] = "USEM"]
  /\ pc' = [pc EXCEPT ![p] = "sleep"]
  /\ current' = NoProc
  /\ UNCHANGED <<parent, kids, rings, waitpid, exiting, exit_code, deserted>>

Wakeup(p, q) ==
  /\ InUser(p) /\ wait_state[q] = "USEM"
  /\ state' = Runnable({q})
  /\ wait_state' = Awake({q})
  /\ pc' = [pc EXCEPT ![p] = "sysret"]
  /\ UNCHANGED <<parent, kids, rings, waitpid, exiting, exit_code, current, deserted>>

-----------------------------------------------------------------------------
\* do_wait looks at the children of every thread of the group; initproc always
\* has kswapd.
Children(p, pid) == {c \in UNION {ToSet(kids[q]) : q \in Group(p)} : pid \in {NoProc, c}}
Zombies(p, pid) == {c \in Children(p, pid) : state[c] = "ZOMBIE"}
HasKid(p, pid) == p = InitProc \/ Children(p, pid) # {}

\* The one it finds: the youngest of the first thread in ring order that has one.
Found(p, pid) == LET ours(q) == SelectSeq(kids[q], LAMBDA c : c \in Zombies(p, pid))
                     q == SelectSeq(From(p), LAMBDA t : ours(t) # <<>>)[1]
                 IN  ours(q)[1]

\* found: unhash_proc, remove_links, kfree.  init_main leaves its loop when only
\* the kernel's own processes are left.
Reap(p, z) ==
  /\ state' = [state EXCEPT ![z] = "UNUSED"]
  /\ kids' = [kids EXCEPT ![parent[z]] = Remove(@, z)]
  /\ parent' = [parent EXCEPT ![z] = NoProc]
  /\ exit_code' = [exit_code EXCEPT ![z] = "none"]
  /\ exiting' = [exiting EXCEPT ![z] = FALSE]
  /\ waitpid' = [waitpid EXCEPT ![p] = NoProc]
  /\ IF p # InitProc
     THEN pc' = [pc EXCEPT ![p] = "sysret", ![z] = "ready"] /\ UNCHANGED current
     ELSE /\ pc' = [pc EXCEPT ![p] = IF \A q \in User \ {z} : state[q] = "UNUSED"
                                     THEN "done" ELSE "loop",
                              ![z] = "ready"]
          /\ current' = NoProc
  /\ UNCHANGED <<rings, wait_state, deserted>>

Scan(p, pid) ==
  \/ /\ Zombies(p, pid) # {}
     /\ Reap(p, Found(p, pid))
  \/ /\ Zombies(p, pid) = {} /\ HasKid(p, pid)
     /\ state' = [state EXCEPT ![p] = "SLEEPING"]
     /\ wait_state' = [wait_state EXCEPT ![p] = "CHILD"]
     /\ waitpid' = [waitpid EXCEPT ![p] = pid]
     /\ pc' = [pc EXCEPT ![p] = "child"]
     /\ current' = NoProc
     /\ UNCHANGED <<parent, kids, rings, exiting, exit_code, deserted>>
  \/ /\ ~HasKid(p, pid)
     /\ waitpid' = [waitpid EXCEPT ![p] = NoProc]
     /\ pc' = [pc EXCEPT ![p] = "sysret"]
     /\ UNCHANGED <<state, parent, kids, rings, wait_state, exiting, exit_code, current, deserted>>

\* do_wait from user mode, from init_main, and after schedule has returned in it.
DoWait(p, pid) == InUser(p) /\ Scan(p, pid)

InitWaits == current = InitProc /\ pc[InitProc] = "loop" /\ Scan(InitProc, NoProc)

WaitGoesOn(p) ==
  /\ current = p /\ pc[p] = "child"
  /\ IF exiting[p] THEN DoExit(p, "E_KILLED") ELSE Scan(p, waitpid[p])

\* do_execve.  An argument it cannot copy makes it return, and a program it
\* cannot load makes it exit, with the old memory gone.  Else de_thread puts the
\* process into a group of its own, with its children; the others' do_wait,
\* should one of them sleep there, is told nothing.  What loading the program
\* waits for is uninterruptible and gives others a turn as Preempt does.
Deserted(p) == {q \in Group(p) \ {p} :
                  wait_state[q] = "CHILD"
                    /\ Children(q, waitpid[q]) \subseteq ToSet(kids[p])}

DoExecve(p) ==
  /\ InUser(p)
  /\ \/ /\ rings' = WithoutThread(p) \cup {<<p>>}
        /\ deserted' = deserted \cup Deserted(p)
        /\ pc' = [pc EXCEPT ![p] = "sysret"]
        /\ UNCHANGED <<state, parent, kids, wait_state, waitpid, exiting, exit_code, current>>
     \/ \E code \in Codes : DoExit(p, code)
     \/ /\ pc' = [pc EXCEPT ![p] = "sysret"]
        /\ UNCHANGED <<records, current>>

-----------------------------------------------------------------------------
Kernel(p) == TrapReturn(p) \/ WaitGoesOn(p) \/ Interrupt(p) \/ (p = InitProc /\ InitWaits)

Call(p) == \/ \E new \in User, thread \in BOOLEAN : DoFork(p, new, thread)
           \/ ForkFails(p) \/ DoExecve(p) \/ Sleep(p)
           \/ \E code \in Codes : SysExit(p, code) \/ DoExitGroup(p, code)
           \/ \E victim \in Victims : DoKill(p, victim)
           \/ \E q \in User : Wakeup(p, q)
           \/ \E pid \in WaitPids \cup {NoProc} : DoWait(p, pid)

Next == \E p \in Procs : Run(p) \/ Preempt(p) \/ Kernel(p) \/ Call(p)

Spec == Init /\ [][Next]_vars

\* The timer interrupts whoever computes; who is interrupted or calls the kernel
\* again and again finds need_resched set in the end; and a process that is
\* runnable again and again is chosen.
FairSpec ==
  Spec /\ \A p \in Procs : WF_vars(Kernel(p)) /\ SF_vars(Preempt(p)) /\ SF_vars(Run(p))

-----------------------------------------------------------------------------
Alive == {p \in Procs : state[p] \in {"RUNNABLE", "SLEEPING"}}

\* Type correctness.
TypeOK == /\ state \in [Procs -> {"UNUSED", "RUNNABLE", "SLEEPING", "ZOMBIE"}]
          /\ parent \in [Procs -> Procs \cup {NoProc}]
          /\ kids \in [Procs -> Seq(Procs)]
          /\ rings \subseteq Seq(Procs)
          /\ wait_state \in [Procs -> {"none", "CHILD", "USEM"}]
          /\ waitpid \in [Procs -> Procs \cup {NoProc}]
          /\ exiting \in [Procs -> BOOLEAN]
          /\ exit_code \in [Procs -> Codes \cup {"none", "E_KILLED"}]
          /\ pc \in [Procs -> {"ready", "user", "sysret", "sleep", "child", "dead",
                           "loop", "done", "panic"}]
          /\ current \in Procs \cup {NoProc} /\ deserted \subseteq Procs

\* The family tree: every process that is not free, zombies included, is in the
\* list of exactly one live process, once, and that is its parent; so no zombie
\* is out of reach of a do_wait and no list leads to a freed proc_struct.
FamilyOK ==
  \A p \in User :
    IF state[p] = "UNUSED"
    THEN \A q \in Procs : ~Contains(kids[q], p) /\ parent[q] # p
    ELSE /\ parent[p] \in Alive
         /\ \A q \in Procs :
              Cardinality({i \in DOMAIN kids[q] : kids[q][i] = p}) = IF q = parent[p] THEN 1 ELSE 0

\* Thread groups are disjoint rings of exactly the live processes.
RingsOK ==
  /\ UNION {ToSet(r) : r \in rings} = Alive
  /\ \A r, s \in rings : ToSet(r) \cap ToSet(s) # {} => r = s
  /\ \A r \in rings : Len(r) = Cardinality(ToSet(r))

\* Nobody sleeps in do_wait past the child it waits for: none it asked for is a
\* zombie already, whichever thread of the group is its parent and however often
\* the child changed parents; and one is there, unless the threads whose children
\* it waited for have left by execve (proc.c:976 wakes nobody).
NoMissedChild ==
  \A p \in Procs :
    wait_state[p] = "CHILD" => /\ Zombies(p, waitpid[p]) = {}
                               /\ HasKid(p, waitpid[p]) \/ p \in deserted

\* A process that sleeps says on what, and one that runs or has exited does not:
\* wakeup_proc never finds a zombie.
SleepHasReason == \A p \in Procs : (wait_state[p] # "none") = (state[p] = "SLEEPING")

\* Orphans are reaped: a zombie whose parent is initproc is freed, unless somebody
\* has killed initproc, which makes the kernel panic (proc.c:597-599).
Panicked == pc[InitProc] = "panic"
OrphansReaped ==
  \A p \in User :
    (state[p] = "ZOMBIE" /\ parent[p] = InitProc) ~> (state[p] = "UNUSED" \/ Panicked)

\* proc.c:573-578: do_exit_group overwrites exit_code "so that when the thread is
\* actually being killed, it would pass do_exit the right error_code".
RightErrorCode ==
  [][\A p \in User :
       exiting[p] /\ exit_code[p] \in Codes /\ pc[p] # "user" /\ state[p] # "ZOMBIE"
         /\ state'[p] = "ZOMBIE" => exit_code'[p] = exit_code[p]]_vars

\* Family tree and thread rings stay sound, and nobody sleeps without a reason or
\* past its child.
LifeSound == TypeOK /\ FamilyOK /\ RingsOK /\ NoMissedChild /\ SleepHasReason
=============================================================================
