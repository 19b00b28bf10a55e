--------------------------------- MODULE Pid --------------------------------
(***************************************************************************)
(* Process identifiers (kern/process/proc.c): get_pid, and do_fork around  *)
(* it.  do_fork tests nr_process first and then copies the parent, which   *)
(* can sleep, so several forks pass the test before the first of them      *)
(* counts its child.  get_pid keeps last_pid and next_safe from call to    *)
(* call: between the two it took no identifier was in use when it last     *)
(* looked.  It runs with interrupts off, so while it walks nothing else    *)
(* happens; the walk is modelled one list entry at a time.                 *)
(***************************************************************************)
EXTENDS Integers, Sequences, FiniteSets

CONSTANTS MAX_PROCESS, MAX_PID

\* proc.h: MAX_PID is twice MAX_PROCESS, and idleproc and initproc fit.
\* What the constants have to be.
PidAssumption == /\ MAX_PROCESS \in Nat /\ MAX_PROCESS >= 3
                 /\ MAX_PID = 2 * MAX_PROCESS

VARIABLES
  proc_list,   \* the identifiers of the processes, in list order; not idleproc
  nr_process,  \* their number, idleproc counted
  forking,     \* the processes inside do_fork, past the test
  last_pid,    \* get_pid's statics
  next_safe,
  scanner,     \* the process inside get_pid, 0 for none
  le           \* its place in proc_list

pidVars == <<proc_list, nr_process, forking, last_pid, next_safe, scanner, le>>

Live == {proc_list[i] : i \in DOMAIN proc_list}
InitPid == 1

\* proc_init and init_main have made idleproc and initproc.
PidInit == /\ proc_list = <<InitPid>>
           /\ nr_process = 2
           /\ forking = {}
           /\ last_pid = InitPid
           /\ next_safe = MAX_PID
           /\ scanner = 0
           /\ le = 0

-----------------------------------------------------------------------------
\* do_fork up to the copies that can sleep.
ForkTest(p) ==
  /\ scanner = 0 /\ p \in Live \ forking
  /\ nr_process < MAX_PROCESS
  /\ forking' = forking \cup {p}
  /\ UNCHANGED <<proc_list, nr_process, last_pid, next_safe, scanner, le>>

\* A copy fails: bad_fork_cleanup.
ForkFails(p) ==
  /\ scanner = 0 /\ p \in forking
  /\ forking' = forking \ {p}
  /\ UNCHANGED <<proc_list, nr_process, last_pid, next_safe, scanner, le>>

\* get_pid up to its loop: either the next identifier is below next_safe, or
\* the walk over proc_list starts.
get_pidTrusts(p) ==
  /\ scanner = 0 /\ p \in forking
  /\ scanner' = p
  /\ last_pid' = IF last_pid + 1 >= MAX_PID THEN 1 ELSE last_pid + 1
  /\ IF last_pid + 1 >= MAX_PID \/ last_pid + 1 > next_safe
     THEN next_safe' = MAX_PID /\ le' = 1
     ELSE next_safe' = next_safe /\ le' = Len(proc_list) + 1
  /\ UNCHANGED <<proc_list, nr_process, forking>>

get_pid(p) ==
  /\ scanner = 0 /\ p \in forking
  /\ scanner' = p
  /\ last_pid' = IF last_pid + 1 >= MAX_PID THEN 1 ELSE last_pid + 1
  /\ IF last_pid + 1 >= MAX_PID \/ last_pid + 1 >= next_safe
     THEN next_safe' = MAX_PID /\ le' = 1
     ELSE next_safe' = next_safe /\ le' = Len(proc_list) + 1
  /\ UNCHANGED <<proc_list, nr_process, forking>>

\* One turn of get_pid's loop.  (In WalkStays the repeat comes before ++last_pid.)
WalkStays ==
  /\ scanner # 0 /\ le <= Len(proc_list)
  /\ LET pid == proc_list[le] IN
     \/ /\ pid = last_pid /\ last_pid + 1 >= next_safe
        /\ last_pid' = IF last_pid + 1 >= MAX_PID THEN 1 ELSE last_pid
        /\ next_safe' = MAX_PID /\ le' = 1
     \/ /\ pid = last_pid /\ last_pid + 1 < next_safe
        /\ last_pid' = last_pid + 1 /\ le' = le + 1
        /\ UNCHANGED next_safe
     \/ /\ pid # last_pid
        /\ next_safe' = IF pid > last_pid /\ next_safe > pid THEN pid ELSE next_safe
        /\ le' = le + 1
        /\ UNCHANGED last_pid
  /\ UNCHANGED <<proc_list, nr_process, forking, scanner>>

Walk ==
  /\ scanner # 0 /\ le <= Len(proc_list)
  /\ LET pid == proc_list[le] IN
     \/ /\ pid = last_pid /\ last_pid + 1 >= next_safe
        /\ last_pid' = IF last_pid + 1 >= MAX_PID THEN 1 ELSE last_pid + 1
        /\ next_safe' = MAX_PID /\ le' = 1
     \/ /\ pid = last_pid /\ last_pid + 1 < next_safe
        /\ last_pid' = last_pid + 1 /\ le' = le + 1
        /\ UNCHANGED next_safe
     \/ /\ pid # last_pid
        /\ next_safe' = IF pid > last_pid /\ next_safe > pid THEN pid ELSE next_safe
        /\ le' = le + 1
        /\ UNCHANGED last_pid
  /\ UNCHANGED <<proc_list, nr_process, forking, scanner>>

\* get_pid returns last_pid; hash_proc, set_links and wakeup_proc follow.
set_links ==
  /\ scanner # 0 /\ le > Len(proc_list)
  /\ proc_list' = <<last_pid>> \o proc_list
  /\ nr_process' = nr_process + 1
  /\ forking' = forking \ {scanner}
  /\ scanner' = 0 /\ le' = 0
  /\ UNCHANGED <<last_pid, next_safe>>

\* do_wait frees a process that has exited, which was not inside a fork.
remove_links(p) ==
  /\ scanner = 0 /\ p \in Live \ (forking \cup {InitPid})
  /\ \E i \in DOMAIN proc_list :
       /\ proc_list[i] = p
       /\ proc_list' = [j \in 1 .. Len(proc_list) - 1 |-> proc_list[IF j < i THEN j ELSE j + 1]]
  /\ nr_process' = nr_process - 1
  /\ UNCHANGED <<forking, last_pid, next_safe, scanner, le>>

-----------------------------------------------------------------------------
PidNext == \/ Walk \/ set_links
           \/ \E p \in Live : ForkTest(p) \/ ForkFails(p) \/ get_pid(p) \/ remove_links(p)

PidSpec == PidInit /\ [][PidNext]_pidVars

\* The process inside do_fork goes on.
PidFairSpec == PidSpec /\ WF_pidVars(Walk) /\ WF_pidVars(set_links)

-----------------------------------------------------------------------------
\* Type correctness.
PidTypeOK == /\ proc_list \in Seq(1 .. MAX_PID - 1)
             /\ nr_process \in Nat
             /\ forking \subseteq 1 .. MAX_PID - 1
             /\ last_pid \in 1 .. MAX_PID - 1
             /\ next_safe \in 1 .. MAX_PID
             /\ scanner \in 0 .. MAX_PID - 1
             /\ le \in Nat

\* No two processes have the same identifier, whatever has exited since get_pid
\* computed next_safe, and also when the counter has wrapped.
PidsUnique == \A i, j \in DOMAIN proc_list : proc_list[i] = proc_list[j] => i = j

\* Forks that passed the test together can take nr_process over MAX_PROCESS, but
\* never so far that the identifiers run out and get_pid would walk for ever.
PidIsFree == /\ nr_process = Len(proc_list) + 1
             /\ nr_process + Cardinality(forking) <= 2 * MAX_PROCESS - 3
             /\ Len(proc_list) < MAX_PID - 1

\* get_pid returns.
WalkEnds == (scanner # 0) ~> (scanner = 0)

\* Identifiers are unique and do not run out.
PidSound == PidTypeOK /\ PidsUnique /\ PidIsFree
=============================================================================
