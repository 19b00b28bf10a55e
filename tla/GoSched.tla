------------------------------- MODULE GoSched ------------------------------
(***************************************************************************)
(* The goroutine scheduler (runtime/proc.c): threads, the ms, run          *)
(* goroutines, the gs, at most mcpumax at a time outside system calls.     *)
(* What happens between schedlock and schedunlock is one step on the       *)
(* record s; the notewakeup that follows the unlock is a step of its own.  *)
(* The collector (runtime/mgc0.c) stops all threads but its own.  Which    *)
(* goroutine waits for what is left open: one that waits is readied once.  *)
(***************************************************************************)
EXTENDS Integers, Sequences, FiniteSets

CONSTANTS Gs,          \* the goroutines
          Main,        \* the first
          Ms,          \* 0 .. n, the threads by m->id
          gomaxprocs0, \* $GOMAXPROCS
          Procs,       \* the arguments of runtime.GOMAXPROCS
          Wired        \* the goroutines that call LockOSThread

GoSchedAssumption == /\ Main \in Gs /\ 0 \in Ms /\ Ms \subseteq Nat /\ IsFiniteSet(Gs)
                     /\ gomaxprocs0 \in Nat \ {0} /\ Procs \subseteq Nat /\ Wired \subseteq Gs

NoM == -1
NoG == "none"

VARIABLES
  s,         \* what the scheduler lock protects, and the fields of the gs and ms
  pc,        \* where each m is
  towake,    \* the m whose havenextg each m is about to wake
  waiting,   \* the goroutines that nobody has readied since they chose to wait
  gcsema,    \* the m that collects
  resized    \* GOMAXPROCS has been called during a collection

vars == <<s, pc, towake, waiting, gcsema, resized>>

Init ==
  /\ s = [ghead |-> <<>>, mhead |-> <<>>, mcpu |-> 1, mcpumax |-> gomaxprocs0,
          gomaxprocs |-> gomaxprocs0, msyscall |-> 0, gcount |-> 1, predawn |-> TRUE,
          allm |-> {0}, mwakeup |-> NoM, waitstop |-> FALSE, stopped |-> FALSE,
          gcing |-> {}, thrown |-> "no",
          status |-> [g \in Gs |-> IF g = Main THEN "Grunning" ELSE "Gdead"],
          m |-> [g \in Gs |-> IF g = Main THEN 0 ELSE NoM],
          lockedm |-> [g \in Gs |-> NoM],
          readyonstop |-> [g \in Gs |-> FALSE],
          curg |-> [m \in Ms |-> IF m = 0 THEN Main ELSE NoG],
          nextg |-> [m \in Ms |-> NoG],
          lockedg |-> [m \in Ms |-> NoG],
          waitnextg |-> [m \in Ms |-> FALSE],
          havenextg |-> [m \in Ms |-> FALSE]]
  /\ pc = [m \in Ms |-> IF m = 0 THEN "run" ELSE "mstart"]
  /\ towake = [m \in Ms |-> NoM]
  /\ waiting = {}
  /\ gcsema = NoM
  /\ resized = FALSE

-----------------------------------------------------------------------------
(* Helpers that run under the scheduler lock *)

Throw(t, what) == [t EXCEPT !.thrown = what]

mnextg(t, m, g) ==
  LET u == [t EXCEPT !.mcpu = @ + 1, !.nextg[m] = g]
  IN  IF ~t.waitnextg[m] THEN u
      ELSE [u EXCEPT !.waitnextg[m] = FALSE, !.mwakeup = m,
                     !.havenextg = [x \in Ms |-> x = t.mwakeup \/ @[x]]]

gput(t, g) == IF t.mcpu < t.mcpumax /\ t.lockedm[g] # NoM
              THEN mnextg(t, t.lockedm[g], g)
              ELSE [t EXCEPT !.ghead = Append(@, g)]

\* matchmg, with gget and mget; a new m has the next number.
RECURSIVE Match(_)
Match(t) ==
  IF t.mcpu >= t.mcpumax \/ t.ghead = <<>> THEN t
  ELSE LET g == Head(t.ghead)
           u == [t EXCEPT !.ghead = Tail(@)]
           new == Cardinality(t.allm)
       IN  Match(IF t.lockedm[g] # NoM THEN mnextg(u, t.lockedm[g], g)
                 ELSE IF t.mhead # <<>> THEN mnextg([u EXCEPT !.mhead = Tail(@)], Head(t.mhead), g)
                 ELSE mnextg([u EXCEPT !.allm = @ \union {new}], new, g))
matchmg(t, me) == IF me \in t.gcing THEN t ELSE Match(t)

readylocked(t, g, me) ==
  IF t.m[g] # NoM THEN [t EXCEPT !.readyonstop[g] = TRUE]
  ELSE IF t.status[g] \in {"Grunnable", "Grunning"} THEN Throw(t, "bad g->status in ready")
  ELSE LET u == gput([t EXCEPT !.status[g] = "Grunnable"], g)
       IN  IF t.predawn THEN u ELSE matchmg(u, me)

WakeStopper(t) == IF t.waitstop /\ t.mcpu <= t.mcpumax
                  THEN [t EXCEPT !.waitstop = FALSE, !.stopped = TRUE] ELSE t

\* nextgandunlock: curg becomes the goroutine to run, or NoG before notesleep.
RECURSIVE Find(_, _)
Find(t, me) ==
  IF t.mcpu >= t.mcpumax \/ t.ghead = <<>> THEN [t EXCEPT !.mhead = <<me>> \o @]
  ELSE LET g == Head(t.ghead)
           u == [t EXCEPT !.ghead = Tail(@)]
       IN  IF t.lockedm[g] # NoM THEN Find(mnextg(u, t.lockedm[g], g), me)
           ELSE [u EXCEPT !.mcpu = @ + 1, !.curg[me] = g]
nextgandunlock(t, me) ==
  IF t.nextg[me] # NoG THEN [t EXCEPT !.curg[me] = t.nextg[me], !.nextg[me] = NoG]
  ELSE LET u == IF t.lockedg[me] = NoG THEN Find(t, me)
                ELSE IF t.ghead # <<>> THEN matchmg(t, me) ELSE t
       IN  IF u.curg[me] # NoG THEN u
           ELSE IF u.mcpu = 0 /\ u.msyscall = 0 THEN Throw(u, "deadlock")
           ELSE WakeStopper([u EXCEPT !.waitnextg[me] = TRUE, !.havenextg[me] = FALSE])

\* schedule up to nextgandunlock: me has just stopped running gp.
Stop(t, me, gp) ==
  LET u == [t EXCEPT !.m[gp] = NoM, !.mcpu = @ - 1, !.curg[me] = NoG]
      v == CASE t.status[gp] \in {"Grunnable", "Gdead"} -> Throw(u, "bad gp->status in sched")
             [] t.status[gp] = "Grunning" -> gput([u EXCEPT !.status[gp] = "Grunnable"], gp)
             [] t.status[gp] = "Gmoribund" ->
                  [u EXCEPT !.status[gp] = "Gdead", !.gcount = @ - 1,
                            !.thrown = IF t.gcount = 1 THEN "exit" ELSE @,
                            !.lockedm[gp] = NoM,
                            !.lockedg[me] = IF t.lockedm[gp] # NoM THEN NoG ELSE @]
             [] OTHER -> u
  IN  IF v.readyonstop[gp] THEN readylocked([v EXCEPT !.readyonstop[gp] = FALSE], gp, me) ELSE v

-----------------------------------------------------------------------------
\* A step of m under the lock ends with schedunlock.
Section(m, t) == /\ s' = [t EXCEPT !.mwakeup = NoM]
                 /\ towake' = [towake EXCEPT ![m] = t.mwakeup]
At(m, label) == pc[m] = label /\ m \in s.allm /\ towake[m] = NoM /\ s.thrown = "no"
Goto(m, label) == pc' = [pc EXCEPT ![m] = label]
Self(m) == s.curg[m]

\* notewakeup(&m->havenextg), after schedunlock.
Wake(m) == /\ towake[m] # NoM /\ s.thrown = "no"
           /\ s' = [s EXCEPT !.havenextg[towake[m]] = TRUE]
           /\ towake' = [towake EXCEPT ![m] = NoM]
           /\ UNCHANGED <<pc, waiting, gcsema, resized>>

\* schedule, of a goroutine that has stopped or of a new m.
schedule(m) ==
  /\ \/ At(m, "schedule") \/ At(m, "mstart")
  /\ LET t == nextgandunlock(IF pc[m] = "mstart" THEN s ELSE Stop(s, m, Self(m)), m)
     IN  /\ Section(m, t)
         /\ Goto(m, IF t.curg[m] = NoG THEN "notesleep" ELSE "gogo")
  /\ UNCHANGED <<waiting, gcsema, resized>>

\* The end of schedule, without the lock; after notesleep the goroutine is nextg.
gogo(m) ==
  /\ \/ At(m, "gogo")
     \/ At(m, "notesleep") /\ s.havenextg[m]
  /\ LET g == IF pc[m] = "gogo" THEN Self(m) ELSE s.nextg[m]
     IN  s' = IF g = NoG THEN Throw(s, "bad m->nextg in nextgoroutine")
              ELSE [s EXCEPT !.nextg[m] = IF pc[m] = "gogo" THEN @ ELSE NoG,
                             !.curg[m] = g, !.readyonstop[g] = FALSE,
                             !.status[g] = "Grunning", !.m[g] = m]
  /\ Goto(m, "run")
  /\ UNCHANGED <<towake, waiting, gcsema, resized>>

-----------------------------------------------------------------------------
(* What a running goroutine does *)

\* Gosched, a wait on a channel or a semaphore, goexit.
Leave(m, status) ==
  /\ At(m, "run") /\ ~s.predawn
  /\ s' = [s EXCEPT !.status[Self(m)] = status]
  /\ waiting' = IF status = "Gwaiting" THEN waiting \union {Self(m)} ELSE waiting
  /\ Goto(m, "schedule")
  /\ UNCHANGED <<towake, gcsema, resized>>

ready(m, g) == /\ At(m, "run") \/ At(m, "finalize")
               /\ g \in waiting
               /\ waiting' = waiting \ {g}
               /\ Section(m, readylocked(s, g, m))
               /\ UNCHANGED <<pc, gcsema, resized>>

newproc(m, g) == /\ At(m, "run") \/ At(m, "finalize")
                 /\ s.status[g] = "Gdead"
                 /\ Section(m, readylocked([s EXCEPT !.status[g] = "Gwaiting", !.gcount = @ + 1], g, m))
                 /\ UNCHANGED <<pc, waiting, gcsema, resized>>

initdone(m) == /\ At(m, "run") /\ s.predawn
               /\ Section(m, matchmg([s EXCEPT !.predawn = FALSE], m))
               /\ UNCHANGED <<pc, waiting, gcsema, resized>>

entersyscallKeepsQueue(m) ==
  /\ At(m, "run") /\ ~s.predawn
  /\ Section(m, WakeStopper([s EXCEPT !.status[Self(m)] = "Gsyscall", !.mcpu = @ - 1, !.msyscall = @ + 1]))
  /\ Goto(m, "syscall")
  /\ UNCHANGED <<waiting, gcsema, resized>>

entersyscall(m) ==
  /\ At(m, "run") /\ ~s.predawn
  /\ LET t == [s EXCEPT !.status[Self(m)] = "Gsyscall", !.mcpu = @ - 1, !.msyscall = @ + 1]
     IN  Section(m, WakeStopper(IF t.ghead # <<>> THEN matchmg(t, m) ELSE t))
  /\ Goto(m, "syscall")
  /\ UNCHANGED <<waiting, gcsema, resized>>

exitsyscall(m) ==
  /\ At(m, "syscall")
  /\ LET t == [s EXCEPT !.mcpu = @ + 1, !.msyscall = @ - 1]
     IN  IF t.mcpu <= t.mcpumax
         THEN Section(m, [t EXCEPT !.status[Self(m)] = "Grunning"]) /\ Goto(m, "run")
         ELSE Section(m, [t EXCEPT !.readyonstop[Self(m)] = TRUE]) /\ Goto(m, "schedule")
  /\ UNCHANGED <<waiting, gcsema, resized>>

LockOSThread(m) == /\ At(m, "run") /\ ~s.predawn /\ Self(m) \in Wired /\ s.lockedg[m] = NoG
                   /\ s' = [s EXCEPT !.lockedg[m] = Self(m), !.lockedm[Self(m)] = m]
                   /\ UNCHANGED <<pc, towake, waiting, gcsema, resized>>
UnlockOSThread(m) == /\ At(m, "run") /\ s.lockedg[m] # NoG
                     /\ s' = [s EXCEPT !.lockedg[m] = NoG, !.lockedm[Self(m)] = NoM]
                     /\ UNCHANGED <<pc, towake, waiting, gcsema, resized>>

gomaxprocsfunc(m, n) ==
  /\ At(m, "run") /\ ~s.predawn
  /\ LET t == [s EXCEPT !.gomaxprocs = n, !.mcpumax = n]
     IN  IF t.mcpu > t.mcpumax THEN Section(m, t) /\ Goto(m, "schedule")
                               ELSE Section(m, matchmg(t, m)) /\ UNCHANGED pc
  /\ resized' = (resized \/ gcsema # NoM)
  /\ UNCHANGED <<waiting, gcsema>>

-----------------------------------------------------------------------------
(* gc *)

\* The loop of stoptheworld.
StopLoop(m, t) ==
  IF t.mcpu > 1 THEN Section(m, [t EXCEPT !.stopped = FALSE, !.waitstop = TRUE]) /\ Goto(m, "stopping")
                ELSE Section(m, t) /\ Goto(m, "collect")

stoptheworld(m) ==
  /\ At(m, "run") /\ ~s.predawn /\ gcsema = NoM
  /\ gcsema' = m
  /\ StopLoop(m, [s EXCEPT !.gcing = @ \union {m}, !.mcpumax = 1])
  /\ UNCHANGED <<waiting, resized>>

stopagain(m) == /\ At(m, "stopping") /\ s.stopped
                /\ StopLoop(m, s)
                /\ UNCHANGED <<waiting, gcsema, resized>>

\* m->gcing = 0; then finalizers may be started or readied.
Swept(m) == /\ At(m, "collect")
            /\ s' = [s EXCEPT !.gcing = @ \ {m}]
            /\ Goto(m, "finalize")
            /\ UNCHANGED <<towake, waiting, gcsema, resized>>

semrelease(m) == /\ At(m, "finalize")
                 /\ gcsema' = NoM
                 /\ Goto(m, "starting")
                 /\ UNCHANGED <<s, towake, waiting, resized>>

starttheworld(m) == /\ At(m, "starting")
                    /\ Section(m, matchmg([s EXCEPT !.mcpumax = s.gomaxprocs], m))
                    /\ Goto(m, "run")
                    /\ UNCHANGED <<waiting, gcsema, resized>>

-----------------------------------------------------------------------------
Kernel(m) == Wake(m) \/ schedule(m) \/ gogo(m) \/ exitsyscall(m) \/ stopagain(m) \/ Swept(m)
             \/ semrelease(m) \/ starttheworld(m)
Next == \E m \in Ms :
  \/ Kernel(m)
  \/ \E status \in {"Grunning", "Gwaiting", "Gmoribund"} : Leave(m, status)
  \/ \E g \in Gs : ready(m, g) \/ newproc(m, g)
  \/ initdone(m) \/ entersyscall(m) \/ LockOSThread(m) \/ UnlockOSThread(m) \/ stoptheworld(m)
  \/ \E n \in Procs : gomaxprocsfunc(m, n)
Spec == Init /\ [][Next]_vars

-----------------------------------------------------------------------------
OnCpu(m) == pc[m] \in {"run", "schedule", "gogo", "stopping", "collect", "finalize", "starting"}
Places(g) == {<<"ghead", i>> : i \in {j \in DOMAIN s.ghead : s.ghead[j] = g}}
             \union {<<"nextg", m>> : m \in {x \in Ms : s.nextg[x] = g}}
             \union {<<"curg", m>> : m \in {x \in Ms : s.curg[x] = g}}

\* Type correctness.
TypeOK == /\ s.mcpu \in Nat /\ s.msyscall \in Nat /\ s.gcount \in Nat /\ s.allm \subseteq Ms
          /\ towake \in [Ms -> Ms \union {NoM}] /\ waiting \subseteq Gs /\ gcsema \in Ms \union {NoM}

\* mcpu is the number of ms that run a goroutine or have been given one, msyscall
\* that of the ms in system calls, and gcount that of the goroutines alive.
CountsExact ==
  /\ s.mcpu = Cardinality({m \in Ms : OnCpu(m)}) + Cardinality({m \in Ms : s.nextg[m] # NoG})
  /\ s.msyscall = Cardinality({m \in Ms : pc[m] = "syscall"})
  /\ s.gcount = Cardinality({g \in Gs : s.status[g] # "Gdead"})

\* Every goroutine is in one place: in the queue, given to an m, on one, or waiting.
\* A wired one is on its own m, which has no other.
OnePlace ==
  /\ \A g \in Gs : /\ Cardinality(Places(g)) <= 1
                   /\ Places(g) = {} <=> \/ s.status[g] = "Gdead"
                                         \/ s.status[g] = "Gwaiting" /\ g \in waiting /\ s.m[g] = NoM
  /\ \A m \in Ms, g \in Gs :
       s.lockedm[g] = m => /\ s.lockedg[m] = g /\ s.curg[m] \in {g, NoG} /\ s.nextg[m] \in {g, NoG}
                           /\ \A x \in Ms \ {m} : s.curg[x] # g /\ s.nextg[x] # g

\* No goroutine is left in the queue while there is room for another m, and an m
\* that has been given one is awake, or about to be.
NoIdleWork ==
  /\ s.ghead # <<>> /\ ~s.predawn => s.mcpu >= s.mcpumax
  /\ \A m \in Ms : pc[m] = "notesleep" /\ s.nextg[m] # NoG =>
       s.havenextg[m] \/ \E x \in Ms : towake[x] = m

\* "All goroutines are asleep" is reported when, and only when, they are, and the
\* other checks of the scheduler never fail.
AllAsleep == \A g \in Gs : s.status[g] = "Gdead" \/ g \in waiting
DeadlockReported ==
  /\ s.thrown \in {"no", "deadlock", "exit"}
  /\ s.thrown = "deadlock" => AllAsleep
  /\ s.thrown = "no" => ~\A m \in s.allm : pc[m] = "notesleep" /\ ~s.havenextg[m] /\ towake[m] = NoM

\* While the collector runs no other m runs a goroutine, unless GOMAXPROCS has
\* been called since it began to stop them.
Alone == \A m \in Ms : pc[m] \in {"collect", "finalize", "starting"} =>
           \A x \in Ms \ {m} : pc[x] # "run"
CollectorAlone == resized \/ Alone

\* A collector that waits for the others to stop is woken, or will be: the last of
\* them has not stopped.
StopNotMissed == \A m \in Ms : pc[m] = "stopping" /\ ~s.stopped =>
                   s.waitstop /\ (resized \/ s.mcpu > s.mcpumax)

\* The scheduler keeps its counts, loses no goroutine and no processor, stops the
\* world for the collector and reports every deadlock.
GoSchedSound == TypeOK /\ CountsExact /\ OnePlace /\ NoIdleWork /\ DeadlockReported
                /\ CollectorAlone /\ StopNotMissed
=============================================================================
