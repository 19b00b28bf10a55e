------------------------------- MODULE GoTimer ------------------------------
(***************************************************************************)
(* Timers of package time (pkg/time/sleep.go).  All timers wait in one     *)
(* heap that ends with a sentinel.  A goroutine, the current sleeper,      *)
(* sleeps until the first is due, but never longer than MaxSleepTime, and  *)
(* calls the functions of those that are.  Starting an earlier timer       *)
(* starts a new sleeper; the old one finds out and ends.                   *)
(***************************************************************************)
EXTENDS Heap, FiniteSets

CONSTANTS Ts,            \* the timers
          Sentinel,      \* the timer of init()
          MaxSleepTime,  \* maxSleepTime
          MaxNow         \* bound on the clock, which stands for all later times too

VARIABLES
  now,            \* Nanoseconds()
  timers,         \* timers, with the elements' field i
  t,              \* the elements' field t
  f,              \* nil, set, or for the properties: called, stopped
  pc,             \* of the goroutine that starts and stops a timer
  ns,             \* the argument of after, until it returns
  currentSleeper, \* currentSleeper
  sleepers,       \* the sleepers started: where they are and when they wake
  prompt          \* the clock has not moved while a goroutine could run

vars == <<now, timers, t, f, pc, ns, currentSleeper, sleepers, prompt>>

forever == 2 * MaxNow + 1
Ids == 1 .. Cardinality(Ts)

Init == /\ now = 0
        /\ timers = [h |-> [k \in {0} |-> Sentinel], n |-> 1,
                     i |-> [e \in Ts \union {Sentinel} |-> IF e = Sentinel THEN 0 ELSE -1]]
        /\ t = [e \in Ts \union {Sentinel} |-> IF e = Sentinel THEN forever ELSE 0]
        /\ f = [e \in Ts |-> "nil"]
        /\ pc = [e \in Ts |-> "new"]
        /\ ns = [e \in Ts |-> 0]
        /\ currentSleeper = 0
        /\ sleepers = [s \in Ids |-> [pc |-> "none", until |-> 0]]
        /\ prompt = TRUE

First == timers.h[0]

-----------------------------------------------------------------------------
\* after, up to timerMutex.Lock: the time is read before the mutex is taken.
\* NewTimer, After and AfterFunc only differ in the function.
after(e) ==
  /\ pc[e] = "new" /\ pc' = [pc EXCEPT ![e] = "lock"]
  /\ \E d \in 0 .. MaxNow - now : /\ ns' = [ns EXCEPT ![e] = d]
                                  /\ t' = [t EXCEPT ![e] = now + d]
  /\ UNCHANGED <<now, timers, f, currentSleeper, sleepers, prompt>>

\* The rest of after, which never starts a second sleeper.
insertOneSleeper(e) ==
  /\ pc[e] = "lock" /\ pc' = [pc EXCEPT ![e] = "started"]
  /\ timers' = Push(timers, t, e) /\ f' = [f EXCEPT ![e] = "set"]
  /\ \/ /\ t[First] = forever
        /\ currentSleeper' = currentSleeper + 1
        /\ sleepers' = [sleepers EXCEPT ![currentSleeper'].pc = "start"]
     \/ t[First] # forever /\ UNCHANGED <<currentSleeper, sleepers>>
  /\ ns' = [ns EXCEPT ![e] = 0]
  /\ UNCHANGED <<now, t, prompt>>

\* The rest of after: a new sleeper if the new event is the first, unless the
\* present sleeper will be back in time.
NewSleeper(e) == t[First] > t[e] /\ (t[First] = forever \/ ns[e] < MaxSleepTime)
insert(e) ==
  /\ pc[e] = "lock" /\ pc' = [pc EXCEPT ![e] = "started"]
  /\ timers' = Push(timers, t, e) /\ f' = [f EXCEPT ![e] = "set"]
  /\ \/ /\ NewSleeper(e)
        /\ currentSleeper' = currentSleeper + 1
        /\ sleepers' = [sleepers EXCEPT ![currentSleeper'].pc = "start"]
     \/ ~NewSleeper(e) /\ UNCHANGED <<currentSleeper, sleepers>>
  /\ ns' = [ns EXCEPT ![e] = 0]
  /\ UNCHANGED <<now, t, prompt>>

\* Timer.Stop.  The first event stays in the heap, without its function.
Stop(e) ==
  /\ pc[e] = "started" /\ pc' = [pc EXCEPT ![e] = "stopped"]
  /\ timers' = IF timers.i[e] > 0 THEN Remove(timers, t, timers.i[e]) ELSE timers
  /\ f' = [f EXCEPT ![e] = IF @ = "set" THEN "stopped" ELSE @]
  /\ UNCHANGED <<now, t, ns, currentSleeper, sleepers, prompt>>

\* sleeper, from the time when it has timerMutex and is current to its next
\* Sleep or its end: the events that are due leave the heap one by one.
RECURSIVE popDue(_)
popDue(s) == IF now >= t[s.h[0]] THEN popDue(Pop(s, t)) ELSE s
serve(s) ==
  \E left \in {popDue(timers)} : LET dt == t[left.h[0]] - now IN
     /\ timers' = left
     /\ f' = [e \in Ts |-> IF timers.i[e] >= 0 /\ left.i[e] < 0 /\ f[e] = "set"
                           THEN "called" ELSE f[e]]
     /\ sleepers' = [sleepers EXCEPT ![s] =
          IF left.h[0] = Sentinel THEN [pc |-> "ended", until |-> 0]
          ELSE [pc |-> "sleep", until |-> IF dt > MaxSleepTime THEN MaxSleepTime ELSE dt]]

\* sleeper's first look at the heap, which needs no test of currentSleeper.
sleeper(s) ==
  /\ sleepers[s].pc = "start" /\ serve(s)
  /\ UNCHANGED <<now, t, pc, ns, currentSleeper, prompt>>

\* timerMutex.Unlock and syscall.Sleep(dt).
Sleep(s) ==
  /\ sleepers[s].pc = "sleep"
  /\ sleepers' = [sleepers EXCEPT ![s].pc = "asleep", ![s].until =
                    IF now + @ > MaxNow THEN MaxNow ELSE now + @]
  /\ UNCHANGED <<now, timers, t, f, pc, ns, currentSleeper, prompt>>

\* The sleep is over: end if another sleeper has been started.
Wakes(s) == sleepers[s].pc = "asleep" /\ now >= sleepers[s].until
wakeContinues(s) ==   \* continue where the code has break
  /\ Wakes(s)
  /\ \/ currentSleeper = s /\ serve(s)
     \/ /\ currentSleeper # s
        /\ sleepers' = [sleepers EXCEPT ![s] = [pc |-> "sleep", until |-> MaxSleepTime]]
        /\ UNCHANGED <<timers, f>>
  /\ UNCHANGED <<now, t, pc, ns, currentSleeper, prompt>>
wake(s) ==
  /\ Wakes(s)
  /\ \/ currentSleeper = s /\ serve(s)
     \/ /\ currentSleeper # s
        /\ sleepers' = [sleepers EXCEPT ![s] = [pc |-> "ended", until |-> 0]]
        /\ UNCHANGED <<timers, f>>
  /\ UNCHANGED <<now, t, pc, ns, currentSleeper, prompt>>

\* Goroutines that could run.
Calls(e) == pc[e] = "lock"
Busy == \/ \E e \in Ts : Calls(e)
        \/ \E s \in Ids : sleepers[s].pc \in {"start", "sleep"} \/ Wakes(s)

Tick == /\ now < MaxNow /\ now' = now + 1
        /\ prompt' = (prompt /\ ~Busy)
        /\ UNCHANGED <<timers, t, f, pc, ns, currentSleeper, sleepers>>

Next == \/ \E e \in Ts : after(e) \/ insert(e) \/ Stop(e)
        \/ \E s \in Ids : sleeper(s) \/ Sleep(s) \/ wake(s)
        \/ Tick

Spec == Init /\ [][Next]_vars

\* Goroutines that can run do, so that they are again and again not waiting to
\* do a step (the weak fairness of insert, sleeper, Sleep and wake, in a form
\* that is cheap to evaluate), and time passes.
Fairness == /\ \A e \in Ts : []<>~Calls(e)
            /\ \A s \in Ids : /\ []<>(sleepers[s].pc # "start")
                              /\ []<>(sleepers[s].pc # "sleep")
                              /\ []<>~Wakes(s)
            /\ WF_vars(Tick)
FairSpec == Spec /\ Fairness

-----------------------------------------------------------------------------
\* Types; at most one sleeper is started per timer.
TypeOK == /\ now \in 0 .. MaxNow /\ currentSleeper \in 0 .. Cardinality(Ts)
          /\ f \in [Ts -> {"nil", "set", "called", "stopped"}]
          /\ t \in [Ts \union {Sentinel} -> 0 .. forever]
          /\ timers.n \in 1 .. Cardinality(Ts) + 1
          /\ \A s \in Ids : sleepers[s].pc \in {"none", "start", "sleep", "asleep", "ended"}

\* Whatever is started and stopped, the array is a heap, every timer knows its
\* index in it (which Stop removes at), and those with a function are in it.
TimersAreHeap == /\ IsHeap(timers, t)
                 /\ \A e \in Ts : f[e] = "set" => timers.i[e] >= 0
                 /\ timers.i[Sentinel] >= 0

\* While an event waits the current sleeper is not gone.
SomeoneWatches ==
  First # Sentinel => /\ currentSleeper > 0
                      /\ sleepers[currentSleeper].pc \in {"start", "sleep", "asleep"}

\* The comment in after, sleep.go:103-107: without a new sleeper "we're
\* guaranteed that the sleeper will wake up in time to service it".  If the
\* code itself takes no time, nobody that could run is left and an event is due,
\* it has been served.
InTime == (prompt /\ ~Busy) => \A e \in Ts : timers.i[e] >= 0 => t[e] > now

\* Every timer that is set is served or stopped.
EveryTimerFires == \A e \in Ts : (f[e] = "set") ~> (f[e] # "set")

\* Sleepers that have been replaced end.
OldSleepersEnd == \A s \in Ids : (currentSleeper > s) ~> (sleepers[s].pc = "ended")

\* The timers stay in order, one sleeper watches them, and none is served late.
TimerSound == TypeOK /\ TimersAreHeap /\ SomeoneWatches /\ InTime
=============================================================================
