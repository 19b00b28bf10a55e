-------------------------------- MODULE Sema --------------------------------
(***************************************************************************)
(* The semaphores on which goroutines block (runtime/sema.goc), with the   *)
(* part of the goroutine scheduler they use: ready, gosched and schedule   *)
(* (runtime/proc.c).  One list holds a record for every goroutine that     *)
(* waits on any semaphore; each function that locks semlock is one step,   *)
(* and so is each successful cas.                                          *)
(***************************************************************************)
EXTENDS Integers, Sequences, FiniteSets

CONSTANTS SemaGs,   \* the goroutines
          Addrs,    \* the semaphores
          MaxCount  \* a bound on their values

SemaAssumption == Addrs # {} /\ MaxCount \in Nat \ {0}

VARIABLES
  count,       \* *addr
  list,        \* the Sema records from semfirst to semlast, by goroutine
  listed,      \* s->g != nil, for each goroutine's record
  addr,        \* the semaphore of the call a goroutine is in
  semaPc,      \* where in semacquire or semrelease it is
  status,      \* running, Gwaiting, Grunnable
  readyonstop  \* g->readyonstop

semaVars == <<count, list, listed, addr, semaPc, status, readyonstop>>

SemaInit == /\ count \in [Addrs -> {0, 1}]
            /\ list = <<>>
            /\ listed = [g \in SemaGs |-> FALSE]
            /\ addr = [g \in SemaGs |-> CHOOSE a \in Addrs : TRUE]
            /\ semaPc = [g \in SemaGs |-> "out"]
            /\ status = [g \in SemaGs |-> "running"]
            /\ readyonstop = [g \in SemaGs |-> FALSE]

-----------------------------------------------------------------------------
SemaAt(g, label) == semaPc[g] = label /\ status[g] = "running"
SemaGoto(g, label) == semaPc' = [semaPc EXCEPT ![g] = label]

\* semacquire: the easy case, or the long way.
semacquire(g, a) ==
  /\ SemaAt(g, "out")
  /\ \/ /\ count[a] > 0
        /\ count' = [count EXCEPT ![a] = @ - 1]
        /\ UNCHANGED <<addr, semaPc>>
     \/ /\ count[a] = 0
        /\ addr' = [addr EXCEPT ![g] = a]
        /\ SemaGoto(g, "queue")
        /\ UNCHANGED count
  /\ UNCHANGED <<list, listed, status, readyonstop>>

semqueue(g) == /\ SemaAt(g, "queue")
               /\ list' = Append(list, g)
               /\ SemaGoto(g, "sleep1")
               /\ UNCHANGED <<count, listed, addr, status, readyonstop>>

semsleep1(g) == /\ SemaAt(g, "sleep1")
                /\ listed' = [listed EXCEPT ![g] = TRUE]
                /\ SemaGoto(g, "try")
                /\ UNCHANGED <<count, list, addr, status, readyonstop>>

\* cansemacquire inside the loop.
cansemacquire(g) ==
  /\ SemaAt(g, "try")
  /\ \/ /\ count[addr[g]] > 0
        /\ count' = [count EXCEPT ![addr[g]] = @ - 1]
        /\ SemaGoto(g, "undo")
     \/ /\ count[addr[g]] = 0
        /\ SemaGoto(g, "sleep2")
        /\ UNCHANGED count
  /\ UNCHANGED <<list, listed, addr, status, readyonstop>>

\* semsleepundo1; the store to address 0x555 is the crash UndoFindsReady excludes.
semsleepundo1(g) ==
  /\ SemaAt(g, "undo")
  /\ listed' = [listed EXCEPT ![g] = FALSE]
  /\ readyonstop' = [readyonstop EXCEPT ![g] = IF listed[g] THEN @ ELSE FALSE]
  /\ SemaGoto(g, "dequeue")
  /\ UNCHANGED <<count, list, addr, status>>

\* semsleep2, gosched and schedule: a goroutine readied while it was still
\* running is runnable again at once.
semsleep2(g) ==
  /\ SemaAt(g, "sleep2")
  /\ status' = [status EXCEPT ![g] = IF readyonstop[g] THEN "Grunnable" ELSE "Gwaiting"]
  /\ readyonstop' = [readyonstop EXCEPT ![g] = FALSE]
  /\ SemaGoto(g, "sleep1")
  /\ UNCHANGED <<count, list, listed, addr>>

\* schedule picks a runnable goroutine.
schedule(g) == /\ status[g] = "Grunnable"
               /\ status' = [status EXCEPT ![g] = "running"]
               /\ readyonstop' = [readyonstop EXCEPT ![g] = FALSE]
               /\ UNCHANGED <<count, list, listed, addr, semaPc>>

\* semwakeup and ready: the first goroutine listed for a is made runnable, or,
\* when it still runs, marked to be.
Candidates(a) == {i \in DOMAIN list : addr[list[i]] = a /\ listed[list[i]]}
semwakeup(a) ==
  \/ Candidates(a) = {} /\ UNCHANGED <<listed, status, readyonstop>>
  \/ \E i \in Candidates(a) :
       LET g == list[i] IN
       /\ \A j \in Candidates(a) : i <= j
       /\ listed' = [listed EXCEPT ![g] = FALSE]
       /\ status' = [status EXCEPT ![g] = IF @ = "running" THEN @ ELSE "Grunnable"]
       /\ readyonstop' = [readyonstop EXCEPT ![g] = IF status[g] = "running" THEN TRUE ELSE @]

\* The record leaves the list.
Dequeue(g) ==
  \E i \in DOMAIN list :
    /\ list[i] = g
    /\ list' = [j \in 1 .. Len(list) - 1 |-> list[IF j < i THEN j ELSE j + 1]]

\* The end of semacquire: semdequeue, then one more semwakeup.
semdequeueIsLast(g) ==
  /\ SemaAt(g, "dequeue")
  /\ Dequeue(g)
  /\ SemaGoto(g, "out")
  /\ UNCHANGED <<count, listed, addr, status, readyonstop>>

semdequeue(g) == /\ SemaAt(g, "dequeue")
                 /\ Dequeue(g)
                 /\ SemaGoto(g, "wakeup")
                 /\ UNCHANGED <<count, listed, addr, status, readyonstop>>

\* semrelease: the cas, then semwakeup.
semrelease(g, a) == /\ SemaAt(g, "out") /\ count[a] < MaxCount
                    /\ count' = [count EXCEPT ![a] = @ + 1]
                    /\ addr' = [addr EXCEPT ![g] = a]
                    /\ SemaGoto(g, "wakeup")
                    /\ UNCHANGED <<list, listed, status, readyonstop>>

Wakeup(g) == /\ SemaAt(g, "wakeup")
             /\ semwakeup(addr[g])
             /\ SemaGoto(g, "out")
             /\ UNCHANGED <<count, list, addr>>

-----------------------------------------------------------------------------
SemaStep(g) == \/ semqueue(g) \/ semsleep1(g) \/ cansemacquire(g) \/ semsleepundo1(g)
               \/ semsleep2(g) \/ schedule(g) \/ semdequeue(g) \/ Wakeup(g)

SemaNext == \E g \in SemaGs : SemaStep(g) \/ \E a \in Addrs : semacquire(g, a) \/ semrelease(g, a)

SemaSpec == SemaInit /\ [][SemaNext]_semaVars

-----------------------------------------------------------------------------
\* Type correctness.
SemaTypeOK ==
  /\ count \in [Addrs -> 0 .. MaxCount]
  /\ list \in Seq(SemaGs)
  /\ listed \in [SemaGs -> BOOLEAN] /\ addr \in [SemaGs -> Addrs]
  /\ semaPc \in [SemaGs -> {"out", "queue", "sleep1", "try", "undo", "sleep2", "dequeue", "wakeup"}]
  /\ status \in [SemaGs -> {"running", "Gwaiting", "Grunnable"}]
  /\ readyonstop \in [SemaGs -> BOOLEAN]

\* semsleepundo1's test of readyonstop never fails, ready never finds a goroutine
\* that is runnable already ("bad g->status in ready"), and no goroutine leaves
\* semacquire with a wake-up that would start it from its next sleep.
UndoFindsReady ==
  \A g \in SemaGs : /\ semaPc[g] = "undo" /\ ~listed[g] => readyonstop[g]
                    /\ listed[g] => status[g] # "Grunnable"
                    /\ readyonstop[g] => semaPc[g] \in {"try", "undo", "sleep2"}

\* Never is a semaphore's value positive, a goroutine asleep on it and nobody on
\* the way to notice: some goroutine is between a cas and its semwakeup, or is
\* awake inside semacquire.  The last semwakeup of semacquire is needed for this.
NoLostToken ==
  \A a \in Addrs :
    count[a] > 0 /\ (\E g \in SemaGs : status[g] = "Gwaiting" /\ addr[g] = a) =>
      \E h \in SemaGs : /\ addr[h] = a /\ status[h] # "Gwaiting"
                        /\ \/ semaPc[h] \in {"sleep1", "try", "undo", "dequeue", "wakeup"}
                           \/ semaPc[h] = "sleep2" /\ readyonstop[h]

\* The runtime's semaphores lose no token and no goroutine, whichever way sleep,
\* wake-up and the undoing of a sleep cross.
SemaSound == SemaTypeOK /\ UndoFindsReady /\ NoLostToken
=============================================================================
