------------------------------- MODULE SyncCond -----------------------------
(***************************************************************************)
(* sync.Cond (sync/cond.go), used as its comment says: a consumer holds    *)
(* c.L, waits in a loop for the condition and uses it up; a producer makes *)
(* the condition true under c.L and then calls Signal or Broadcast.  The   *)
(* parts of Wait, Signal and Broadcast that hold c.m are one step each.    *)
(***************************************************************************)
EXTENDS Integers, FiniteSets

CONSTANTS CondGs,       \* the goroutines
          MaxItems,     \* a bound on what is produced and not consumed
          MaxCondSemas  \* a bound on the semaphores made

\* What the constants have to be.
CondAssumption == IsFiniteSet(CondGs) /\ MaxItems \in Nat /\ MaxCondSemas \in Nat

NoCondSema == 0
CondSemas == 1 .. MaxCondSemas

VARIABLES L,            \* who holds c.L: a goroutine, or nobody
          condWaiters,  \* c.waiters
          condSema,     \* c.sema
          condMade,     \* the semaphores made so far
          condTokens,   \* the value of each
          seen,         \* the semaphore a goroutine in Wait has read
          items,        \* the condition: there are some
          called,       \* the goroutines in Wait when Broadcast was last called
          signalled,    \* Signal has woken somebody
          condPc        \* where each goroutine is

condVars == <<L, condWaiters, condSema, condMade, condTokens, seen, items, called, signalled, condPc>>

CondInit == /\ L = {} /\ condWaiters = 0
            /\ condSema = NoCondSema /\ condMade = 0
            /\ condTokens = [s \in CondSemas |-> 0]
            /\ seen = [g \in CondGs |-> NoCondSema]
            /\ items = 0 /\ called = {} /\ signalled = FALSE
            /\ condPc = [g \in CondGs |-> "out"]

CondGoto(g, from, then) == condPc[g] = from /\ condPc' = [condPc EXCEPT ![g] = then]

-----------------------------------------------------------------------------
\* The user: c.L.Lock, the loop's test, c.L.Unlock.
CondLock(g) == /\ CondGoto(g, "out", "test") /\ L = {} /\ L' = {g}
               /\ UNCHANGED <<condWaiters, condSema, condMade, condTokens, seen, items, called, signalled>>

Consume(g) == /\ CondGoto(g, "test", "out") /\ items > 0
              /\ items' = items - 1 /\ L' = {}
              /\ UNCHANGED <<condWaiters, condSema, condMade, condTokens, seen, called, signalled>>

Produce(g, all) == /\ CondGoto(g, "out", IF all THEN "Broadcast" ELSE "Signal")
                   /\ L = {} /\ items < MaxItems
                   /\ items' = items + 1
                   /\ UNCHANGED <<L, condWaiters, condSema, condMade, condTokens, seen, called, signalled>>

\* Wait: the part under c.m, c.L.Unlock, Semacquire, c.L.Lock.
CondWait(g) ==
  /\ CondGoto(g, "test", "WaitUnlock") /\ items = 0
  /\ condSema # NoCondSema \/ condMade < MaxCondSemas
  /\ condSema' = IF condSema = NoCondSema THEN condMade + 1 ELSE condSema
  /\ condMade' = IF condSema = NoCondSema THEN condMade + 1 ELSE condMade
  /\ seen' = [seen EXCEPT ![g] = condSema']
  /\ condWaiters' = condWaiters + 1
  /\ UNCHANGED <<L, condTokens, items, called, signalled>>

WaitUnlock(g) == /\ CondGoto(g, "WaitUnlock", "WaitAcquire") /\ L' = {}
                 /\ UNCHANGED <<condWaiters, condSema, condMade, condTokens, seen, items, called, signalled>>

CondAcquire(g) == /\ CondGoto(g, "WaitAcquire", "WaitLock") /\ condTokens[seen[g]] > 0
                  /\ condTokens' = [condTokens EXCEPT ![seen[g]] = @ - 1]
                  /\ seen' = [seen EXCEPT ![g] = NoCondSema]
                  /\ called' = called \ {g}
                  /\ UNCHANGED <<L, condWaiters, condSema, condMade, items, signalled>>

WaitLock(g) == /\ CondGoto(g, "WaitLock", "test") /\ L = {} /\ L' = {g}
               /\ UNCHANGED <<condWaiters, condSema, condMade, condTokens, seen, items, called, signalled>>

SignalLosesToken(g) == /\ CondGoto(g, "Signal", "out")
                       /\ condWaiters' = IF condWaiters = 0 THEN 0 ELSE condWaiters - 1
                       /\ UNCHANGED <<L, condSema, condMade, condTokens, seen, items, called, signalled>>

Signal(g) == /\ CondGoto(g, "Signal", "out")
             /\ \/ condWaiters = 0 /\ UNCHANGED <<condWaiters, condTokens, signalled>>
                \/ /\ condWaiters > 0
                   /\ condWaiters' = condWaiters - 1 /\ signalled' = TRUE
                   /\ condTokens' = [condTokens EXCEPT ![condSema] = @ + 1]
             /\ UNCHANGED <<L, condSema, condMade, seen, items, called>>

Broadcast(g) == /\ CondGoto(g, "Broadcast", "out")
                /\ \/ condWaiters = 0 /\ UNCHANGED <<condWaiters, condTokens, condSema>>
                   \/ /\ condWaiters > 0
                      /\ condTokens' = [condTokens EXCEPT ![condSema] = @ + condWaiters]
                      /\ condSema' = NoCondSema /\ condWaiters' = 0
                /\ called' = {h \in CondGs : seen[h] # NoCondSema}
                /\ UNCHANGED <<L, condMade, seen, items, signalled>>

CondStep(g) == \/ Consume(g) \/ CondWait(g) \/ WaitUnlock(g) \/ CondAcquire(g) \/ WaitLock(g)
               \/ Signal(g) \/ Broadcast(g)

CondNext == \E g \in CondGs : CondStep(g) \/ CondLock(g) \/ \E all \in BOOLEAN : Produce(g, all)

CondSpec == CondInit /\ [][CondNext]_condVars

-----------------------------------------------------------------------------
WaitersOf(s) == {g \in CondGs : seen[g] = s}

\* Type correctness.
CondTypeOK == /\ L \subseteq CondGs /\ (\A g, h \in L : g = h) /\ condWaiters \in Nat
              /\ condSema \in CondSemas \union {NoCondSema} /\ condMade \in 0 .. MaxCondSemas
              /\ condTokens \in [CondSemas -> Nat] /\ seen \in [CondGs -> CondSemas \union {NoCondSema}]
              /\ items \in 0 .. MaxItems /\ called \subseteq CondGs
              /\ signalled \in BOOLEAN
              /\ condPc \in [CondGs -> {"out", "test", "WaitUnlock", "WaitAcquire", "WaitLock",
                                        "Signal", "Broadcast"}]

\* "Broadcast wakes all goroutines waiting on c": every goroutine that is in Wait
\* when it is called, also one that has not got as far as Semacquire, has a
\* token that none of the waiters that come later can take.
BroadcastWakesAll ==
  \A g \in called : /\ WaitersOf(seen[g]) \subseteq called
                    /\ condTokens[seen[g]] >= Cardinality(WaitersOf(seen[g]))

\* This is so while only Broadcast is used.
BroadcastAloneWakesAll == ~signalled => BroadcastWakesAll

\* The tokens of all semaphores.
Stored(f) == LET Sum[s \in 0 .. MaxCondSemas] == IF s = 0 THEN 0 ELSE Sum[s - 1] + f[s]
             IN  Sum[MaxCondSemas]

\* As long as somebody waits uncalled, there are no more items than goroutines
\* that are about to call, tokens of calls, and goroutines on their way to
\* look: nobody sleeps on while there is something for it.
NoneForgotten ==
  condWaiters > 0 =>
    items <= Stored(condTokens)
             + Cardinality({g \in CondGs : condPc[g] \in {"Signal", "Broadcast", "WaitLock", "test"}})

\* Nobody in Wait is missed by the Signal or the Broadcast meant for it.
CondSound == CondTypeOK /\ BroadcastAloneWakesAll /\ NoneForgotten
=============================================================================
