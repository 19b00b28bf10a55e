------------------------------ MODULE WaitGroup -----------------------------
(***************************************************************************)
(* sync.WaitGroup (sync/waitgroup.go).  Add and the first part of Wait run *)
(* under wg.m, so each is one step; a waiter then takes a token from the   *)
(* semaphore it has seen.  A new semaphore is made each time the old one   *)
(* is released.                                                            *)
(***************************************************************************)
EXTENDS Integers, FiniteSets

CONSTANTS GroupGs,       \* the goroutines
          MaxCounter,    \* a bound on wg.counter
          MaxGroupSemas  \* a bound on the semaphores made

WaitGroupAssumption == IsFiniteSet(GroupGs) /\ MaxGroupSemas \in Nat /\ MaxCounter \in Nat

NoSema == 0
Semas == 1 .. MaxGroupSemas

VARIABLES counter,    \* wg.counter
          waiters,    \* wg.waiters
          groupSema,  \* wg.sema
          made,       \* the semaphores made so far
          tokens,     \* the value of each
          waitsOn,    \* the semaphore a goroutine in Wait has read, or NoSema
          sawZero     \* the counter has been zero since its Wait began

groupVars == <<counter, waiters, groupSema, made, tokens, waitsOn, sawZero>>

GroupInit == /\ counter = 0 /\ waiters = 0
             /\ groupSema = NoSema /\ made = 0
             /\ tokens = [s \in Semas |-> 0]
             /\ waitsOn = [g \in GroupGs |-> NoSema]
             /\ sawZero = [g \in GroupGs |-> FALSE]

\* Add(delta); Done is Add(-1).  A negative counter panics and changes nothing.
AddReusesSema(g, delta) ==
  LET n == counter + delta IN
  /\ waitsOn[g] = NoSema /\ n \in 0 .. MaxCounter
  /\ counter' = n
  /\ \/ /\ n = 0 /\ waiters > 0
        /\ tokens' = [tokens EXCEPT ![groupSema] = @ + waiters]
        /\ waiters' = 0 /\ groupSema' = groupSema
     \/ /\ ~(n = 0 /\ waiters > 0)
        /\ UNCHANGED <<tokens, waiters, groupSema>>
  /\ sawZero' = [h \in GroupGs |-> sawZero[h] \/ (n = 0 /\ waitsOn[h] # NoSema)]
  /\ UNCHANGED <<made, waitsOn>>

Add(g, delta) ==
  LET n == counter + delta IN
  /\ waitsOn[g] = NoSema /\ n \in 0 .. MaxCounter
  /\ counter' = n
  /\ \/ /\ n = 0 /\ waiters > 0
        /\ tokens' = [tokens EXCEPT ![groupSema] = @ + waiters]
        /\ waiters' = 0 /\ groupSema' = NoSema
     \/ /\ ~(n = 0 /\ waiters > 0)
        /\ UNCHANGED <<tokens, waiters, groupSema>>
  /\ sawZero' = [h \in GroupGs |-> sawZero[h] \/ (n = 0 /\ waitsOn[h] # NoSema)]
  /\ UNCHANGED <<made, waitsOn>>

\* Wait up to Semacquire; with the counter at zero it returns at once.
GroupWait(g) ==
  /\ waitsOn[g] = NoSema /\ counter # 0
  /\ groupSema # NoSema \/ made < MaxGroupSemas
  /\ waiters' = waiters + 1
  /\ groupSema' = IF groupSema = NoSema THEN made + 1 ELSE groupSema
  /\ made' = IF groupSema = NoSema THEN made + 1 ELSE made
  /\ waitsOn' = [waitsOn EXCEPT ![g] = groupSema']
  /\ UNCHANGED <<counter, tokens, sawZero>>

GroupAcquire(g) ==
  /\ waitsOn[g] # NoSema /\ tokens[waitsOn[g]] > 0
  /\ tokens' = [tokens EXCEPT ![waitsOn[g]] = @ - 1]
  /\ waitsOn' = [waitsOn EXCEPT ![g] = NoSema]
  /\ sawZero' = [sawZero EXCEPT ![g] = FALSE]
  /\ UNCHANGED <<counter, waiters, groupSema, made>>

GroupNext == \E g \in GroupGs : \/ \E delta \in {-1, 1, 2} : Add(g, delta)
                                \/ GroupWait(g) \/ GroupAcquire(g)

GroupSpec == GroupInit /\ [][GroupNext]_groupVars

-----------------------------------------------------------------------------
GroupWaitersOf(s) == {g \in GroupGs : waitsOn[g] = s}

\* Type correctness.
GroupTypeOK == /\ counter \in 0 .. MaxCounter /\ waiters \in Nat
               /\ groupSema \in Semas \union {NoSema} /\ made \in 0 .. MaxGroupSemas
               /\ tokens \in [Semas -> Nat]
               /\ waitsOn \in [GroupGs -> Semas \union {NoSema}] /\ sawZero \in [GroupGs -> BOOLEAN]

\* Wait returns only after the counter has been zero while it waited: the race
\* that the comment on the semaphore describes does not happen.
WaitIsHonest ==
  \A g \in GroupGs : waitsOn[g] # NoSema /\ tokens[waitsOn[g]] > 0 => sawZero[g]

\* And then it does return: every waiter is either still counted in wg.waiters,
\* and then waits for the counter, or has a token on its own semaphore.
EveryWaiterReleased ==
  \A s \in Semas :
    /\ s = groupSema => waiters = Cardinality(GroupWaitersOf(s)) /\ tokens[s] = 0 /\ counter # 0
    /\ s # groupSema => tokens[s] = Cardinality(GroupWaitersOf(s))

\* Wait neither returns early nor sleeps for ever, also when the group is used
\* again while goroutines of the last round are still in Wait.
WaitGroupSound == GroupTypeOK /\ WaitIsHonest /\ EveryWaiterReleased
=============================================================================
