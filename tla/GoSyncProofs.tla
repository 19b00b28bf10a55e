---------------------------- MODULE GoSyncProofs ----------------------------
(***************************************************************************)
(* io.Pipe, Mutex, RWMutex and WaitGroup keep their promises for any       *)
(* finite set of goroutines and every sequence of calls.                   *)
(***************************************************************************)
EXTENDS IoPipe, SyncMutex, RWMutex, WaitGroup, FiniteSetTheorems, TLAPS

-----------------------------------------------------------------------------
(* What the proofs use of finite sets, from the theorems of the library.   *)

\* The parts of a finite set are finite.
LEMMA FiniteParts == \A T, D : IsFiniteSet(T) /\ D \subseteq T => IsFiniteSet(D)
BY FS_Subset

\* A finite set has a number of elements, and none only if it is empty.
LEMMA CardNat == \A T : IsFiniteSet(T) => /\ Cardinality(T) \in Nat
                                          /\ Cardinality(T) = 0 <=> T = {}
BY FS_CardinalityType, FS_EmptySet

\* The empty set has none.
LEMMA CardEmpty == IsFiniteSet({}) /\ Cardinality({}) = 0
BY FS_EmptySet

\* A set with one element has one.
LEMMA CardOne == \A x : IsFiniteSet({x}) /\ Cardinality({x}) = 1
BY FS_Singleton, Zenon

\* One more makes a difference of one.
LEMMA CardAdd == \A T, x : IsFiniteSet(T) /\ x \notin T =>
                             /\ IsFiniteSet(T \union {x})
                             /\ Cardinality(T \union {x}) = Cardinality(T) + 1
BY FS_AddElement

\* One less makes a difference of one.
LEMMA CardRemove == \A T, x : IsFiniteSet(T) /\ x \in T =>
                                /\ IsFiniteSet(T \ {x})
                                /\ Cardinality(T \ {x}) = Cardinality(T) - 1
BY FS_RemoveElement

-----------------------------------------------------------------------------
\* io.Pipe.  rl and wl are held from Lock to return; the bytes that lie in data
\* and those that readers took are together what the writer brought.
IoInv ==
  /\ IoPipeKept
  /\ err \in [Writers -> {"nil", "EINVAL"}]
  /\ res \in [Writers -> [n : Int, err : {"nil", "EINVAL", "rerr"}]]
  /\ \A p \in Readers : rl = p <=> ioPc[p] \in {"locked", "wait", "woken"}
  /\ \A p \in Writers : wl = p <=> ioPc[p] \in {"locked", "wait", "woken"}
  /\ data # None => wl # None /\ ioPc[wl] # "locked"
  /\ \A p \in Writers : ioPc[p] \notin {"wait", "woken"} => took[p] = 0 /\ err[p] = "nil"
  /\ \A p \in Writers : ioPc[p] \in {"wait", "woken"} =>
       took[p] = IF data = None THEN b[p] ELSE b[p] - data

\* Nobody has called yet.
LEMMA IoStarts == ASSUME IoPipeAssumption, IoInit PROVE IoInv
BY DEF IoPipeAssumption, IoInit, IoInv, IoPipeKept, IoTypeOK, NoneWaitsInVain,
       Callers, Lens

\* Each step keeps the invariant, and a write that returns in it says what
\* readers took.
LEMMA IoStep ==
  ASSUME IoPipeAssumption, IoInv, [IoNext]_ioVars
  PROVE  IoInv' /\ WriteStep
<1> USE DEF IoPipeAssumption, IoInv, IoPipeKept, IoTypeOK, NoneWaitsInVain,
            Callers, Lens, WriteStep
<1>1. ASSUME NEW p \in Callers, IoCall(p) PROVE IoInv' /\ WriteStep
  BY <1>1 DEF IoCall
<1>2. ASSUME NEW p \in Callers, ReadLock(p) PROVE IoInv' /\ WriteStep
  BY <1>2 DEF ReadLock
<1>3. ASSUME NEW p \in Callers, read(p) PROVE IoInv' /\ WriteStep
  BY <1>3 DEF read, ReadReturn, Copy, Woken
<1>4. ASSUME NEW p \in Callers, WriteLock(p) PROVE IoInv' /\ WriteStep
  BY <1>4 DEF WriteLock
<1>5. ASSUME NEW p \in Callers, write(p) PROVE IoInv' /\ WriteStep
  <2>1. p \in Writers /\ b[p] # None /\ wl = p /\ took[p] = 0 /\ data = None
    BY <1>5 DEF write
  <2> DEFINE then == IF rerr THEN "out" ELSE "wait"
  <2>2. ioPc' = [q \in Callers |-> IF q = p THEN then
                                   ELSE IF q \in Readers /\ ioPc[q] = "wait" THEN "woken" ELSE ioPc[q]]
    BY <1>5, <2>1, Zenon DEF write, Loop, WriteReturn, Woken
  <2>3. CASE rerr
    <3>1. /\ ioPc'[p] = "out" /\ wl' = None /\ data' = None /\ UNCHANGED <<rl, rerr, werr>>
          /\ b' = [b EXCEPT ![p] = 0] /\ took' = [took EXCEPT ![p] = 0]
          /\ err' = [err EXCEPT ![p] = "nil"]
          /\ res' = [res EXCEPT ![p] = [n |-> 0, err |-> "rerr"]]
      BY <1>5, <2>1, <2>2, <2>3 DEF write, Loop, WriteReturn
    <3> QED
      BY <2>1, <2>2, <3>1
  <2>4. CASE ~rerr
    <3>1. /\ ioPc'[p] = "wait" /\ data' = b[p] /\ UNCHANGED <<rl, rerr, werr, b, wl, took, res>>
          /\ err' = [err EXCEPT ![p] = IF werr THEN "EINVAL" ELSE @]
      BY <1>5, <2>1, <2>2, <2>4 DEF write, Loop
    <3> QED
      BY <2>1, <2>2, <3>1
  <2> QED
    BY <2>3, <2>4, Zenon
<1>6. ASSUME NEW p \in Callers, writeWoken(p) PROVE IoInv' /\ WriteStep
  <2>1. p \in Writers /\ ioPc[p] = "woken" /\ wl = p /\ UNCHANGED <<rl, rerr, werr>>
    BY <1>6 DEF writeWoken
  <2>2. CASE data # None /\ ~rerr
    <3>1. /\ ioPc' = [ioPc EXCEPT ![p] = "wait"] /\ UNCHANGED <<data, b, wl, took, res>>
          /\ err' = [err EXCEPT ![p] = IF werr THEN "EINVAL" ELSE @]
      BY <1>6, <2>2 DEF writeWoken, Loop
    <3> QED
      BY <2>1, <2>2, <3>1
  <2>3. CASE data = None
    <3>1. WriteReturn(p, b[p], err[p], ioPc)
      BY <1>6, <2>3 DEF writeWoken, Loop
    <3> QED
      BY <2>1, <2>3, <3>1 DEF WriteReturn
  <2>4. CASE data # None /\ rerr
    <3>1. WriteReturn(p, b[p] - data, "rerr", ioPc)
      BY <1>6, <2>4 DEF writeWoken, Loop
    <3> QED
      BY <2>1, <2>4, <3>1 DEF WriteReturn
  <2> QED
    BY <2>2, <2>3, <2>4, Zenon
<1>7. ASSUME rclose PROVE IoInv' /\ WriteStep
  BY <1>7 DEF rclose, Woken
<1>8. ASSUME wclose PROVE IoInv' /\ WriteStep
  BY <1>8 DEF wclose, Woken
<1>9. ASSUME UNCHANGED ioVars PROVE IoInv' /\ WriteStep
  BY <1>9 DEF ioVars
<1> QED
  BY <1>1, <1>2, <1>3, <1>4, <1>5, <1>6, <1>7, <1>8, <1>9, Zenon DEF IoNext, IoTurn

\* Readers and writers of an io.Pipe wait only while they have to, and a write
\* returns the number of bytes that readers took, for any number of them.
THEOREM IoPipeIsSound ==
  ASSUME IoPipeAssumption
  PROVE  IoSpec => IoPipeSound
<1>1. IoInit => IoInv
  BY IoStarts
<1>2. IoInv /\ [IoNext]_ioVars => IoInv' /\ WriteStep
  BY IoStep
<1>3. IoInv => IoPipeKept
  BY DEF IoInv
<1> QED
  BY <1>1, <1>2, <1>3, PTL DEF IoSpec, IoPipeSound

-----------------------------------------------------------------------------
(* A sync.Mutex neither loses nor doubles the right to it, and is a mutex, *)
(* for any finite set of goroutines.  The invariant is inductive as it     *)
(* stands; what the proofs need is how the sizes of the sets of goroutines *)
(* change when one goroutine goes from one place to another.               *)

MutexLabels == {"out", "acquire", "in", "release"}

\* The goroutines that f places at a label, and how many there are at each.
At(f, label) == {g \in MutexGs : f[g] = label}
Count(f) == [label \in MutexLabels |-> Cardinality(At(f, label))]

\* The places have sizes, and an empty place is one of size 0.
LEMMA Sizes ==
  ASSUME MutexAssumption, NEW f \in [MutexGs -> MutexLabels]
  PROVE  /\ Count(f) \in [MutexLabels -> Nat]
         /\ \A label \in MutexLabels : IsFiniteSet(At(f, label))
         /\ \A label \in MutexLabels : At(f, label) = {} <=> Count(f)[label] = 0
<1>1. \A label \in MutexLabels : IsFiniteSet(At(f, label))
  BY FiniteParts DEF MutexAssumption, At
<1>2. \A label \in MutexLabels : Cardinality(At(f, label)) \in Nat
  BY <1>1, CardNat
<1>3. \A label \in MutexLabels : At(f, label) = {} <=> Cardinality(At(f, label)) = 0
  BY <1>1, CardEmpty, CardNat
<1> QED
  BY <1>1, <1>2, <1>3 DEF Count

\* One goroutine moves: its old place has one goroutine less, its new place one
\* more, and nothing changes elsewhere.
LEMMA Move ==
  ASSUME MutexAssumption,
         NEW f \in [MutexGs -> MutexLabels], NEW g \in MutexGs, NEW dest \in MutexLabels, f[g] # dest
  PROVE  /\ [f EXCEPT ![g] = dest] \in [MutexGs -> MutexLabels]
         /\ Count([f EXCEPT ![g] = dest]) = [Count(f) EXCEPT ![dest] = @ + 1, ![f[g]] = @ - 1]
<1> DEFINE e == [f EXCEPT ![g] = dest]
<1>1. e \in [MutexGs -> MutexLabels]
  OBVIOUS
<1>2. \A label \in MutexLabels : IsFiniteSet(At(f, label))
  BY Sizes
<1>3. At(e, dest) = At(f, dest) \cup {g} /\ g \notin At(f, dest)
  BY DEF At
<1>4. At(e, f[g]) = At(f, f[g]) \ {g} /\ g \in At(f, f[g])
  BY DEF At
<1>5. \A label \in MutexLabels \ {dest, f[g]} : At(e, label) = At(f, label)
  BY DEF At
<1> HIDE DEF e
<1>6. Cardinality(At(e, dest)) = Cardinality(At(f, dest)) + 1
  BY <1>2, <1>3, CardAdd, Zenon
<1>7. Cardinality(At(e, f[g])) = Cardinality(At(f, f[g])) - 1
  BY <1>2, <1>4, CardRemove, Zenon
<1>8. Count(e) = [Count(f) EXCEPT ![dest] = @ + 1, ![f[g]] = @ - 1]
  BY <1>5, <1>6, <1>7 DEF Count
<1> QED
  BY <1>1, <1>8 DEF e

\* The invariant as a statement about the counts.
Right(key_, sema_, c) == /\ key_ = c["in"] + c["acquire"]
                         /\ c["in"] + c["release"] + sema_ = (IF key_ = 0 THEN 0 ELSE 1)

\* It says the same, before and after a step.
LEMMA RightOfPlaces == /\ OneRight <=> Right(key, mutexSema, Count(mutexPc))
                       /\ OneRight' <=> Right(key', mutexSema', Count(mutexPc'))
  BY Zenon DEF OneRight, MutexIn, At, Count, MutexLabels, Right

\* Natural numbers with the sum 0.
LEMMA NothingLeft ==
  ASSUME NEW a \in Nat, NEW e \in Nat, NEW c \in Nat, NEW d \in Nat, a + e = 0, a + c + d = 0
  PROVE  a = 0 /\ e = 0 /\ c = 0 /\ d = 0
  OBVIOUS

-----------------------------------------------------------------------------
\* One step of a goroutine keeps the right to the mutex.
LEMMA MutexStep ==
  ASSUME MutexAssumption, MutexSound, [SyncMutexNext]_mutexVars
  PROVE  MutexSound'
<1> DEFINE n == Count(mutexPc)
           m == Count(mutexPc')
<1>1. /\ key \in Nat /\ mutexSema \in Nat /\ mutexPc \in [MutexGs -> MutexLabels]
      /\ Right(key, mutexSema, n)
  BY RightOfPlaces DEF MutexSound, SyncMutexTypeOK, MutexLabels
<1>p. "out" \in MutexLabels /\ "acquire" \in MutexLabels /\ "in" \in MutexLabels /\ "release" \in MutexLabels
  BY DEF MutexLabels
<1>2. n \in [MutexLabels -> Nat] /\ n["in"] \in Nat /\ n["acquire"] \in Nat /\ n["release"] \in Nat
  BY <1>1, <1>p, Sizes
<1>3. SUFFICES /\ key' \in Nat /\ mutexSema' \in Nat /\ mutexPc' \in [MutexGs -> MutexLabels]
               /\ Right(key', mutexSema', m)
  BY RightOfPlaces DEF MutexSound, SyncMutexTypeOK, MutexLabels
<1>4. ASSUME NEW g \in MutexGs, MutexLock(g) PROVE <1>3!1
  <2>1. CASE key = 0
    <3>1. mutexPc' \in [MutexGs -> MutexLabels] /\ m = [n EXCEPT !["in"] = @ + 1, !["out"] = @ - 1]
      BY <1>1, <1>4, <1>p, <2>1, Move, Zenon DEF MutexLock
    <3> HIDE DEF n, m
    <3>2. m["in"] = n["in"] + 1 /\ m["acquire"] = n["acquire"] /\ m["release"] = n["release"]
      BY <1>2, <3>1 DEF MutexLabels
    <3>3. n["in"] = 0 /\ n["acquire"] = 0 /\ n["release"] = 0 /\ mutexSema = 0
      <4>1. n["in"] + n["acquire"] = 0 /\ n["in"] + n["release"] + mutexSema = 0
        BY <1>1, <2>1 DEF Right
      <4>2. n["in"] \in Nat /\ n["acquire"] \in Nat /\ n["release"] \in Nat /\ mutexSema \in Nat
        BY <1>1, <1>2
      <4> QED
        BY <4>1, <4>2, NothingLeft, Zenon
    <3> QED
      <4>1. key' = 1 /\ mutexSema' = 0 /\ m["in"] = 1 /\ m["acquire"] = 0 /\ m["release"] = 0
        BY <1>4, <2>1, <3>2, <3>3 DEF MutexLock
      <4> QED
        BY <3>1, <4>1 DEF Right
  <2>2. CASE key # 0
    <3>1. mutexPc' \in [MutexGs -> MutexLabels] /\ m = [n EXCEPT !["acquire"] = @ + 1, !["out"] = @ - 1]
      BY <1>1, <1>4, <1>p, <2>2, Move, Zenon DEF MutexLock
    <3> HIDE DEF n, m
    <3>2. m["in"] = n["in"] /\ m["acquire"] = n["acquire"] + 1 /\ m["release"] = n["release"]
      BY <1>2, <3>1 DEF MutexLabels
    <3> QED
      BY <1>1, <1>2, <1>4, <2>2, <3>1, <3>2 DEF MutexLock, Right
  <2> QED
    BY <2>1, <2>2
<1>5. ASSUME NEW g \in MutexGs, MutexAcquire(g) PROVE <1>3!1
  <2>1. mutexPc' \in [MutexGs -> MutexLabels] /\ m = [n EXCEPT !["in"] = @ + 1, !["acquire"] = @ - 1]
    BY <1>1, <1>5, <1>p, Move, Zenon DEF MutexAcquire
  <2> HIDE DEF n, m
  <2>2. m["in"] = n["in"] + 1 /\ m["acquire"] = n["acquire"] - 1 /\ m["release"] = n["release"]
    BY <1>2, <2>1 DEF MutexLabels
  <2> QED
    BY <1>1, <1>2, <1>5, <1>p, <2>1, <2>2 DEF MutexAcquire, Right
<1>6. ASSUME NEW g \in MutexGs, MutexRelease(g) PROVE <1>3!1
  <2>1. mutexPc' \in [MutexGs -> MutexLabels] /\ m = [n EXCEPT !["out"] = @ + 1, !["release"] = @ - 1]
    BY <1>1, <1>6, <1>p, Move, Zenon DEF MutexRelease
  <2> HIDE DEF n, m
  <2>2. m["in"] = n["in"] /\ m["acquire"] = n["acquire"] /\ m["release"] = n["release"] - 1
    BY <1>2, <2>1 DEF MutexLabels
  <2> QED
    BY <1>1, <1>2, <1>6, <1>p, <2>1, <2>2 DEF MutexRelease, Right
<1>7. ASSUME NEW g \in MutexGs, NEW h \in MutexGs, MutexUnlock(g, h) PROVE <1>3!1
  <2> DEFINE mid == [mutexPc EXCEPT ![h] = "out"]
             move == Count(mid)
  <2>0. mutexPc[h] = "in" /\ mutexPc[h] # "out"
    BY <1>7 DEF MutexUnlock
  <2>1. mid \in [MutexGs -> MutexLabels] /\ move = [n EXCEPT !["out"] = @ + 1, !["in"] = @ - 1]
    BY <1>1, <1>p, <2>0, Move, Zenon
  <2>2. mid[g] = "out"
    BY <1>1, <1>7 DEF MutexUnlock
  <2>n. n["in"] # 0
    <3>1. At(mutexPc, "in") # {}
      BY <2>0 DEF At
    <3> QED
      BY <1>1, <1>p, <3>1, Sizes
  <2> HIDE DEF n, move
  <2>3. /\ move \in [MutexLabels -> Int]
        /\ move["in"] = n["in"] - 1 /\ move["acquire"] = n["acquire"] /\ move["release"] = n["release"]
    BY <1>2, <2>1 DEF MutexLabels
  <2>4. CASE key = 1
    <3>1. mutexPc' = mid
      BY <1>1, <1>7, <2>2, <2>4, Zenon DEF MutexUnlock
    <3>2. m = move
      BY <3>1 DEF move
    <3> HIDE DEF m, mid
    <3> QED
      BY <1>1, <1>2, <1>7, <2>1, <2>3, <2>4, <3>1, <3>2 DEF MutexUnlock, Right
  <2>5. CASE key # 1
    <3>1. mutexPc' = [mid EXCEPT ![g] = "release"]
      BY <1>7, <2>5 DEF MutexUnlock
    <3> HIDE DEF mid
    <3>2. mutexPc' \in [MutexGs -> MutexLabels] /\ m = [move EXCEPT !["release"] = @ + 1, !["out"] = @ - 1]
      <4>1. mid[g] # "release"
        BY <2>2
      <4>2. /\ [mid EXCEPT ![g] = "release"] \in [MutexGs -> MutexLabels]
            /\ Count([mid EXCEPT ![g] = "release"])
                 = [Count(mid) EXCEPT !["release"] = @ + 1, ![mid[g]] = @ - 1]
        BY <1>p, <2>1, <4>1, Move, Zenon
      <4> QED
        BY <2>2, <3>1, <4>2 DEF move
    <3> HIDE DEF m
    <3>3. m["in"] = move["in"] /\ m["acquire"] = move["acquire"] /\ m["release"] = move["release"] + 1
      BY <2>3, <3>2 DEF MutexLabels
    <3> QED
      BY <1>1, <1>2, <1>7, <2>n, <2>3, <2>5, <3>2, <3>3 DEF MutexUnlock, Right
  <2> QED
    BY <2>4, <2>5
<1>8. CASE UNCHANGED mutexVars
  BY <1>1, <1>8 DEF mutexVars
<1> QED
  BY <1>4, <1>5, <1>6, <1>7, <1>8 DEF SyncMutexNext

\* A sync.Mutex neither loses nor doubles the right to it, for any number of
\* goroutines, also when one unlocks what another has locked (mutex.go).
THEOREM MutexIsSound == ASSUME MutexAssumption PROVE SyncMutexSpec => []MutexSound
<1>1. SyncMutexInit => MutexSound
  <2> SUFFICES ASSUME SyncMutexInit PROVE MutexSound
    OBVIOUS
  <2>1. MutexIn("in") = {} /\ MutexIn("acquire") = {} /\ MutexIn("release") = {}
    BY DEF SyncMutexInit, MutexIn
  <2>2. Cardinality(MutexIn("in")) = 0 /\ Cardinality(MutexIn("acquire")) = 0
        /\ Cardinality(MutexIn("release")) = 0
    BY <2>1, CardEmpty, Zenon
  <2> QED
    BY <2>1, <2>2 DEF SyncMutexInit, MutexSound, SyncMutexTypeOK, OneRight
<1>2. MutexSound /\ [SyncMutexNext]_mutexVars => MutexSound'
  BY MutexStep
<1> QED
  BY <1>1, <1>2, PTL DEF SyncMutexSpec

-----------------------------------------------------------------------------
\* A step of a goroutine is a step of the mutex that Mutex describes, or changes
\* nothing that its users see.
LEMMA PromiseStep ==
  ASSUME MutexAssumption, MutexSound, [SyncMutexNext]_mutexVars
  PROVE  [Promise!Next]_(Promise!vars)
<1>1. /\ key \in Nat /\ mutexSema \in Nat /\ mutexPc \in [MutexGs -> MutexLabels]
      /\ Right(key, mutexSema, Count(mutexPc))
  BY RightOfPlaces DEF MutexSound, SyncMutexTypeOK, MutexLabels
<1>2. "acquire" \in MutexLabels /\ "in" \in MutexLabels /\ "release" \in MutexLabels
  BY DEF MutexLabels
<1>3. /\ Count(mutexPc)["in"] \in Nat /\ Count(mutexPc)["acquire"] \in Nat /\ Count(mutexPc)["release"] \in Nat
      /\ Count(mutexPc)["in"] = 0 => MutexIn("in") = {}
  BY <1>1, <1>2, Sizes DEF MutexIn, At
<1>4. ASSUME NEW g \in MutexGs, MutexLock(g) PROVE Promise!Enter(g) \/ Promise!Ask(g)
  <2>1. CASE key = 0
    <3>1. MutexIn("in") = {}
      BY <1>1, <1>3, <2>1 DEF Right
    <3> QED
      BY <1>1, <1>4, <2>1, <3>1 DEF MutexLock, MutexIn, Promise!Enter
  <2>2. CASE key # 0
    BY <1>1, <1>4, <2>2 DEF MutexLock, MutexIn, Promise!Ask
  <2> QED
    BY <2>1, <2>2
<1>5. ASSUME NEW g \in MutexGs, MutexAcquire(g) PROVE Promise!Enter(g)
  <2>1. MutexIn("in") = {}
    BY <1>1, <1>3, <1>5 DEF MutexAcquire, Right
  <2> QED
    BY <1>1, <1>5, <2>1 DEF MutexAcquire, MutexIn, Promise!Enter
<1>6. ASSUME NEW g \in MutexGs, MutexRelease(g) PROVE UNCHANGED Promise!vars
  BY <1>1, <1>6 DEF MutexRelease, MutexIn, Promise!vars
<1>7. ASSUME NEW g \in MutexGs, NEW h \in MutexGs, MutexUnlock(g, h) PROVE Promise!Leave(h)
  BY <1>1, <1>7 DEF MutexUnlock, MutexIn, Promise!Leave
<1>8. CASE UNCHANGED mutexVars
  BY <1>8 DEF mutexVars, MutexIn, Promise!vars
<1> QED
  BY <1>4, <1>5, <1>6, <1>7, <1>8 DEF SyncMutexNext, Promise!Next

\* sync.Mutex implements the abstract mutex: Lock lets a goroutine in only when
\* nobody is in, whichever way the steps of the others fall.
THEOREM MutexIsMutex == ASSUME MutexAssumption PROVE SyncMutexSpec => MutexSpec
<1>1. SyncMutexInit => Promise!Init
  BY DEF SyncMutexInit, MutexIn, Promise!Init
<1>2. MutexSound /\ [SyncMutexNext]_mutexVars => [Promise!Next]_(Promise!vars)
  BY PromiseStep
<1> QED
  BY <1>1, <1>2, MutexIsSound, PTL DEF SyncMutexSpec, MutexSpec, Promise!Spec

-----------------------------------------------------------------------------
(* A sync.RWMutex excludes readers from writers and writers from each      *)
(* other, and lets no new reader in past a waiting writer, for any finite  *)
(* set of goroutines.                                                      *)

-----------------------------------------------------------------------------
(* The inductive invariant.  Agreement says that w is locked when somebody *)
(* owns it, but not that there is only one owner.                          *)

\* The goroutine that has w for itself, and the readers having it together.
Owners == RWIn({"LockEnd", "writing", "RUnlockW"})
ReadersOwn == Counted # {} /\ RWIn({"RLockW"}) = {}

\* w has at most one owner; a reader that waits for w is the first and only one.
OneOwner == /\ \A g, h \in Owners : g = h
            /\ ~(Owners # {} /\ ReadersOwn)
            /\ \A g \in RWIn({"RLockW"}) : Counted = {g}

RWInv == RWTypeOK /\ Agreement /\ OneOwner

RWLabels == {"out", "RLockCount", "RLockW", "RLockEnd", "reading",
           "RUnlockW", "LockW", "LockEnd", "writing"}

\* What the invariant says of the count: nobody counted, and one alone.
LEMMA CountOfReaders ==
  ASSUME RWAssumption, readerCount = Cardinality(Counted)
  PROVE  /\ IsFiniteSet(Counted) /\ readerCount \in Nat
         /\ readerCount = 0 <=> Counted = {}
         /\ \A g \in Counted : readerCount = 1 <=> Counted = {g}
<1>1. IsFiniteSet(Counted)
  <2>1. Counted \subseteq RWGs
    BY DEF Counted, RWIn
  <2> QED
    BY <2>1, FiniteParts, Zenon DEF RWAssumption
<1>2. readerCount \in Nat /\ (readerCount = 0 <=> Counted = {})
  BY <1>1, CardNat, CardEmpty
<1>3. ASSUME NEW g \in Counted PROVE readerCount = 1 <=> Counted = {g}
  <2>1. Cardinality(Counted \ {g}) = readerCount - 1 /\ IsFiniteSet(Counted \ {g})
    BY <1>1, <1>3, CardRemove
  <2>2. Counted \ {g} = {} <=> readerCount - 1 = 0
    BY <2>1, CardEmpty, CardNat, Zenon
  <2> QED
    BY <1>2, <1>3, <2>2
<1> QED
  BY <1>1, <1>2, <1>3

\* The steps that count and discount a reader keep the count right.
LEMMA CountKept ==
  ASSUME RWAssumption, RWInv, NEW g \in RWGs, RWStep(g) \/ Begin(g)
  PROVE  readerCount' = Cardinality(Counted')
<1>1. rwPc \in [RWGs -> RWLabels] /\ readerCount = Cardinality(Counted) /\ IsFiniteSet(Counted)
  BY CountOfReaders DEF RWInv, RWTypeOK, Agreement, RWLabels
<1>2. CASE RLockCount(g)
  <2>1. Counted' = Counted \cup {g} /\ g \notin Counted /\ readerCount' = readerCount + 1
    BY <1>1, <1>2 DEF RLockCount, RWGoto, Counted, RWIn
  <2> QED
    BY <1>1, <2>1, CardAdd
<1>3. CASE RUnlock(g)
  <2>1. Counted' = Counted \ {g} /\ g \in Counted /\ readerCount' = readerCount - 1
    BY <1>1, <1>3 DEF RUnlock, RWGoto, Counted, RWIn
  <2> QED
    BY <1>1, <2>1, CardRemove
<1>4. CASE RLock(g) \/ RLockW(g) \/ RLockEnd(g)
  <2>1. Counted' = Counted /\ readerCount' = readerCount
    BY <1>1, <1>4 DEF RLock, RLockW, RLockEnd, RWGoto, Counted, RWIn
  <2> QED
    BY <1>1, <2>1
<1>5. CASE RUnlockW(g) \/ RWLock(g) \/ LockW(g) \/ LockEnd(g) \/ RWUnlock(g)
  <2>1. Counted' = Counted /\ readerCount' = readerCount
    BY <1>1, <1>5
       DEF RUnlockW, RWLock, LockW, LockEnd, RWUnlock, RWGoto, Counted, RWIn
  <2> QED
    BY <1>1, <2>1
<1> QED
  BY <1>2, <1>3, <1>4, <1>5 DEF RWStep, Begin

\* The steps keep the owner of r unique and r locked for it.
LEMMA HolderKept ==
  ASSUME RWInv, NEW g \in RWGs, RWStep(g) \/ Begin(g)
  PROVE  (\A x, y \in HoldR : x = y)' /\ (r <=> HoldR # {})'
<1>1. rwPc \in [RWGs -> RWLabels] /\ r \in BOOLEAN /\ (\A x, y \in HoldR : x = y) /\ (r <=> HoldR # {})
  BY DEF RWInv, RWTypeOK, Agreement, RWLabels
<1>2. CASE RLock(g) \/ RWLock(g)
  <2>1. HoldR = {} /\ HoldR' = {g} /\ r'
    BY <1>1, <1>2 DEF RLock, RWLock, RWGoto, HoldR, RWIn
  <2> QED
    BY <2>1
<1>3. CASE RLockEnd(g) \/ LockEnd(g)
  <2>1. HoldR' = {} /\ ~r'
    BY <1>1, <1>3 DEF RLockEnd, LockEnd, RWGoto, HoldR, RWIn
  <2> QED
    BY <2>1
<1>4. CASE RLockCount(g) \/ RLockW(g) \/ LockW(g)
  <2>1. HoldR' = HoldR /\ r' = r
    BY <1>1, <1>4 DEF RLockCount, RLockW, LockW, RWGoto, HoldR, RWIn
  <2> QED
    BY <1>1, <2>1
<1>5. CASE RUnlock(g) \/ RUnlockW(g) \/ RWUnlock(g)
  <2>1. HoldR' = HoldR /\ r' = r
    BY <1>1, <1>5 DEF RUnlock, RUnlockW, RWUnlock, RWGoto, HoldR, RWIn
  <2> QED
    BY <1>1, <2>1
<1> QED
  BY <1>2, <1>3, <1>4, <1>5 DEF RWStep, Begin

\* w has one owner and is locked just when it has.
OwnerOK == OneOwner /\ (w <=> (Owners # {} \/ ReadersOwn))

\* The steps keep the owner of w unique and w locked for it.
LEMMA OwnerKept ==
  ASSUME RWAssumption, RWInv, NEW g \in RWGs, RWStep(g) \/ Begin(g)
  PROVE  OwnerOK'
<1> DEFINE First == RWIn({"RLockW"})
<1>1. /\ rwPc \in [RWGs -> RWLabels] /\ w \in BOOLEAN
      /\ \A x, y \in Owners : x = y
      /\ ~(Owners # {} /\ Counted # {} /\ First = {})
      /\ \A x \in First : Counted = {x}
      /\ w <=> (Owners # {} \/ (Counted # {} /\ First = {}))
  BY DEF RWInv, RWTypeOK, Agreement, OneOwner, Owners, ReadersOwn, RWLabels
<1>2. /\ First \subseteq Counted
      /\ readerCount = 0 <=> Counted = {}
      /\ \A x \in Counted : readerCount = 1 <=> Counted = {x}
  BY CountOfReaders DEF RWInv, Agreement, Counted, RWIn
<1>3. SUFFICES /\ \A x, y \in Owners' : x = y
               /\ ~(Owners' # {} /\ Counted' # {} /\ First' = {})
               /\ \A x \in First' : Counted' = {x}
               /\ w' <=> (Owners' # {} \/ (Counted' # {} /\ First' = {}))
  BY DEF OwnerOK, OneOwner, ReadersOwn
<1>4. CASE RLock(g) \/ RWLock(g) \/ RLockEnd(g) \/ LockEnd(g)
  <2>1. CASE RLock(g) \/ RWLock(g)
    <3>1. Owners' = Owners /\ Counted' = Counted /\ First' = First /\ w' = w
      BY <1>1, <2>1 DEF RLock, RWLock, RWGoto, Owners, Counted, RWIn
    <3> QED
      BY <1>1, <3>1
  <2>2. CASE RLockEnd(g) \/ LockEnd(g)
    <3>1. Owners' = Owners /\ Counted' = Counted /\ First' = First /\ w' = w
      BY <1>1, <2>2 DEF RLockEnd, LockEnd, RWGoto, Owners, Counted, RWIn
    <3> QED
      BY <1>1, <3>1
  <2> QED
    BY <1>4, <2>1, <2>2
<1>5. CASE RLockCount(g)
  <2>1. First = {}
    <3>1. \A x \in First : x \in HoldR /\ g \in HoldR /\ x # g
      BY <1>1, <1>5 DEF RLockCount, RWGoto, HoldR, RWIn
    <3> QED
      BY <3>1 DEF RWInv, Agreement
  <2>2. w' = w
    BY <1>5 DEF RLockCount
  <2>3. CASE readerCount = 0
    <3>1. rwPc[g] = "RLockCount" /\ rwPc' = [rwPc EXCEPT ![g] = "RLockW"]
      BY <1>5, <2>3 DEF RLockCount, RWGoto
    <3>2. Owners' = Owners /\ Counted' = Counted \cup {g} /\ First' = First \cup {g}
      <4>1. rwPc \in [RWGs -> RWLabels]
        BY <1>1
      <4>2. Owners' = Owners
        BY <3>1, <4>1 DEF Owners, RWIn
      <4>3. Counted' = Counted \cup {g}
        BY <3>1, <4>1 DEF Counted, RWIn
      <4> QED
        BY <3>1, <4>1, <4>2, <4>3 DEF RWIn
    <3> QED
      BY <1>1, <1>2, <2>1, <2>2, <2>3, <3>2
  <2>4. CASE readerCount # 0
    <3>1. rwPc[g] = "RLockCount" /\ rwPc' = [rwPc EXCEPT ![g] = "RLockEnd"]
      BY <1>5, <2>4 DEF RLockCount, RWGoto
    <3>2. Owners' = Owners /\ Counted' = Counted \cup {g} /\ First' = First
      <4>1. rwPc \in [RWGs -> RWLabels]
        BY <1>1
      <4>2. Owners' = Owners
        BY <3>1, <4>1 DEF Owners, RWIn
      <4>3. Counted' = Counted \cup {g}
        BY <3>1, <4>1 DEF Counted, RWIn
      <4> QED
        BY <3>1, <4>1, <4>2, <4>3 DEF RWIn
    <3> QED
      BY <1>1, <1>2, <2>1, <2>2, <2>4, <3>2
  <2> QED
    BY <2>3, <2>4
<1>6. CASE RLockW(g)
  <2>1. Counted = {g} /\ Owners = {}
    BY <1>1, <1>6 DEF RLockW, RWGoto, RWIn
  <2>2. Owners' = Owners /\ Counted' = Counted /\ w' /\ First' = First \ {g}
    BY <1>1, <1>6 DEF RLockW, RWGoto, Owners, Counted, RWIn
  <2> QED
    BY <1>2, <2>1, <2>2
<1>7. CASE RUnlock(g)
  <2>1. g \in Counted /\ First = {} /\ Owners = {}
    <3>1. g \in Counted /\ g \notin First
      BY <1>7, ZenonT(60) DEF RUnlock, RWGoto, Counted, RWIn
    <3>2. ASSUME NEW x \in First PROVE FALSE
      <4>1. Counted = {x}
        BY <1>1, <3>2
      <4> QED
        BY <3>1, <3>2, <4>1
    <3>3. Counted # {} /\ First = {}
      BY <3>1, <3>2
    <3> QED
      BY <1>1, <3>1, <3>3
  <2>2. Counted' = Counted \ {g} /\ First' = First /\ w' = w
    BY <1>1, <1>7 DEF RUnlock, RWGoto, Counted, RWIn
  <2>3. Owners' = IF readerCount = 1 THEN Owners \cup {g} ELSE Owners
    BY <1>1, <1>7 DEF RUnlock, RWGoto, Owners, RWIn
  <2> QED
    BY <1>1, <1>2, <2>1, <2>2, <2>3
<1>8. CASE RUnlockW(g) \/ RWUnlock(g)
  <2>1. g \in Owners
    BY <1>8 DEF RUnlockW, RWUnlock, RWGoto, Owners, RWIn
  <2>2. Owners' = Owners \ {g} /\ Counted' = Counted /\ First' = First /\ ~w'
    BY <1>1, <1>8 DEF RUnlockW, RWUnlock, RWGoto, Owners, Counted, RWIn
  <2> QED
    BY <1>1, <2>1, <2>2
<1>9. CASE LockW(g)
  <2>1. rwPc[g] = "LockW" /\ rwPc' = [rwPc EXCEPT ![g] = "LockEnd"]
    BY <1>9 DEF LockW, RWGoto
  <2>2. Owners' = Owners \cup {g}
    BY <1>1, <2>1, ZenonT(60) DEF Owners, RWIn
  <2>4. Counted' = Counted /\ First' = First
    BY <1>1, <2>1, ZenonT(60) DEF Counted, RWIn
  <2>3. w' /\ ~w
    BY <1>9 DEF LockW
  <2> QED
    BY <1>1, <2>2, <2>3, <2>4
<1> QED
  BY <1>4, <1>5, <1>6, <1>7, <1>8, <1>9, Zenon DEF RWStep, Begin

\* The steps keep the types.
LEMMA TypesKept ==
  ASSUME RWAssumption, RWInv, NEW g \in RWGs, RWStep(g) \/ Begin(g)
  PROVE  RWTypeOK'
<1>1. RWTypeOK /\ rwPc \in [RWGs -> RWLabels]
  BY DEF RWInv, RWTypeOK, RWLabels
<1>2. \E dest \in RWLabels : rwPc' = [rwPc EXCEPT ![g] = dest]
  BY Zenon
     DEF RWStep, Begin, RLock, RLockCount, RLockW, RLockEnd, RUnlock, RUnlockW,
         RWLock, LockW, LockEnd, RWUnlock, RWGoto, RWLabels
<1>3. rwPc' \in [RWGs -> RWLabels]
  BY <1>1, <1>2
<1>4. w' \in BOOLEAN /\ r' \in BOOLEAN
  BY <1>1, Zenon
     DEF RWStep, Begin, RLock, RLockCount, RLockW, RLockEnd, RUnlock, RUnlockW,
                    RWLock, LockW, LockEnd, RWUnlock, RWTypeOK
<1>5. readerCount' \in Nat
  <2>1. readerCount' = Cardinality(Counted') /\ IsFiniteSet(Counted')
    <3>1. Counted' \subseteq RWGs
      BY DEF Counted, RWIn
    <3> QED
      BY <3>1, CountKept, FiniteParts, Zenon DEF RWAssumption
  <2> QED
    BY <2>1, CardNat, Zenon
<1> QED
  BY <1>3, <1>4, <1>5 DEF RWTypeOK, RWLabels

-----------------------------------------------------------------------------
\* The inductive invariant holds in every reachable state.
LEMMA RWMutexInvariant == ASSUME RWAssumption PROVE RWSpec => []RWInv
<1>1. RWInit => RWInv
  <2> SUFFICES ASSUME RWInit PROVE RWInv
    OBVIOUS
  <2>1. \A labels : "out" \notin labels => RWIn(labels) = {}
    BY DEF RWInit, RWIn
  <2>2. Counted = {} /\ HoldR = {} /\ Owners = {} /\ RWIn({"RLockW"}) = {}
    BY <2>1 DEF Counted, HoldR, Owners
  <2>3. RWIn({"LockEnd", "writing", "RUnlockW"}) = {}
    BY <2>2 DEF Owners
  <2>4. RWTypeOK
    BY Zenon DEF RWInit, RWTypeOK
  <2> QED
    BY <2>2, <2>3, <2>4, CardEmpty, CardNat
       DEF RWInit, RWInv, Agreement, OneOwner, ReadersOwn
<1>2. RWInv /\ [RWNext]_rwVars => RWInv'
  <2> SUFFICES ASSUME RWInv, [RWNext]_rwVars PROVE RWInv'
    OBVIOUS
  <2>1. ASSUME NEW g \in RWGs, RWStep(g) \/ Begin(g) PROVE RWInv'
    BY <2>1, CountKept, HolderKept, OwnerKept, TypesKept, Zenon
       DEF RWInv, Agreement, OwnerOK, Owners, ReadersOwn
  <2>2. CASE UNCHANGED rwVars
    BY <2>2, Zenon
       DEF rwVars, RWInv, RWTypeOK, Agreement, OneOwner, Owners, ReadersOwn, Counted, HoldR, RWIn
  <2> QED
    BY <2>1, <2>2 DEF RWNext
<1> QED
  BY <1>1, <1>2, PTL DEF RWSpec

\* A writer of a sync.RWMutex is alone and readers share, for any number of
\* goroutines: the two mutexes and the count of rwmutex.go agree with where the
\* goroutines are, in every order of the readers' first and last steps.  No
\* reader starts while a goroutine waits in Lock for w, because both need r (the
\* comment at rwmutex.go's Lock).
THEOREM RWMutexIsSound == ASSUME RWAssumption PROVE RWSpec => RWMutexSound
<1>1. RWInv => Exclusion
  <2> SUFFICES ASSUME RWInv PROVE Exclusion
    OBVIOUS
  <2>1. \A g, h \in RWIn({"writing"}) : g = h
    BY DEF RWInv, OneOwner, Owners, RWIn
  <2>2. ASSUME RWIn({"writing"}) # {}, NEW g \in RWIn({"reading"}) PROVE FALSE
    <3>1. Owners # {} /\ g \in Counted /\ g \notin RWIn({"RLockW"})
      BY <2>2 DEF Owners, Counted, RWIn
    <3> QED
      BY <3>1 DEF RWInv, OneOwner, ReadersOwn
  <2> QED
    BY <2>1, <2>2 DEF Exclusion
<1>2. RWInv => RWMutexKept
  BY <1>1 DEF RWInv, RWMutexKept
<1>3. RWInv /\ [RWNext]_rwVars => [ReaderStep]_rwVars
  <2> SUFFICES ASSUME RWInv, RWNext, RWIn({"LockW"}) # {}, RWIn({"LockW"})' # {},
                      NEW x \in RWIn({"reading"})'
               PROVE  x \in RWIn({"reading"})
    BY DEF ReaderStep
  <2>1. PICK g \in RWGs : RWStep(g) \/ Begin(g)
    BY DEF RWNext
  <2>2. rwPc \in [RWGs -> RWLabels]
    BY DEF RWInv, RWTypeOK, RWLabels
  <2>3. ~RLockEnd(g)
    <3>1. RLockEnd(g) => \A y \in RWIn({"LockW"}) : y \in HoldR /\ g \in HoldR /\ y # g
      BY DEF RLockEnd, RWGoto, HoldR, RWIn
    <3> QED
      BY <3>1 DEF RWInv, Agreement
  <2>4. \E from \in RWLabels, dest \in RWLabels \ {"reading"} : RWGoto(g, from, dest)
    BY <2>1, <2>3, Zenon
       DEF RWStep, Begin, RLock, RLockCount, RLockW, RUnlock, RUnlockW,
                     RWLock, LockW, LockEnd, RWUnlock, RWLabels, RWGoto
  <2> QED
    BY <2>2, <2>4 DEF RWGoto, RWIn
<1> QED
  BY <1>2, <1>3, RWMutexInvariant, PTL DEF RWSpec, RWMutexSound

-----------------------------------------------------------------------------
(* Wait neither returns early nor sleeps for ever, for any finite set of   *)
(* goroutines and any number of rounds in which a WaitGroup is used again. *)

-----------------------------------------------------------------------------
(* The inductive invariant.  WaitIsHonest speaks only of semaphores with a *)
(* token; whether it stays true depends on which semaphores are old, and   *)
(* on what is known of those not made yet.                                 *)

\* There is a semaphore just when somebody waits for the counter, and none has
\* been used before it was made.
SemaOK == /\ groupSema = NoSema <=> waiters = 0
          /\ groupSema <= made
          /\ \A g \in GroupGs : waitsOn[g] <= made

\* Whoever waits on a semaphore that has been released has seen the counter zero.
OldIsHonest == \A g \in GroupGs : waitsOn[g] # NoSema /\ waitsOn[g] # groupSema => sawZero[g]

GroupInv == GroupTypeOK /\ EveryWaiterReleased /\ SemaOK /\ OldIsHonest

\* The goroutines that f places on a semaphore.
On(f, s) == {g \in GroupGs : f[g] = s}

\* They can be counted, and there are none when the count is 0.
LEMMA WaitingCounts ==
  ASSUME WaitGroupAssumption
  PROVE  \A f, s : /\ IsFiniteSet(On(f, s)) /\ Cardinality(On(f, s)) \in Nat
                   /\ On(f, s) = {} <=> Cardinality(On(f, s)) = 0
<1>1. \A f, s : IsFiniteSet(On(f, s))
  BY FiniteParts, Zenon DEF WaitGroupAssumption, On
<1> QED
  BY <1>1, CardNat, CardEmpty

\* The invariant's first part, in these terms, before and after a step.
LEMMA ReleasedOn ==
  /\ EveryWaiterReleased <=>
       \A s \in Semas :
         /\ s = groupSema => waiters = Cardinality(On(waitsOn, s)) /\ tokens[s] = 0 /\ counter # 0
         /\ s # groupSema => tokens[s] = Cardinality(On(waitsOn, s))
  /\ EveryWaiterReleased' <=>
       \A s \in Semas :
         /\ s = groupSema' => waiters' = Cardinality(On(waitsOn', s)) /\ tokens'[s] = 0 /\ counter' # 0
         /\ s # groupSema' => tokens'[s] = Cardinality(On(waitsOn', s))
  BY Zenon DEF EveryWaiterReleased, GroupWaitersOf, On

\* Add, with and without a release of the waiters.
LEMMA AddKeeps ==
  ASSUME WaitGroupAssumption, GroupInv, NEW g \in GroupGs, NEW delta \in {-1, 1, 2}, Add(g, delta)
  PROVE  GroupInv'
<1> DEFINE n == counter + delta
<1>1. /\ n \in 0 .. MaxCounter /\ counter' = n /\ made' = made /\ waitsOn' = waitsOn
      /\ sawZero' = [h \in GroupGs |-> sawZero[h] \/ (n = 0 /\ waitsOn[h] # NoSema)]
  BY Zenon DEF Add
<1>3. GroupTypeOK /\ EveryWaiterReleased /\ SemaOK /\ OldIsHonest
  BY DEF GroupInv
<1>4. counter' \in 0 .. MaxCounter /\ sawZero' \in [GroupGs -> BOOLEAN]
  BY <1>1, Zenon
<1>5. CASE n = 0 /\ waiters > 0
  <2>1. tokens' = [tokens EXCEPT ![groupSema] = @ + waiters] /\ waiters' = 0 /\ groupSema' = NoSema
    BY <1>5, Zenon DEF Add
  <2>2. groupSema \in Semas /\ waiters \in Nat /\ tokens \in [Semas -> Nat]
    BY <1>3, <1>5 DEF GroupTypeOK, SemaOK
  <2>3. GroupTypeOK'
    BY <1>1, <1>3, <1>4, <2>1, <2>2 DEF GroupTypeOK
  <2>4. EveryWaiterReleased'
    <3> SUFFICES ASSUME NEW s \in Semas
                 PROVE  s # NoSema /\ tokens'[s] = Cardinality(On(waitsOn, s))
      BY <1>1, <2>1, ReleasedOn, Zenon
    <3>1. s # NoSema
      BY DEF Semas, NoSema
    <3>2. CASE s = groupSema
      <4>1. waiters = Cardinality(On(waitsOn, s)) /\ tokens[s] = 0
        BY <1>3, <3>2, ReleasedOn, Zenon
      <4> QED
        BY <2>1, <2>2, <3>1, <3>2, <4>1
    <3>3. CASE s # groupSema
      <4>1. tokens[s] = Cardinality(On(waitsOn, s))
        BY <1>3, <3>3, ReleasedOn, Zenon
      <4> QED
        BY <2>1, <2>2, <3>1, <3>3, <4>1
    <3> QED
      BY <3>1, <3>2, <3>3
  <2>5. SemaOK'
    BY <1>1, <1>3, <2>1 DEF SemaOK, GroupTypeOK, NoSema
  <2>6. OldIsHonest'
    BY <1>1, <1>5, Zenon DEF OldIsHonest
  <2> QED
    BY <2>3, <2>4, <2>5, <2>6 DEF GroupInv
<1>6. CASE ~(n = 0 /\ waiters > 0)
  <2>1. tokens' = tokens /\ waiters' = waiters /\ groupSema' = groupSema
    BY <1>6, Zenon DEF Add
  <2>2. GroupTypeOK'
    BY <1>1, <1>3, <1>4, <2>1 DEF GroupTypeOK
  <2>3. EveryWaiterReleased'
    <3>1. groupSema \in Semas => waiters > 0
      BY <1>3 DEF SemaOK, GroupTypeOK, Semas, NoSema
    <3>2. groupSema \in Semas => counter' # 0
      BY <1>1, <1>6, <3>1, Zenon
    <3> QED
      BY <1>1, <1>3, <2>1, <3>2, ReleasedOn, Zenon
  <2>4. SemaOK'
    BY <1>1, <1>3, <2>1, Zenon DEF SemaOK
  <2>5. OldIsHonest'
    BY <1>1, <1>3, <2>1, Zenon DEF OldIsHonest
  <2> QED
    BY <2>2, <2>3, <2>4, <2>5 DEF GroupInv
<1> QED
  BY <1>5, <1>6

\* Wait queues a goroutine on the semaphore of this round, made if necessary.
LEMMA WaitKeeps ==
  ASSUME WaitGroupAssumption, GroupInv, NEW g \in GroupGs, GroupWait(g)
  PROVE  GroupInv'
<1>1. GroupTypeOK /\ EveryWaiterReleased /\ SemaOK /\ OldIsHonest
  BY DEF GroupInv
<1>2. /\ waitsOn[g] = NoSema /\ counter # 0 /\ waiters' = waiters + 1
      /\ waitsOn' = [waitsOn EXCEPT ![g] = groupSema']
      /\ counter' = counter /\ tokens' = tokens /\ sawZero' = sawZero
  BY DEF GroupWait
<1>3. /\ groupSema' \in Semas /\ made' \in 0 .. MaxGroupSemas /\ groupSema' <= made' /\ made <= made'
      /\ groupSema # NoSema => groupSema' = groupSema
      /\ groupSema = NoSema => groupSema' = made + 1
  BY <1>1 DEF GroupWait, GroupTypeOK, Semas, NoSema, SemaOK, WaitGroupAssumption
<1>4. groupSema' # NoSema /\ made \in Nat /\ groupSema' \in Nat
  BY <1>1, <1>3 DEF Semas, NoSema, GroupTypeOK
<1>t. waitsOn \in [GroupGs -> Semas \cup {NoSema}]
  BY <1>1 DEF GroupTypeOK
<1>5. /\ On(waitsOn', groupSema') = On(waitsOn, groupSema') \cup {g} /\ g \notin On(waitsOn, groupSema')
      /\ \A s \in Semas \ {groupSema'} : On(waitsOn', s) = On(waitsOn, s)
  <2>1. \A s \in Semas : s # NoSema
    BY DEF Semas, NoSema
  <2> QED
    BY <1>2, <1>4, <1>t, <2>1 DEF On
<1>6. Cardinality(On(waitsOn', groupSema')) = Cardinality(On(waitsOn, groupSema')) + 1
  BY <1>5, WaitingCounts, CardAdd, Zenon
<1>7. Cardinality(On(waitsOn, groupSema')) = waiters /\ tokens[groupSema'] = 0
  <2>1. CASE groupSema # NoSema
    BY <1>1, <1>3, <2>1, ReleasedOn, Zenon
  <2>2. CASE groupSema = NoSema
    <3>1. On(waitsOn, groupSema') = {}
      BY <1>1, <1>3, <1>t, <2>2 DEF SemaOK, On, GroupTypeOK, Semas, NoSema
    <3>2. Cardinality(On(waitsOn, groupSema')) = 0
      BY <3>1, WaitingCounts
    <3>3. waiters = 0 /\ groupSema' # groupSema
      BY <1>1, <1>4, <2>2 DEF SemaOK
    <3> QED
      BY <1>1, <1>3, <3>2, <3>3, ReleasedOn, Zenon
  <2> QED
    BY <2>1, <2>2
<1>8. GroupTypeOK'
  BY <1>1, <1>2, <1>3 DEF GroupTypeOK
<1>9. EveryWaiterReleased'
  <2> SUFFICES ASSUME NEW s \in Semas
               PROVE  /\ s = groupSema' => /\ waiters' = Cardinality(On(waitsOn', s))
                                           /\ tokens'[s] = 0 /\ counter' # 0
                      /\ s # groupSema' => tokens'[s] = Cardinality(On(waitsOn', s))
    BY ReleasedOn, Zenon
  <2>1. CASE s = groupSema'
    BY <1>2, <1>6, <1>7, <2>1, Zenon
  <2>2. CASE s # groupSema'
    <3>1. s # groupSema
      BY <1>3, <2>2 DEF Semas, NoSema
    <3> QED
      BY <1>1, <1>2, <1>5, <2>2, <3>1, ReleasedOn, Zenon
  <2> QED
    BY <2>1, <2>2, Zenon
<1>10. SemaOK'
  <2>1. waiters' # 0
    BY <1>1, <1>2 DEF GroupTypeOK
  <2>2. \A h \in GroupGs : waitsOn'[h] <= made'
    BY <1>1, <1>2, <1>3 DEF SemaOK, GroupTypeOK, Semas, NoSema
  <2> QED
    BY <1>3, <1>4, <2>1, <2>2 DEF SemaOK
<1>11. OldIsHonest'
  <2> SUFFICES ASSUME NEW h \in GroupGs, waitsOn'[h] # NoSema, waitsOn'[h] # groupSema'
               PROVE  sawZero[h]
    BY <1>2 DEF OldIsHonest
  <2>1. h # g /\ waitsOn'[h] = waitsOn[h]
    BY <1>1, <1>2 DEF GroupTypeOK
  <2>2. waitsOn[h] # groupSema
    BY <1>3, <2>1, Zenon
  <2> QED
    BY <1>1, <2>1, <2>2, Zenon DEF OldIsHonest
<1> QED
  BY <1>8, <1>9, <1>10, <1>11 DEF GroupInv

\* Semacquire takes a token of an old semaphore.
LEMMA AcquireKeeps ==
  ASSUME WaitGroupAssumption, GroupInv, NEW g \in GroupGs, GroupAcquire(g)
  PROVE  GroupInv'
<1>1. GroupTypeOK /\ EveryWaiterReleased /\ SemaOK /\ OldIsHonest
  BY DEF GroupInv
<1> DEFINE t == waitsOn[g]
<1>2. /\ t # NoSema /\ tokens[t] > 0 /\ t \in Semas
      /\ tokens' = [tokens EXCEPT ![t] = @ - 1]
      /\ waitsOn' = [waitsOn EXCEPT ![g] = NoSema]
      /\ sawZero' = [sawZero EXCEPT ![g] = FALSE]
      /\ counter' = counter /\ waiters' = waiters /\ groupSema' = groupSema /\ made' = made
  BY <1>1, Zenon DEF GroupAcquire, GroupTypeOK
<1>3. t # groupSema /\ tokens \in [Semas -> Nat] /\ tokens[t] \in Nat
  <2>1. tokens \in [Semas -> Nat]
    BY <1>1, Zenon DEF GroupTypeOK
  <2>2. \A s \in Semas : s = groupSema => tokens[s] = 0
    BY <1>1, ReleasedOn, Zenon
  <2> HIDE DEF t
  <2>3. t # groupSema
    BY <1>2, <2>2
  <2>4. tokens[t] \in Nat
    BY <1>2, <2>1
  <2> QED
    BY <2>1, <2>3, <2>4
<1>t. waitsOn \in [GroupGs -> Semas \cup {NoSema}]
  BY <1>1 DEF GroupTypeOK
<1>4. /\ On(waitsOn', t) = On(waitsOn, t) \ {g} /\ g \in On(waitsOn, t)
      /\ \A s \in Semas \ {t} : On(waitsOn', s) = On(waitsOn, s)
  <2>1. \A s \in Semas : s # NoSema
    BY DEF Semas, NoSema
  <2> QED
    BY <1>2, <1>t, <2>1, Zenon DEF On
<1>5. Cardinality(On(waitsOn', t)) = Cardinality(On(waitsOn, t)) - 1
  <2> HIDE DEF t
  <2>1. IsFiniteSet(On(waitsOn, t))
    BY WaitingCounts
  <2> QED
    BY <1>4, <2>1, CardRemove
<1> HIDE DEF t
<1>6. GroupTypeOK'
  BY <1>1, <1>2, <1>3 DEF GroupTypeOK
<1>7. EveryWaiterReleased'
  <2> SUFFICES ASSUME NEW s \in Semas
               PROVE  /\ s = groupSema => /\ waiters = Cardinality(On(waitsOn', s))
                                          /\ tokens'[s] = 0 /\ counter # 0
                      /\ s # groupSema => tokens'[s] = Cardinality(On(waitsOn', s))
    BY <1>2, ReleasedOn, Zenon
  <2>1. CASE s = t
    BY <1>1, <1>2, <1>3, <1>5, <2>1, ReleasedOn, Zenon
  <2>2. CASE s # t
    <3>1. tokens'[s] = tokens[s] /\ On(waitsOn', s) = On(waitsOn, s)
      BY <1>2, <1>3, <1>4, <2>2, Zenon
    <3> QED
      BY <1>1, <3>1, ReleasedOn, Zenon
  <2> QED
    BY <2>1, <2>2, Zenon
<1>8. SemaOK'
  BY <1>1, <1>2 DEF SemaOK, GroupTypeOK, NoSema
<1>9. OldIsHonest'
  BY <1>1, <1>2, Zenon DEF OldIsHonest, GroupTypeOK
<1> QED
  BY <1>6, <1>7, <1>8, <1>9 DEF GroupInv

-----------------------------------------------------------------------------
\* A Wait returns only after the counter has been zero while it waited, and every
\* waiter then has a token of its own, for any number of goroutines and rounds
\* (the race that waitgroup.go's comment on its semaphore describes).
THEOREM WaitGroupIsSound == ASSUME WaitGroupAssumption PROVE GroupSpec => []WaitGroupSound
<1>1. GroupInit => GroupInv
  <2> SUFFICES ASSUME GroupInit PROVE GroupInv
    OBVIOUS
  <2>1. \A s \in Semas : s # NoSema /\ GroupWaitersOf(s) = {}
    BY DEF GroupInit, GroupWaitersOf, Semas, NoSema
  <2>2. GroupTypeOK
    BY DEF GroupInit, GroupTypeOK, WaitGroupAssumption, NoSema
  <2>3. EveryWaiterReleased
    BY <2>1, CardEmpty, CardNat DEF GroupInit, EveryWaiterReleased
  <2> QED
    BY <2>2, <2>3 DEF GroupInit, GroupInv, SemaOK, OldIsHonest, NoSema
<1>2. GroupInv /\ [GroupNext]_groupVars => GroupInv'
  <2> SUFFICES ASSUME GroupInv, [GroupNext]_groupVars PROVE GroupInv'
    OBVIOUS
  <2>1. CASE UNCHANGED groupVars
    BY <2>1, Zenon
       DEF groupVars, GroupInv, GroupTypeOK, EveryWaiterReleased, SemaOK, OldIsHonest, GroupWaitersOf
  <2> QED
    BY <2>1, AddKeeps, WaitKeeps, AcquireKeeps DEF GroupNext
<1>3. GroupInv => WaitGroupSound
  <2>1. GroupInv => WaitIsHonest
    BY
       DEF GroupInv, WaitIsHonest, OldIsHonest, EveryWaiterReleased, GroupTypeOK, Semas, NoSema
  <2> QED
    BY <2>1 DEF GroupInv, WaitGroupSound
<1> QED
  BY <1>1, <1>2, <1>3, PTL DEF GroupSpec
=============================================================================
