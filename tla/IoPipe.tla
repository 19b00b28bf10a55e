------------------------------- MODULE IoPipe -------------------------------
(***************************************************************************)
(* io.Pipe (pkg/io/pipe.go): a synchronous pipe between goroutines.  A     *)
(* write leaves its bytes in data and waits until readers have taken them  *)
(* or the reading end is closed.  rl and wl admit one reader and one       *)
(* writer; l protects the rest, so that the code between taking it and     *)
(* giving it back or waiting on a condition is one step.  The conditions   *)
(* keep the promise that module SyncCond shows: Signal wakes a waiter.     *)
(***************************************************************************)
EXTENDS Integers

CONSTANTS Readers, Writers,
          IoMaxLen,  \* the longest read or write
          None       \* nobody, and a nil slice

\* What the constants have to be.
IoPipeAssumption == /\ IoMaxLen \in Nat /\ None \notin Nat
                    /\ None \notin Readers /\ None \notin Writers
                    /\ Readers \cap Writers = {}

VARIABLES
  ioPc,        \* out; start (wants rl or wl); locked (has it, wants l); wait
               \* (on its condition); woken (wants l again)
  b,           \* the length of a caller's slice
  data,        \* bytes of the pending write that are left, or None for nil
  rl, wl,      \* who holds the locks
  rerr, werr,  \* the ends are closed
  err,         \* the error a writer has noted
  took,        \* bytes readers have copied out of a writer's slice
  res          \* what a writer's last call returned: n and err

ioVars == <<ioPc, b, data, rl, wl, rerr, werr, err, took, res>>

Callers == Readers \union Writers
Lens == 0 .. IoMaxLen

IoInit == /\ ioPc = [p \in Callers |-> "out"] /\ b = [p \in Callers |-> 0]
          /\ data = None /\ rl = None /\ wl = None
          /\ rerr = FALSE /\ werr = FALSE
          /\ err = [w \in Writers |-> "nil"]
          /\ took = [w \in Writers |-> 0]
          /\ res = [w \in Writers |-> [n |-> 0, err |-> "nil"]]

\* rwait.Signal and wwait.Signal; the argument is ioPc as the caller leaves it.
Woken(from, who) == [p \in Callers |-> IF p \in who /\ from[p] = "wait" THEN "woken" ELSE from[p]]

-----------------------------------------------------------------------------
IoCall(p) ==
  /\ ioPc[p] = "out" /\ ioPc' = [ioPc EXCEPT ![p] = "start"]
  /\ \E n \in Lens : b' = [b EXCEPT ![p] = n]
  /\ res' = [w \in Writers |-> IF w = p THEN [n |-> 0, err |-> "nil"] ELSE res[w]]
  /\ UNCHANGED <<data, rl, wl, rerr, werr, err, took>>

\* read: rl.Lock.
ReadLock(p) ==
  /\ p \in Readers /\ ioPc[p] = "start" /\ rl = None /\ rl' = p
  /\ ioPc' = [ioPc EXCEPT ![p] = "locked"]
  /\ UNCHANGED <<b, data, wl, rerr, werr, err, took, res>>

\* read: with l, the turns of the loop up to Wait or return.
ReadReturnKeepsLock(p, to) ==   \* without the deferred rl.Unlock
  /\ UNCHANGED rl /\ ioPc' = Woken([ioPc EXCEPT ![p] = "out"], to) /\ b' = [b EXCEPT ![p] = 0]
ReadReturn(p, to) ==
  /\ rl' = None /\ ioPc' = Woken([ioPc EXCEPT ![p] = "out"], to) /\ b' = [b EXCEPT ![p] = 0]
Copy(p) == IF b[p] < data THEN b[p] ELSE data
readSignalsNobody(p) ==
  /\ p \in Readers /\ ioPc[p] \in {"locked", "woken"}
  /\ \/ rerr /\ ReadReturn(p, {}) /\ UNCHANGED <<data, took>>
     \/ /\ ~rerr /\ data # None
        /\ data' = IF Copy(p) = data THEN None ELSE data - Copy(p)
        /\ took' = [took EXCEPT ![wl] = @ + Copy(p)]
        /\ ReadReturn(p, {})
     \/ ~rerr /\ data = None /\ werr /\ ReadReturn(p, {}) /\ UNCHANGED <<data, took>>
     \/ /\ ~rerr /\ data = None /\ ~werr /\ ioPc' = [ioPc EXCEPT ![p] = "wait"]
        /\ UNCHANGED <<data, rl, b, took>>
  /\ UNCHANGED <<wl, rerr, werr, err, res>>
read(p) ==
  /\ p \in Readers /\ ioPc[p] \in {"locked", "woken"}
  /\ \/ rerr /\ ReadReturn(p, {}) /\ UNCHANGED <<data, took>>
     \/ /\ ~rerr /\ data # None
        /\ data' = IF Copy(p) = data THEN None ELSE data - Copy(p)
        /\ took' = [took EXCEPT ![wl] = @ + Copy(p)]
        /\ ReadReturn(p, IF data' = None THEN Writers ELSE {})
     \/ ~rerr /\ data = None /\ werr /\ ReadReturn(p, {}) /\ UNCHANGED <<data, took>>
     \/ /\ ~rerr /\ data = None /\ ~werr /\ ioPc' = [ioPc EXCEPT ![p] = "wait"]
        /\ UNCHANGED <<data, rl, b, took>>
  /\ UNCHANGED <<wl, rerr, werr, err, res>>

\* write: wl.Lock.
WriteLock(p) ==
  /\ p \in Writers /\ ioPc[p] = "start" /\ wl = None /\ wl' = p
  /\ ioPc' = [ioPc EXCEPT ![p] = "locked"]
  /\ UNCHANGED <<b, data, rl, rerr, werr, err, took, res>>

\* write: one turn of the loop, with d in data: return, or note that the writing
\* end is closed and wait.
WriteReturn(p, n, e, from) ==
  /\ wl' = None /\ data' = None
  /\ ioPc' = [from EXCEPT ![p] = "out"] /\ b' = [b EXCEPT ![p] = 0]
  /\ took' = [took EXCEPT ![p] = 0] /\ err' = [err EXCEPT ![p] = "nil"]
  /\ res' = [res EXCEPT ![p] = [n |-> n, err |-> e]]
Loop(p, d, from) ==
  \/ d = None /\ WriteReturn(p, b[p], err[p], from)
  \/ d # None /\ rerr /\ WriteReturn(p, b[p] - d, "rerr", from)
  \/ /\ d # None /\ ~rerr
     /\ err' = [err EXCEPT ![p] = IF werr THEN "EINVAL" ELSE @]
     /\ data' = d /\ ioPc' = [from EXCEPT ![p] = "wait"]
     /\ UNCHANGED <<b, wl, took, res>>

\* write: p.data = b, rwait.Signal and the loop.
write(p) ==
  /\ p \in Writers /\ ioPc[p] = "locked"
  /\ Loop(p, b[p], Woken(ioPc, Readers))
  /\ UNCHANGED <<rl, rerr, werr>>

\* write, back from Wait.
writeWoken(p) ==
  /\ p \in Writers /\ ioPc[p] = "woken"
  /\ Loop(p, data, ioPc)
  /\ UNCHANGED <<rl, rerr, werr>>

\* rclose and wclose, which any goroutine calls.
rclose ==
  /\ ~rerr /\ rerr' = TRUE /\ ioPc' = Woken(ioPc, Callers)
  /\ UNCHANGED <<b, data, rl, wl, werr, err, took, res>>
wclose ==
  /\ ~werr /\ werr' = TRUE /\ ioPc' = Woken(ioPc, Callers)
  /\ UNCHANGED <<b, data, rl, wl, rerr, err, took, res>>

IoTurn(p) == ReadLock(p) \/ read(p) \/ WriteLock(p) \/ write(p) \/ writeWoken(p)
IoNext == (\E p \in Callers : IoCall(p) \/ IoTurn(p)) \/ rclose \/ wclose

IoSpec == IoInit /\ [][IoNext]_ioVars

\* The Go scheduler runs every goroutine, and sync.Mutex serves its waiters.
IoFairSpec == IoSpec /\ \A p \in Callers : SF_ioVars(IoTurn(p))

-----------------------------------------------------------------------------
IoTypeOK == /\ ioPc \in [Callers -> {"out", "start", "locked", "wait", "woken"}]
            /\ data \in Lens \union {None} /\ b \in [Callers -> Lens]
            /\ rl \in Readers \union {None} /\ wl \in Writers \union {None}
            /\ took \in [Writers -> Lens]

\* A reader waits only while there is nothing to tell it, a writer only while
\* its bytes are there and somebody may take them.
NoneWaitsInVain ==
  /\ \A r \in Readers : ioPc[r] = "wait" => data = None /\ ~rerr /\ ~werr
  /\ \A w \in Writers : ioPc[w] = "wait" => wl = w /\ data # None /\ ~rerr

\* A write returns the number of bytes that readers took from it, even when the
\* reading end is closed half way (and then with the error).
WriteStep == \A w \in Writers : ioPc[w] # "out" /\ ioPc'[w] = "out" =>
               /\ res'[w].n = took[w]
               /\ res'[w].err = "nil" => took[w] = b[w]

\* A closed end ends every read, and closing the reading end every write.
CloseEndsCalls ==
  /\ \A r \in Readers : (rerr \/ werr) ~> (ioPc[r] = "out")
  /\ \A w \in Writers : rerr ~> (ioPc[w] = "out")

\* Readers and writers of an io.Pipe find each other,
IoPipeKept == IoTypeOK /\ NoneWaitsInVain

\* and PipeWriter.Write returns the number of bytes read from it.
IoPipeSound == IoPipeKept /\ [][IoPipeKept' /\ WriteStep]_ioVars
=============================================================================
