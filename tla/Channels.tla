------------------------------ MODULE Channels ------------------------------
(***************************************************************************)
(* What channels promise: a send or a receive, or one case of a select,    *)
(* happens in one step, with the buffer, with a goroutine that waits for   *)
(* it, or because the channel is closed.  A call waits, or takes its       *)
(* default, only when none of its cases can happen, and nobody waits on a  *)
(* channel that is closed.                                                 *)
(***************************************************************************)
EXTENDS Integers, Sequences, FiniteSets

CONSTANTS Gs, Chans, dataqsiz, Calls, NoCall, NoResult, Nil

VARIABLES queue,   \* the values in the buffer of each channel
          closed,  \* the channels that are closed
          call,    \* the call in which each goroutine is
          waits,   \* the goroutines that wait for others
          got      \* what the last call of each came to

vars == <<queue, closed, call, waits, got>>

Init == /\ queue = [c \in Chans |-> <<>>] /\ closed = {}
        /\ call = [g \in Gs |-> NoCall] /\ waits = {} /\ got = [g \in Gs |-> NoResult]

Cases(g) == DOMAIN call[g].cases
At(g, i) == call[g].cases[i]
Pair(k, l) == k.chan = l.chan /\ k.kind # l.kind
Waiters(g, k) == {h \in waits \ {g} : \E j \in Cases(h) : Pair(k, At(h, j))}

Buffered(k) == dataqsiz[k.chan] > 0
Ended(k) == k.chan \in closed /\ (k.kind = "send" \/ queue[k.chan] = <<>>)
InBuffer(k) == IF k.kind = "send" THEN Len(queue[k.chan]) < dataqsiz[k.chan] ELSE queue[k.chan] # <<>>
Can(g, i) == LET k == At(g, i)
             IN  Ended(k) \/ (IF Buffered(k) THEN InBuffer(k) ELSE Waiters(g, k) # {})

Active(g) == call[g] # NoCall /\ g \notin waits
Stuck(g) == Active(g) /\ call[g].op # "close" /\ \A i \in Cases(g) : ~Can(g, i)
Result(i, v, ok) == [case |-> i, val |-> v, ok |-> ok]
Ends(S, res) == /\ call' = [g \in Gs |-> IF g \in S THEN NoCall ELSE call[g]]
                /\ got' = [g \in Gs |-> IF g \in S THEN res[g] ELSE got[g]]

Begin(g, k) == /\ call[g] = NoCall
               /\ call' = [call EXCEPT ![g] = k] /\ got' = [got EXCEPT ![g] = NoResult]
               /\ UNCHANGED <<queue, closed, waits>>

Wait(g) == /\ Stuck(g) /\ call[g].block
           /\ waits' = waits \union {g}
           /\ UNCHANGED <<queue, closed, call, got>>

Default(g) == /\ Stuck(g) /\ ~call[g].block
              /\ Ends({g}, [x \in {g} |-> Result(0, Nil, FALSE)])
              /\ UNCHANGED <<queue, closed, waits>>

\* At the end of a closed channel.
End(g, i) == LET k == At(g, i) IN
  /\ Active(g) /\ call[g].op # "close" /\ Ended(k)
  /\ Ends({g}, [x \in {g} |-> Result(i, IF k.kind = "send" THEN "panic" ELSE Nil, FALSE)])
  /\ UNCHANGED <<queue, closed, waits>>

\* With the buffer; one of those who wait for what it has now tries again.
Buffer(g, i) == LET k == At(g, i) IN
  /\ Active(g) /\ call[g].op # "close" /\ ~Ended(k) /\ Buffered(k) /\ InBuffer(k)
  /\ queue' = [queue EXCEPT ![k.chan] = IF k.kind = "send" THEN Append(@, k.elem) ELSE Tail(@)]
  /\ Ends({g}, [x \in {g} |-> Result(i, IF k.kind = "send" THEN k.elem ELSE Head(queue[k.chan]), TRUE)])
  /\ \/ Waiters(g, k) = {} /\ UNCHANGED waits
     \/ \E h \in Waiters(g, k) : waits' = waits \ {h}
  /\ UNCHANGED closed

\* With a goroutine that waits, whose call ends as well.
Meet(g, i, h, j) ==
  LET k == At(g, i)
      l == At(h, j)
      v == IF k.kind = "send" THEN k.elem ELSE l.elem
  IN  /\ Active(g) /\ call[g].op # "close" /\ h \in waits
      /\ Pair(k, l) /\ ~Buffered(k) /\ ~Ended(k)
      /\ Ends({g, h}, [x \in {g, h} |-> Result(IF x = g THEN i ELSE j, v, TRUE)])
      /\ waits' = waits \ {h}
      /\ UNCHANGED <<queue, closed>>

\* Those who wait on the channel try again.
Close(g) ==
  LET c == At(g, 1).chan IN
  /\ Active(g) /\ call[g].op = "close"
  /\ closed' = closed \union {c}
  /\ Ends({g}, [x \in {g} |-> IF c \in closed THEN Result(1, "panic", FALSE) ELSE Result(1, Nil, TRUE)])
  /\ waits' = {h \in waits : \A j \in Cases(h) : At(h, j).chan # c}
  /\ UNCHANGED queue

Next == \E g \in Gs : \/ \E k \in Calls[g] : Begin(g, k)
                      \/ Wait(g) \/ Default(g) \/ Close(g)
                      \/ \E i \in Cases(g) :
                           End(g, i) \/ Buffer(g, i) \/ \E h \in waits : \E j \in Cases(h) : Meet(g, i, h, j)
Spec == Init /\ [][Next]_vars
=============================================================================
