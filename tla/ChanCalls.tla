------------------------------ MODULE ChanCalls -----------------------------
(***************************************************************************)
(* The calls that the goroutines of the checked instances of Chan make.    *)
(***************************************************************************)
EXTENDS Sequences

ChanGs == {"g1", "g2", "g3"}

Sends(c, v) == [kind |-> "send", chan |-> c, elem |-> v]
Receives(c) == [kind |-> "recv", chan |-> c, elem |-> "nil"]
Plainly(op, case) == [op |-> op, cases |-> <<case>>, block |-> TRUE]
Selects(cases, block) == [op |-> "select", cases |-> cases, block |-> block]
ByGoroutine(one, two, three) ==
  [g \in ChanGs |-> CASE g = "g1" -> one [] g = "g2" -> two [] OTHER -> three]

\* Channel 1 is unbuffered and 2 holds one value: a select and a receiver compete
\* for what one goroutine sends.
SizesMixed == <<0, 1>>
CallsMixed == ByGoroutine(
  {Selects(<<Receives(1), Receives(2)>>, TRUE)},
  {Plainly("send", Sends(1, "b")), Plainly("send", Sends(2, "c"))},
  {Plainly("recv", Receives(2))})

\* Two unbuffered channels: selects meet each other, with default cases, a send
\* that does not wait and a close.
SizesSync == <<0, 0>>
CallsSync == ByGoroutine(
  {Selects(<<Receives(1), Receives(2)>>, TRUE)},
  {Selects(<<Sends(1, "a"), Sends(2, "b")>>, FALSE), Plainly("close", Receives(2))},
  {Selects(<<Receives(2), Sends(1, "a")>>, TRUE), [Plainly("send", Sends(1, "d")) EXCEPT !.block = FALSE]})

\* The buffered channel alone: a select on both its sides, and a close;
CallsClose == ByGoroutine(
  {Plainly("recv", Receives(2))},
  {Plainly("send", Sends(2, "b")), Plainly("close", Receives(2))},
  {Selects(<<Receives(2), Sends(2, "c")>>, TRUE)})

\* and two senders and three receivers, of whom two are the same.
CallsBuffer == ByGoroutine(
  {Plainly("recv", Receives(2)), Plainly("send", Sends(2, "a"))},
  {Plainly("send", Sends(2, "b")), Plainly("recv", Receives(2))},
  {Plainly("recv", Receives(2))})
=============================================================================
