-------------------------------- MODULE Chan --------------------------------
(***************************************************************************)
(* Channels (runtime/chan.c): chansend, chanrecv, selectgo and closechan.  *)
(* A goroutine that has to wait leaves a SudoG in the queue of every       *)
(* channel of its call and sleeps; selgen, which its waker advances, makes *)
(* all of them stale at once.  A select locks its channels one by one in   *)
(* the order of their addresses; what is done under the locks is one step. *)
(* A WaitQ is its list of SudoGs, and whether q->last is the last of them: *)
(* dequeueg does not move it, and what is enqueued behind a SudoG that has *)
(* left the list is lost.  There the module stops.                         *)
(***************************************************************************)
EXTENDS Integers, Sequences, FiniteSets, SequencesExt

CONSTANTS Gs,        \* the goroutines
          Chans,     \* the channels, by address
          dataqsiz,  \* the size of the buffer of each
          Vals,      \* what is sent
          Calls,     \* the calls each goroutine makes
          SelGens    \* the number of values of selgen, 2^32

Nil == "nil"

\* A call has the cases of a select, or the one of a send, a receive or a close.
\* block is FALSE for a select with a default case and for a send or a receive
\* that is given a place to report that it would wait.
Case == [kind : {"send", "recv"}, chan : Chans, elem : Vals \union {Nil}]
ChanAssumption ==
  /\ Chans \subseteq Nat /\ dataqsiz \in [Chans -> Nat] /\ SelGens \in Nat \ {0, 1}
  /\ \A g \in Gs : \A k \in Calls[g] :
       /\ k.op \in {"send", "recv", "select", "close"} /\ k.block \in BOOLEAN
       /\ k.cases \in Seq(Case) /\ k.cases # <<>> /\ (k.op # "select" => Len(k.cases) = 1)

NoCall == [op |-> "none", cases |-> <<>>, block |-> FALSE]
NoCase == [kind |-> "none", chan |-> 0, elem |-> Nil]
NoSudoG == [g |-> Nil, selgen |-> 0, offset |-> 0, elem |-> Nil]
NoResult == [case |-> 0, val |-> "none", ok |-> FALSE]

VARIABLES
  hchan,    \* closed, the buffer, recvq and sendq of each channel
  owner,    \* the select that holds the lock of a channel
  selgen,   \* g->selgen
  pc,       \* out, in a call, asleep, about to ready another
  call,     \* the call a goroutine is in
  param,    \* g->param
  readied,  \* ready has been called since the goroutine went to sleep
  wakes,    \* the goroutine to ready
  result,   \* what the last call returned
  wokenFor, \* the case of a buffered channel for which it was woken
  passedOn, \* the channels that a select was woken for and left by another case
  lost      \* the goroutines that have a SudoG outside all queues

vars == <<hchan, owner, selgen, pc, call, param, readied, wakes, result, wokenFor, passedOn, lost>>

Empty == [list |-> <<>>, last |-> TRUE]

Init == /\ hchan = [c \in Chans |-> [closed |-> FALSE, data |-> <<>>, recvq |-> Empty, sendq |-> Empty]]
        /\ owner = [c \in Chans |-> Nil]
        /\ selgen = [g \in Gs |-> 0]
        /\ pc = [g \in Gs |-> "out"]
        /\ call = [g \in Gs |-> NoCall]
        /\ param = [g \in Gs |-> NoSudoG]
        /\ readied = [g \in Gs |-> FALSE]
        /\ wakes = [g \in Gs |-> Nil]
        /\ result = [g \in Gs |-> NoResult]
        /\ wokenFor = [g \in Gs |-> NoCase]
        /\ passedOn = {} /\ lost = {}

-----------------------------------------------------------------------------
(* WaitQ *)

\* dequeue drops what is stale and advances selgen of the one it returns.
FreshAlways(sg) == TRUE
Fresh(sg) == sg.selgen = selgen[sg.g]
LeastOf(I) == IF I = {} THEN 0 ELSE CHOOSE i \in I : \A j \in I : i <= j
First(q) == LeastOf({i \in DOMAIN q.list : Fresh(q.list[i])})
Queue(list, last) == [list |-> list, last |-> last \/ list = <<>>]
Rest(q) == IF First(q) = 0 THEN Empty ELSE Queue(SubSeq(q.list, First(q) + 1, Len(q.list)), q.last)
Advance(S) == selgen' = [g \in Gs |-> IF g \in S THEN (selgen[g] + 1) % SelGens ELSE selgen[g]]

\* dequeueg takes out the first SudoG of g.
dequeueg(q, g) == LET i == LeastOf({j \in DOMAIN q.list : q.list[j].g = g})
                  IN  IF i = 0 THEN q ELSE Queue(RemoveAt(q.list, i), q.last /\ i < Len(q.list))

\* allocsg and enqueue, for case i of the call of g.
enqueue(H, g, i) ==
  LET k == call[g].cases[i]
      sg == [g |-> g, selgen |-> selgen[g], offset |-> i, elem |-> k.elem]
      Add(q) == IF q.last THEN Queue(Append(q.list, sg), TRUE) ELSE q
  IN  IF k.kind = "send" THEN [H EXCEPT ![k.chan].sendq = Add(@)]
                         ELSE [H EXCEPT ![k.chan].recvq = Add(@)]

\* The queue in which case k waits, the one in which it looks for a partner, and
\* what dequeue leaves of that.
Own(H, k) == IF k.kind = "send" THEN H[k.chan].sendq ELSE H[k.chan].recvq
Partners(H, k) == IF k.kind = "send" THEN H[k.chan].recvq ELSE H[k.chan].sendq
dequeue(H, k) == IF k.kind = "send" THEN [H EXCEPT ![k.chan].recvq = Rest(@)]
                                    ELSE [H EXCEPT ![k.chan].sendq = Rest(@)]

-----------------------------------------------------------------------------
(* One case of a call *)

Buffered(k) == dataqsiz[k.chan] > 0
Closed(k) == hchan[k.chan].closed
HasSpace(k) == IF k.kind = "send" THEN Len(hchan[k.chan].data) < dataqsiz[k.chan]
                                  ELSE hchan[k.chan].data # <<>>
CanGo(k) == \/ Closed(k)
            \/ IF Buffered(k) THEN HasSpace(k) ELSE First(Partners(hchan, k)) # 0

\* The call of g ends; a select that was woken for a buffered channel may end it
\* by another case.
Return(g, res) ==
  /\ result' = [result EXCEPT ![g] = res]
  /\ call' = [call EXCEPT ![g] = NoCall]
  /\ passedOn' = IF wokenFor[g] # NoCase /\ (res.case = 0 \/ call[g].cases[res.case] # wokenFor[g])
                 THEN passedOn \union {wokenFor[g].chan} ELSE passedOn
  /\ UNCHANGED lost

Panics(g, i) == Return(g, [case |-> i, val |-> "panic", ok |-> FALSE])

\* A closed channel ends case k: it is a send, or a receive that finds no value.
Ended(k) == Closed(k) /\ (k.kind = "send" \/ hchan[k.chan].data = <<>>)

\* The goroutine that case k wakes.
Woken(H, k) == LET q == Partners(H, k)
               IN  IF Ended(k) \/ First(q) = 0 THEN {} ELSE {q.list[First(q)].g}

\* Case i of the call of g goes ahead, on channels H: at the end of the channel,
\* with the buffer, or with a goroutine that waits.
Perform(g, i, H) ==
  LET k == call[g].cases[i]
      W == Woken(H, k)
      sg == Partners(H, k).list[First(Partners(H, k))]
      done == [case |-> i, val |-> k.elem, ok |-> TRUE]
      hand(v) == param' = [param EXCEPT ![sg.g] = [sg EXCEPT !.elem = v]]
  IN  /\ Advance(W)
      /\ wokenFor' = [h \in Gs |-> IF h \in W /\ Buffered(k) THEN call[h].cases[sg.offset]
                                   ELSE IF h = g THEN NoCase ELSE wokenFor[h]]
      /\ \/ /\ Ended(k)
            /\ hchan' = H
            /\ IF k.kind = "send" THEN Panics(g, i) ELSE Return(g, [done EXCEPT !.ok = FALSE])
            /\ UNCHANGED param
         \/ /\ ~Ended(k) /\ Buffered(k) /\ k.kind = "send"
            /\ hchan' = [dequeue(H, k) EXCEPT ![k.chan].data = Append(@, k.elem)]
            /\ Return(g, done)
            /\ UNCHANGED param
         \/ /\ ~Ended(k) /\ Buffered(k) /\ k.kind = "recv"
            /\ hchan' = [dequeue(H, k) EXCEPT ![k.chan].data = Tail(@)]
            /\ Return(g, [done EXCEPT !.val = Head(H[k.chan].data)])
            /\ UNCHANGED param
         \/ /\ ~Ended(k) /\ ~Buffered(k) /\ k.kind = "send"
            /\ hchan' = dequeue(H, k)
            /\ hand(k.elem)
            /\ Return(g, done)
         \/ /\ ~Ended(k) /\ ~Buffered(k) /\ k.kind = "recv"
            /\ hchan' = dequeue(H, k)
            /\ hand(Nil)
            /\ Return(g, [done EXCEPT !.val = sg.elem])

\* g leaves SudoGs for the cases in order and sleeps.
Sleep(g, order, H) ==
  /\ LET queued[n \in 0 .. Len(order)] ==
           IF n = 0 THEN H ELSE enqueue(queued[n - 1], g, order[n])
     IN  hchan' = queued[Len(order)]
  /\ lost' = IF \A i \in Range(order) : Own(H, call[g].cases[i]).last THEN lost ELSE lost \union {g}
  /\ pc' = [pc EXCEPT ![g] = "asleep"]
  /\ readied' = [readied EXCEPT ![g] = FALSE]
  /\ wokenFor' = [wokenFor EXCEPT ![g] = NoCase]
  /\ UNCHANGED <<selgen, call, wakes, result, passedOn>>

\* Nothing can go ahead and the call does not wait.
Default(g, H) ==
  /\ hchan' = H
  /\ pc' = [pc EXCEPT ![g] = "out"]
  /\ Return(g, [case |-> 0, val |-> Nil, ok |-> FALSE])
  /\ wokenFor' = [wokenFor EXCEPT ![g] = NoCase]
  /\ UNCHANGED <<selgen, param, readied, wakes>>

-----------------------------------------------------------------------------
(* chansend and chanrecv *)

Plain(g) == call[g].op \in {"send", "recv"}
TheCase(g) == call[g].cases[1]

\* From loop or asynch to the return, to ready, or to gosched.
Try(g) ==
  LET k == TheCase(g)
      purged == IF Buffered(k) THEN hchan ELSE dequeue(hchan, k)
  IN  \/ /\ CanGo(k)
         /\ Perform(g, 1, hchan)
         /\ LET W == Woken(hchan, k) IN
            \/ W = {} /\ pc' = [pc EXCEPT ![g] = "out"] /\ UNCHANGED wakes
            \/ \E h \in W : /\ pc' = [pc EXCEPT ![g] = "ready"]
                            /\ wakes' = [wakes EXCEPT ![g] = h]
         /\ UNCHANGED readied
      \/ /\ ~CanGo(k) /\ ~call[g].block
         /\ Default(g, purged)
      \/ /\ ~CanGo(k) /\ call[g].block
         /\ Sleep(g, <<1>>, purged)
         /\ param' = IF Buffered(k) THEN param ELSE [param EXCEPT ![g] = NoSudoG]

LockFree(g) == owner[TheCase(g).chan] = Nil

Begin(g, k) == /\ pc[g] = "out" /\ k \in Calls[g]
               /\ call' = [call EXCEPT ![g] = k]
               /\ result' = [result EXCEPT ![g] = NoResult]
               /\ pc' = [pc EXCEPT ![g] = "in"]
               /\ UNCHANGED <<hchan, owner, selgen, param, readied, wakes, wokenFor, passedOn, lost>>

chanop(g) == /\ pc[g] = "in" /\ Plain(g) /\ LockFree(g)
             /\ Try(g)
             /\ UNCHANGED owner

\* After gosched: an unbuffered channel has done all in param, or was closed.
Handed(g) == LET sg == param[g]
             IN  [case |-> sg.offset, val |-> IF call[g].cases[sg.offset].kind = "send"
                                              THEN call[g].cases[sg.offset].elem ELSE sg.elem,
                  ok |-> TRUE]
Resume(g) ==
  /\ pc[g] = "asleep" /\ readied[g] /\ Plain(g) /\ LockFree(g)
  /\ \/ /\ ~Buffered(TheCase(g)) /\ param[g] # NoSudoG
        /\ pc' = [pc EXCEPT ![g] = "out"]
        /\ Return(g, Handed(g))
        /\ UNCHANGED <<hchan, owner, selgen, param, readied, wakes, wokenFor>>
     \/ /\ Buffered(TheCase(g)) \/ param[g] = NoSudoG
        /\ Try(g)
        /\ UNCHANGED owner

\* ready, after the lock has been given back.
Ready(g) == /\ pc[g] = "ready"
            /\ readied' = [readied EXCEPT ![wakes[g]] = TRUE]
            /\ wakes' = [wakes EXCEPT ![g] = Nil]
            /\ pc' = [pc EXCEPT ![g] = "out"]
            /\ UNCHANGED <<hchan, owner, selgen, call, param, result, wokenFor, passedOn, lost>>

-----------------------------------------------------------------------------
(* selectgo *)

InSelect(g) == call[g].op = "select" /\ (pc[g] = "in" \/ (pc[g] = "asleep" /\ readied[g]))
ChansOf(k) == {k.cases[i].chan : i \in DOMAIN k.cases}
Unlocked(g) == {c \in ChansOf(call[g]) : owner[c] # g}
selunlock(g) == owner' = [c \in Chans |-> IF owner[c] = g THEN Nil ELSE owner[c]]

\* sellock: the next channel in the order of addresses.
sellockAnyOrder(g) ==
  /\ InSelect(g)
  /\ \E c \in Unlocked(g) : owner[c] = Nil /\ owner' = [owner EXCEPT ![c] = g]
  /\ UNCHANGED <<hchan, selgen, pc, call, param, readied, wakes, result, wokenFor, passedOn, lost>>

sellock(g) == /\ InSelect(g)
              /\ \E c \in Unlocked(g) :
                   /\ \A d \in Unlocked(g) : c <= d
                   /\ owner[c] = Nil
                   /\ owner' = [owner EXCEPT ![c] = g]
              /\ UNCHANGED <<hchan, selgen, pc, call, param, readied, wakes, result, wokenFor, passedOn, lost>>

Orders(g) == LET n == Len(call[g].cases)
             IN  {o \in [1 .. n -> 1 .. n] : \A i, j \in 1 .. n : o[i] = o[j] => i = j}

\* Passes 1 and 2, on channels H without SudoGs of g.  Pass 1 looks for a partner
\* on an unbuffered channel with dequeue, which drops what is stale.
DropStale(H, k) == IF Buffered(k) \/ (Closed(k) /\ k.kind = "send") \/ First(Partners(H, k)) # 0
                   THEN H ELSE dequeue(H, k)
Look(g, order, H) ==
  LET k(j) == call[g].cases[order[j]]
      ready == {j \in DOMAIN order : CanGo(k(j))}
      seen[n \in 0 .. Len(order)] == IF n = 0 THEN H ELSE DropStale(seen[n - 1], k(n))
  IN  \/ \E j \in ready :
           /\ \A i \in ready : j <= i
           /\ Perform(g, order[j], seen[j])
           /\ readied' = [h \in Gs |-> h \in Woken(H, k(j)) \/ readied[h]]
           /\ pc' = [pc EXCEPT ![g] = "out"]
           /\ UNCHANGED wakes
      \/ /\ ready = {} /\ ~call[g].block
         /\ Default(g, seen[Len(order)])
      \/ /\ ready = {} /\ call[g].block
         /\ Sleep(g, order, seen[Len(order)])
         /\ param' = [param EXCEPT ![g] = NoSudoG]

\* Pass 3: the SudoGs of the other cases leave their queues.
pass3(g) ==
  LET won(i) == param[g] # NoSudoG /\ param[g].offset = i
      left(X, k) == IF k.kind = "send" THEN [X EXCEPT ![k.chan].sendq = dequeueg(@, g)]
                                       ELSE [X EXCEPT ![k.chan].recvq = dequeueg(@, g)]
      after[n \in 0 .. Len(call[g].cases)] ==
        IF n = 0 THEN hchan
        ELSE IF won(n) THEN after[n - 1] ELSE left(after[n - 1], call[g].cases[n])
  IN  after[Len(call[g].cases)]

selectgo(g) ==
  /\ InSelect(g) /\ Unlocked(g) = {}
  /\ \/ /\ pc[g] = "in"
        /\ \E order \in Orders(g) : Look(g, order, hchan)
     \/ /\ pc[g] = "asleep" /\ param[g] = NoSudoG
        /\ \E order \in Orders(g) : Look(g, order, pass3(g))
     \/ /\ pc[g] = "asleep" /\ param[g] # NoSudoG
        /\ hchan' = pass3(g)
        /\ pc' = [pc EXCEPT ![g] = "out"]
        /\ Return(g, Handed(g))
        /\ UNCHANGED <<selgen, param, readied, wakes, wokenFor>>
  /\ selunlock(g)

-----------------------------------------------------------------------------
\* closechan: everybody who waits is woken and tries again.
closechan(g) ==
  /\ pc[g] = "in" /\ call[g].op = "close" /\ LockFree(g)
  /\ LET c == TheCase(g).chan
         h == hchan[c]
         W == {sg.g : sg \in {s \in Range(h.recvq.list) \union Range(h.sendq.list) : Fresh(s)}}
     IN  \/ /\ h.closed
            /\ Panics(g, 1)
            /\ UNCHANGED <<hchan, selgen, param, readied, wokenFor>>
         \/ /\ ~h.closed
            /\ hchan' = [hchan EXCEPT ![c] = [@ EXCEPT !.closed = TRUE, !.recvq = Empty, !.sendq = Empty]]
            /\ Advance(W)
            /\ param' = [x \in Gs |-> IF x \in W THEN NoSudoG ELSE param[x]]
            /\ readied' = [x \in Gs |-> x \in W \/ readied[x]]
            /\ Return(g, [case |-> 1, val |-> Nil, ok |-> TRUE])
            /\ UNCHANGED wokenFor
  /\ pc' = [pc EXCEPT ![g] = "out"]
  /\ UNCHANGED <<owner, wakes>>

Step(g) == chanop(g) \/ Resume(g) \/ Ready(g) \/ sellock(g) \/ selectgo(g) \/ closechan(g)
Next == lost = {} /\ \E g \in Gs : Step(g) \/ \E k \in Calls[g] : Begin(g, k)
Spec == Init /\ [][Next]_vars

-----------------------------------------------------------------------------
Queues(c) == {hchan[c].recvq.list, hchan[c].sendq.list}
Listed(g) == UNION {UNION {{sg \in Range(q) : sg.g = g} : q \in Queues(c)} : c \in Chans}
Waits(g) == pc[g] = "asleep" /\ \E sg \in Listed(g) : Fresh(sg)
Wakers(g) == {h \in Gs : pc[h] = "ready" /\ wakes[h] = g}

\* Type correctness.
TypeOK ==
  /\ \A c \in Chans : /\ hchan[c].closed \in BOOLEAN /\ hchan[c].data \in Seq(Vals)
                      /\ Len(hchan[c].data) <= dataqsiz[c]
  /\ owner \in [Chans -> Gs \union {Nil}] /\ selgen \in [Gs -> 0 .. SelGens - 1]
  /\ pc \in [Gs -> {"out", "in", "asleep", "ready"}]
  /\ readied \in [Gs -> BOOLEAN] /\ passedOn \subseteq Chans /\ lost \subseteq Gs

\* A goroutine that sleeps waits in the queue of each of its cases, or exactly one
\* other has taken it out and has readied it or is about to; ready never meets
\* one that runs or is runnable already.  So g->selgen keeps two wakers apart.
OneWaker ==
  \A g \in Gs :
    /\ Wakers(g) # {} => pc[g] = "asleep" /\ ~readied[g] /\ Cardinality(Wakers(g)) = 1
    /\ pc[g] = "asleep" => (Waits(g) <=> Wakers(g) = {} /\ ~readied[g])
    /\ Waits(g) => \A i \in DOMAIN call[g].cases :
         \E sg \in Listed(g) : sg.offset = i /\ Fresh(sg)

\* Outside its calls a goroutine is in no queue ("otherwise they stack up on quiet
\* channels"), so a SudoG is never older than one wake-up, and selgen may wrap.
QueuesClean ==
  \A g \in Gs : /\ Listed(g) # {} => pc[g] = "asleep"
                /\ \A c \in Chans : \A q \in Queues(c) :
                     \A i, j \in DOMAIN q : q[i].g = g /\ q[j].g = g /\ q[i].offset = q[j].offset => i = j

\* Nobody waits on a closed channel, and on an unbuffered one never both a sender
\* and a receiver.
NoMissedPartner ==
  \A c \in Chans :
    LET senders == {sg.g : sg \in {s \in Range(hchan[c].sendq.list) : Fresh(s)}}
        receivers == {sg.g : sg \in {s \in Range(hchan[c].recvq.list) : Fresh(s)}}
    IN  /\ hchan[c].closed => senders = {} /\ receivers = {}
        /\ dataqsiz[c] = 0 => \A g \in senders, h \in receivers : g = h

\* When somebody waits for what the buffer of c has, somebody who was woken for it
\* is on the way to it, unless a select was woken for it and took another case.
SomeoneComes(c, kind) == \E g \in Gs : wokenFor[g].chan = c /\ wokenFor[g].kind = kind
NoMissedBuffer ==
  \A c \in Chans \ passedOn : \A kind \in {"send", "recv"} :
    dataqsiz[c] > 0 /\ HasSpace([kind |-> kind, chan |-> c])
      /\ (\E g \in Gs : Waits(g) /\ \E i \in DOMAIN call[g].cases :
            call[g].cases[i].chan = c /\ call[g].cases[i].kind = kind)
      => SomeoneComes(c, kind)

\* Selects that lock several channels never wait for each other in a circle.
NextLock(g) == CHOOSE c \in Unlocked(g) : \A d \in Unlocked(g) : c <= d
NoLockCycle ==
  LET stuck(g, S) == InSelect(g) /\ Unlocked(g) # {} /\ owner[NextLock(g)] \in S
  IN  ~\E S \in SUBSET Gs : S # {} /\ \A g \in S : stuck(g, S)

\* Channels keep their queues in order and miss no partner, whatever sends,
\* receives, selects and closes meet, until a SudoG is lost.
ChanSound == /\ TypeOK /\ QueuesClean /\ NoMissedPartner /\ NoLockCycle
             /\ lost = {} => OneWaker /\ NoMissedBuffer

\* "list of recv waiters", "list of send waiters": a goroutine that sleeps and that
\* nobody has woken is in the queue of each of its cases.
ListsOfWaiters ==
  \A g \in Gs : pc[g] = "asleep" /\ ~readied[g] /\ Wakers(g) = {} =>
    \A i \in DOMAIN call[g].cases : \E sg \in Listed(g) : sg.offset = i /\ Fresh(sg)

\* chan.c implements the channels of module Channels: a goroutine that another has
\* met is done before it runs again.
Met(g) == /\ pc[g] = "asleep" /\ ~Waits(g) /\ param[g] # NoSudoG
          /\ ~(Plain(g) /\ Buffered(TheCase(g)))
A == INSTANCE Channels WITH
       queue <- [c \in Chans |-> hchan[c].data],
       closed <- {c \in Chans : hchan[c].closed},
       call <- [g \in Gs |-> IF pc[g] \in {"out", "ready"} \/ Met(g) THEN NoCall ELSE call[g]],
       waits <- {g \in Gs : Waits(g)},
       got <- [g \in Gs |-> IF Met(g) THEN Handed(g) ELSE result[g]]
ChannelSpec == A!Spec
=============================================================================
