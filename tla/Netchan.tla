------------------------------- MODULE Netchan ------------------------------
(***************************************************************************)
(* Package netchan (pkg/netchan): channels carried over one connection     *)
(* between an exporter and an importer.  A channel in Down is exported     *)
(* with Send and imported with Recv, any other the other way round.  The   *)
(* sending end has Size credits and takes a value from its local channel   *)
(* only with a credit; the receiving end returns a credit when the value   *)
(* has reached its local channel.  Data that goes down is numbered and     *)
(* acknowledged besides, for Drain and Sync.                               *)
(*                                                                         *)
(* A write returns when the connection has taken it, which holds Buffer    *)
(* items that nobody has read (none for net.Pipe); the writer has encLock  *)
(* until then.                                                             *)
(***************************************************************************)
EXTENDS Integers, Sequences, FiniteSets, SequencesExt

CONSTANTS Chans,    \* the channels, by name and id
          Down,     \* those whose values go from exporter to importer
          Size,     \* the buffer size asked for
          Count,    \* the number of values asked for; -1 is unlimited
          Cap,      \* the capacity of the local channels
          ErrCap,   \* the capacity of Importer.errors
          Buffer,   \* the items that the connection takes ahead of its reader
          MaxVals,  \* bound on the values sent through a channel
          Faults,   \* what may happen: hangups, closes, a failing connection
          None      \* nothing in hand, nobody

VARIABLES
  names,    \* exp.names
  chans,    \* the ids in client.chans and imp.chans
  src,      \* the local channel at the sending end
  dst,      \* the local channel at the receiving end
  tx,       \* the netChan at the sending end and its goroutine
  rx,       \* the netChan at the receiving end and the goroutine of sender
  wire,     \* what has been written for either side and not read
  run,      \* where the two run loops are
  cur,      \* the header that each of them works on
  encLock,  \* encLock of either side: who is in encode
  seqNum,   \* client.seqNum
  ackNum,   \* client.ackNum
  mu,       \* client.mu, while its owner waits for seqLock
  seqLock,  \* client.seqLock
  chanLock, \* imp.chanLock, while its owner writes its request
  conn,     \* the connection works
  errors,   \* length of imp.errors
  imported, \* the channels that have been imported
  hung,     \* the channels hung up at either side
  panic,    \* a goroutine has panicked
  sent,     \* the values put into src, which are 1 .. sent
  got       \* the values taken from dst

ends == <<src, dst, sent, got>>
seqs == <<seqNum, ackNum, mu, seqLock>>
setup == <<names, chans, imported, hung>>
loops == <<run, cur, errors>>
link == <<wire, encLock>>
vars == <<ends, seqs, setup, loops, link, chanLock, tx, rx, conn, panic>>

Empty == [buf |-> <<>>, closed |-> FALSE]
Init == /\ names = {} /\ chans = [exp |-> {}, imp |-> {}] /\ imported = {}
        /\ hung = {}
        /\ src = [c \in Chans |-> Empty] /\ dst = [c \in Chans |-> Empty]
        /\ tx = [c \in Chans |-> [pc |-> "none", space |-> Size, ackCh |-> 0, closed |-> FALSE,
                                  val |-> None, seq |-> 0, left |-> Count]]
        /\ rx = [c \in Chans |-> [pc |-> "none", sendCh |-> <<>>, closed |-> FALSE,
                                  val |-> None, count |-> Count]]
        /\ wire = [exp |-> <<>>, imp |-> <<>>] /\ encLock = [exp |-> None, imp |-> None]
        /\ run = [exp |-> "header", imp |-> "header"]
        /\ cur = [exp |-> None, imp |-> None] /\ errors = 0
        /\ seqNum = 0 /\ ackNum = 0 /\ mu = None /\ seqLock = None /\ chanLock = None
        /\ conn = TRUE /\ panic = FALSE
        /\ sent = [c \in Chans |-> 0] /\ got = [c \in Chans |-> 0]

-----------------------------------------------------------------------------
\* What is written: a header with what belongs to it, but for data, whose value
\* is an item of its own, since its reader does other things between the two.
Data(c, seq) == [t |-> "payData", c |-> c, seq |-> seq]
Value(c, v) == [t |-> "value", c |-> c, v |-> v]
Msg(t, c) == [t |-> t, c |-> c]
Ack(n) == [t |-> "payAck", seq |-> n]
Peer(c) == IF c \in Down THEN "imp" ELSE "exp"       \* who receives c's values
Sender(c) == IF c \in Down THEN "exp" ELSE "imp"
Far(side) == IF side = "exp" THEN "imp" ELSE "exp"
Room(ch) == Len(ch.buf) < Cap

\* Who writes: a run loop, a goroutine that sends values or acknowledgements, a
\* caller of ImportNValues.
Loop == <<"loop", None>>
Tx(c) == <<"tx", c>>
Rx(c) == <<"rx", c>>
Importing(c) == <<"import", c>>

\* encDec.encode: m is written under encLock, which me keeps when the connection
\* is full.  Without a connection the error is ignored or met by the caller.
Full(side) == conn /\ Len(wire[Far(side)]) >= Buffer
Written(side, m) == IF conn THEN [wire EXCEPT ![Far(side)] = Append(@, m)] ELSE wire
encode(side, me, m) ==
  /\ encLock[side] = None
  /\ wire' = Written(side, m)
  /\ encLock' = [encLock EXCEPT ![side] = IF Full(side) THEN me ELSE None]

\* The connection has taken what was written last, or has failed.
Taken(side) == Len(wire[Far(side)]) <= Buffer \/ ~conn

\* encode returns to a writer that had to wait, and the locks that it holds
\* during the call are given up.  An error ends the goroutine.
Return(side) ==
  LET me == encLock[side]
      failed == Len(wire[Far(side)]) > Buffer
  IN /\ ~panic /\ me # None /\ Taken(side)
     /\ ~(me[1] = "tx" /\ tx[me[2]].pc = "value")
     /\ encLock' = [encLock EXCEPT ![side] = None]
     /\ seqLock' = IF me[1] = "tx" /\ seqLock = me[2] THEN None ELSE seqLock
     /\ chanLock' = IF me[1] = "import" THEN None ELSE chanLock
     /\ tx' = IF failed /\ me[1] \in {"tx", "import"} /\ Sender(me[2]) = side
              THEN [tx EXCEPT ![me[2]].pc = "done"] ELSE tx
     /\ UNCHANGED <<ends, setup, loops, seqNum, ackNum, mu, rx, wire, conn, panic>>

\* sendAck: whether one is sent, and the count.
AcksTooFew(c) == rx[c].count < 0 \/ rx[c].count > Size + 1   \* off by one
Acks(c) == rx[c].count < 0 \/ rx[c].count > Size
Counted(r) == [r EXCEPT !.count = IF @ > 0 THEN @ - 1 ELSE @]

\* netChan.send, called by the run loop of side, which goes on to sendAck.
send(side, c, v) ==
  LET direct == rx[c].pc = "none"
      boom == IF direct THEN dst[c].closed ELSE rx[c].closed \/ Len(rx[c].sendCh) >= Size
      fits == direct /\ Room(dst[c])
      acks == ~boom /\ fits /\ Acks(c)
  IN /\ panic' = boom
     /\ run' = [run EXCEPT ![side] = IF acks THEN "sendAck" ELSE "header"]
     /\ cur' = [cur EXCEPT ![side] = IF acks THEN @ ELSE None]
     /\ \/ boom /\ UNCHANGED <<dst, rx>>
        \/ /\ ~boom /\ fits
           /\ dst' = [dst EXCEPT ![c].buf = Append(@, v)]
           /\ rx' = IF acks THEN rx ELSE [rx EXCEPT ![c] = Counted(@)]
        \/ /\ ~boom /\ ~fits
           /\ rx' = [rx EXCEPT ![c].pc = IF @ = "none" THEN "take" ELSE @,
                               ![c].sendCh = Append(@, v)]
           /\ UNCHANGED dst

\* netChan.close at the receiving end.
close(c) ==
  \/ rx[c].closed /\ UNCHANGED <<rx, dst, panic>>
  \/ /\ ~rx[c].closed
     /\ panic' = (rx[c].pc = "none" /\ dst[c].closed)
     /\ rx' = [rx EXCEPT ![c].closed = ~panic']
     /\ dst' = [dst EXCEPT ![c].closed = @ \/ rx[c].pc = "none"]

\* netChan.acked.
acked(c) == LET boom == tx[c].closed \/ tx[c].ackCh >= Size
            IN /\ panic' = boom
               /\ tx' = IF boom THEN tx ELSE [tx EXCEPT ![c].ackCh = @ + 1]

-----------------------------------------------------------------------------
(* The sending end: serveRecv of the exporter, the goroutine started by    *)
(* ImportNValues of the importer.                                          *)

Going(c, where) == /\ ~panic /\ tx[c].pc = where
                   /\ encLock[Sender(c)] \notin {Tx(c), Importing(c)}

\* recv, its first part: wait for buffer space.  A closed ackCh never blocks.
AwaitCredit(c) ==
  /\ Going(c, "recv")
  /\ \/ /\ tx[c].space > 0
        /\ tx' = [tx EXCEPT ![c].space = @ - 1, ![c].pc = "take"]
     \/ /\ tx[c].space = 0 /\ (tx[c].ackCh > 0 \/ tx[c].closed)
        /\ tx' = [tx EXCEPT ![c].ackCh = IF @ > 0 THEN @ - 1 ELSE 0, ![c].pc = "take"]
  /\ UNCHANGED <<ends, seqs, setup, loops, link, chanLock, rx, conn, panic>>

\* recv, its second part: the value, or the end of the channel.
Take(c) ==
  /\ Going(c, "take")
  /\ \/ /\ src[c].buf # <<>>
        /\ tx' = [tx EXCEPT ![c].val = Head(src[c].buf),
                            ![c].pc = IF c \in Down THEN "number" ELSE "encode"]
        /\ src' = [src EXCEPT ![c].buf = Tail(@)]
     \/ /\ src[c].buf = <<>> /\ src[c].closed
        /\ tx' = [tx EXCEPT ![c].pc = "closing"]
        /\ UNCHANGED src
  /\ UNCHANGED <<seqs, setup, loops, link, chanLock, dst, sent, got, rx, conn, panic>>

EncodeClosed(c) ==
  /\ Going(c, "closing")
  /\ encode(Sender(c), Tx(c), Msg("payClosed", c))
  /\ tx' = [tx EXCEPT ![c].pc = "done"]
  /\ UNCHANGED <<ends, seqs, setup, loops, chanLock, rx, conn, panic>>

\* serveRecv without seqLock: the number is taken, the message follows later.
NumberUnlocked(c) ==
  /\ Going(c, "number") /\ mu = None
  /\ seqNum' = seqNum + 1
  /\ tx' = [tx EXCEPT ![c].pc = "encode", ![c].seq = seqNum']
  /\ UNCHANGED <<ends, setup, loops, link, chanLock, ackNum, mu, seqLock, rx, conn, panic>>

\* serveRecv: a sequence number, and seqLock before mu is given up.
Number(c) ==
  /\ Going(c, "number") /\ mu = None
  /\ seqNum' = seqNum + 1
  /\ \/ seqLock = None /\ seqLock' = c /\ UNCHANGED mu
     \/ seqLock # None /\ mu' = c /\ UNCHANGED seqLock
  /\ tx' = [tx EXCEPT ![c].pc = IF seqLock = None THEN "encode" ELSE "seqLock",
                      ![c].seq = seqNum']
  /\ UNCHANGED <<ends, setup, loops, link, chanLock, ackNum, rx, conn, panic>>

LockSeq(c) ==
  /\ Going(c, "seqLock") /\ seqLock = None
  /\ seqLock' = c /\ mu' = None
  /\ tx' = [tx EXCEPT ![c].pc = "encode"]
  /\ UNCHANGED <<ends, setup, loops, link, chanLock, seqNum, ackNum, rx, conn, panic>>

\* encode of a value: the header; encLock is kept for the value.
EncodeHeader(c) ==
  LET side == Sender(c)
  IN /\ Going(c, "encode") /\ encLock[side] = None
     /\ wire' = Written(side, Data(c, tx[c].seq))
     /\ encLock' = [encLock EXCEPT ![side] = Tx(c)]
     /\ tx' = [tx EXCEPT ![c].pc = "value"]
     /\ UNCHANGED <<ends, seqs, setup, loops, chanLock, rx, conn, panic>>

\* The value, and the loop goes on until its count is used up.  A failed encode
\* ends it.
EncodeValue(c) ==
  LET side == Sender(c)
      last == ~conn \/ tx[c].left = 1
  IN /\ ~panic /\ tx[c].pc = "value" /\ Taken(side)
     /\ wire' = Written(side, Value(c, tx[c].val))
     /\ encLock' = [encLock EXCEPT ![side] = IF Full(side) THEN @ ELSE None]
     /\ seqLock' = IF seqLock = c /\ ~Full(side) THEN None ELSE seqLock
     /\ tx' = [tx EXCEPT ![c].val = None, ![c].seq = 0, ![c].pc = IF last THEN "done" ELSE "recv",
                         ![c].left = IF @ > 0 THEN @ - 1 ELSE @]
     /\ UNCHANGED <<ends, setup, loops, chanLock, seqNum, ackNum, mu, rx, conn, panic>>

-----------------------------------------------------------------------------
(* The receiving end: the goroutine of sender, which recovers from panics. *)

Resting(c) == ~panic /\ encLock[Peer(c)] # Rx(c)

TakeQueued(c) ==
  /\ Resting(c) /\ rx[c].pc = "take"
  /\ \/ /\ rx[c].sendCh # <<>>
        /\ rx' = [rx EXCEPT ![c].val = Head(rx[c].sendCh), ![c].sendCh = Tail(@),
                            ![c].pc = "put"]
        /\ UNCHANGED dst
     \/ /\ rx[c].sendCh = <<>> /\ rx[c].closed
        /\ rx' = [rx EXCEPT ![c].pc = "done"]
        /\ dst' = [dst EXCEPT ![c].closed = TRUE]
  /\ UNCHANGED <<seqs, setup, loops, link, chanLock, src, sent, got, tx, conn, panic>>

Put(c) ==
  /\ ~panic /\ rx[c].pc = "put"
  /\ \/ /\ dst[c].closed
        /\ rx' = [rx EXCEPT ![c].pc = "done", ![c].val = None]
        /\ UNCHANGED dst
     \/ /\ ~dst[c].closed /\ Room(dst[c])
        /\ dst' = [dst EXCEPT ![c].buf = Append(@, rx[c].val)]
        /\ rx' = [rx EXCEPT ![c] = IF Acks(c) THEN [@ EXCEPT !.pc = "sendAck", !.val = None]
                                   ELSE Counted([@ EXCEPT !.pc = "take", !.val = None])]
  /\ UNCHANGED <<seqs, setup, loops, link, chanLock, src, sent, got, tx, conn, panic>>

SenderAcks(c) ==
  /\ ~panic /\ rx[c].pc = "sendAck"
  /\ encode(Peer(c), Rx(c), Msg("payAckSend", c))
  /\ rx' = [rx EXCEPT ![c] = Counted([@ EXCEPT !.pc = "take"])]
  /\ UNCHANGED <<ends, seqs, setup, loops, chanLock, tx, conn, panic>>

-----------------------------------------------------------------------------
(* What the two run loops have in common.                                  *)

Popped(who) == [wire EXCEPT ![who] = Tail(@)]
Next1(who) == Head(wire[who])
At(who, where) == ~panic /\ run[who] = where /\ encLock[who] # Loop
Reads(who, t) == /\ At(who, "header") /\ wire[who] # <<>>
                 /\ Next1(who).t = t
Goes(who, where, m) == /\ run' = [run EXCEPT ![who] = where]
                       /\ cur' = [cur EXCEPT ![who] = m]

\* The value that belongs to the header read before, and send.
Receive(who) ==
  /\ At(who, "value") /\ wire[who] # <<>> /\ wire' = Popped(who)
  /\ send(who, cur[who].c, Next1(who).v)
  /\ UNCHANGED <<seqs, setup, errors, encLock, chanLock, src, sent, got, tx, conn>>

LoopAcks(who) ==
  /\ At(who, "sendAck")
  /\ encode(who, Loop, Msg("payAckSend", cur[who].c))
  /\ rx' = [rx EXCEPT ![cur[who].c] = Counted(@)]
  /\ Goes(who, "header", None)
  /\ UNCHANGED <<ends, seqs, setup, errors, chanLock, tx, conn, panic>>

\* A header that cannot be decoded: the connection has failed, or a value is
\* next, left there by a loop that did not know its channel.
Stray(who) == run[who] = "header" /\ wire[who] # <<>> /\ Next1(who).t = "value"
Broken(who) == At(who, "header") /\ (~conn \/ Stray(who))

-----------------------------------------------------------------------------
(* expClient.run: one message from the importer.                           *)

\* payRequest and newChan; serveRecv is started for a channel that goes down.
ServeRequest ==
  /\ Reads("exp", "payRequest") /\ wire' = Popped("exp")
  /\ LET c == Next1("exp").c
     IN \/ /\ c \in names
           /\ chans' = [chans EXCEPT !.exp = @ \union {c}]
           /\ tx' = IF c \in Down THEN [tx EXCEPT ![c].pc = "recv"] ELSE tx
           /\ UNCHANGED <<run, cur>>
        \/ /\ c \notin names /\ Goes("exp", "sendError", Next1("exp"))
           /\ UNCHANGED <<chans, tx>>
  /\ UNCHANGED <<ends, seqs, errors, encLock, chanLock, names, imported, hung, rx, conn, panic>>

\* sendError, which takes mu afterwards.
SendError ==
  /\ At("exp", "sendError")
  /\ encode("exp", Loop, Msg("payError", cur.exp.c))
  /\ Goes("exp", "mu", cur.exp)
  /\ UNCHANGED <<ends, seqs, setup, errors, chanLock, tx, rx, conn, panic>>

\* payData and serveSend.  With an unknown id the value is left in the stream.
ServeSend ==
  /\ Reads("exp", "payData") /\ wire' = Popped("exp")
  /\ IF Next1("exp").c \in chans.exp THEN Goes("exp", "value", Next1("exp"))
     ELSE UNCHANGED <<run, cur>>
  /\ UNCHANGED <<ends, seqs, setup, errors, encLock, chanLock, tx, rx, conn, panic>>

\* serveSend returns when it cannot decode the value.
ExpNoValue == /\ At("exp", "value") /\ ~conn /\ Goes("exp", "header", None)
              /\ UNCHANGED <<ends, seqs, setup, errors, link, chanLock, tx, rx, conn, panic>>

\* payClosed and serveClosed.
ServeClosed ==
  /\ Reads("exp", "payClosed") /\ wire' = Popped("exp")
  /\ IF Next1("exp").c \in chans.exp THEN close(Next1("exp").c)
     ELSE UNCHANGED <<rx, dst, panic>>
  /\ UNCHANGED <<seqs, setup, loops, encLock, chanLock, src, sent, got, tx, conn>>

\* payAck, up to mu.
ServeAck ==
  /\ Reads("exp", "payAck") /\ wire' = Popped("exp")
  /\ Goes("exp", "mu", Next1("exp"))
  /\ UNCHANGED <<ends, seqs, setup, errors, encLock, chanLock, tx, rx, conn, panic>>

\* What is done under mu: the acknowledged number, or the end of sendError.
UnderMu ==
  /\ At("exp", "mu") /\ mu = None
  /\ ackNum' = IF cur.exp.t = "payAck" /\ ackNum < cur.exp.seq THEN cur.exp.seq ELSE ackNum
  /\ Goes("exp", "header", None)
  /\ UNCHANGED <<ends, setup, errors, link, chanLock, seqNum, mu, seqLock, tx, rx, conn, panic>>

\* payAckSend.
ServeAckSend ==
  /\ Reads("exp", "payAckSend") /\ wire' = Popped("exp")
  /\ IF Next1("exp").c \in chans.exp THEN acked(Next1("exp").c)
     ELSE UNCHANGED <<tx, panic>>
  /\ UNCHANGED <<ends, seqs, setup, loops, encLock, chanLock, rx, conn>>

\* delClient.
ExpEnd == /\ Broken("exp") /\ Goes("exp", "dead", None)
          /\ UNCHANGED <<ends, seqs, setup, errors, link, chanLock, tx, rx, conn, panic>>

-----------------------------------------------------------------------------
(* Importer.run: one message from the exporter.                            *)

\* shutdown: every channel that receives is closed.  As many can panic as
\* close a local channel twice.
shutdown ==
  LET closing == {c \in chans.imp \intersect Down : ~rx[c].closed}
      now == {c \in closing : rx[c].pc = "none"}
  IN /\ At("imp", "shutdown") /\ chanLock = None
     /\ Goes("imp", "dead", None)
     /\ panic' = \E c \in now : dst[c].closed
     /\ rx' = [c \in Chans |-> [rx[c] EXCEPT !.closed = @ \/ c \in closing]]
     /\ dst' = [c \in Chans |-> [dst[c] EXCEPT !.closed = @ \/ c \in now]]
     /\ UNCHANGED <<seqs, setup, errors, link, chanLock, src, sent, got, tx, conn>>

ImpHeader ==
  /\ \E t \in {"payData", "payClosed", "payAckSend"} : Reads("imp", t)
  /\ wire' = Popped("imp") /\ Goes("imp", "getChan", Next1("imp"))
  /\ UNCHANGED <<ends, seqs, setup, errors, encLock, chanLock, tx, rx, conn, panic>>

\* getChan.  The netChan is used afterwards; an unknown one ends the round.
getChan ==
  /\ At("imp", "getChan") /\ chanLock = None
  /\ \/ cur.imp.c \in chans.imp /\ Goes("imp", cur.imp.t, cur.imp)
     \/ cur.imp.c \notin chans.imp /\ Goes("imp", "header", None)
  /\ UNCHANGED <<ends, seqs, setup, errors, link, chanLock, tx, rx, conn, panic>>

\* payData: the acknowledgement goes out before the value is read.
AckData ==
  /\ At("imp", "payData")
  /\ encode("imp", Loop, Ack(cur.imp.seq))
  /\ Goes("imp", "value", cur.imp)
  /\ UNCHANGED <<ends, seqs, setup, errors, chanLock, tx, rx, conn, panic>>

\* The value cannot be decoded: the loop ends here without shutdown.
ImpNoValue == /\ At("imp", "value") /\ ~conn /\ Goes("imp", "dead", None)
              /\ UNCHANGED <<ends, seqs, setup, errors, link, chanLock, tx, rx, conn, panic>>

CloseLocal ==
  /\ At("imp", "payClosed") /\ Goes("imp", "header", None)
  /\ close(cur.imp.c)
  /\ UNCHANGED <<seqs, setup, errors, link, chanLock, src, sent, got, tx, conn>>

Credit ==
  /\ At("imp", "payAckSend") /\ Goes("imp", "header", None)
  /\ acked(cur.imp.c)
  /\ UNCHANGED <<ends, seqs, setup, errors, link, chanLock, rx, conn>>

\* payError: to imp.errors, or the end when that is full.  When its text cannot be
\* decoded the loop ends without shutdown.
ImpError ==
  /\ Reads("imp", "payError") /\ wire' = Popped("imp")
  /\ \/ errors < ErrCap /\ errors' = errors + 1 /\ UNCHANGED <<run, cur>>
     \/ errors >= ErrCap /\ Goes("imp", "shutdown", None) /\ UNCHANGED errors
     \/ ~conn /\ Goes("imp", "dead", None) /\ UNCHANGED errors
  /\ UNCHANGED <<ends, seqs, setup, encLock, chanLock, tx, rx, conn, panic>>

ImpEnd == /\ Broken("imp") /\ Goes("imp", "shutdown", None)
          /\ UNCHANGED <<ends, seqs, setup, errors, link, chanLock, tx, rx, conn, panic>>

-----------------------------------------------------------------------------
(* The calls of the program at either side.                                *)

Export(c) ==
  /\ ~panic /\ c \notin names /\ names' = names \union {c}
  /\ UNCHANGED <<ends, seqs, loops, link, chanLock, chans, imported, hung, tx, rx, conn, panic>>

\* ImportNValues, with chanLock from here to its return; each name is imported once.
ImportNValues(c) ==
  /\ ~panic /\ c \notin imported /\ chanLock = None
  /\ imported' = imported \union {c} /\ chanLock' = c
  /\ chans' = [chans EXCEPT !.imp = @ \union {c}]
  /\ UNCHANGED <<ends, seqs, loops, link, names, hung, tx, rx, conn, panic>>

\* Its request.
Request(c) ==
  /\ ~panic /\ chanLock = c
  /\ encode("imp", Importing(c), Msg("payRequest", c))
  /\ chanLock' = IF Full("imp") THEN c ELSE None
  /\ tx' = IF c \notin Down /\ conn THEN [tx EXCEPT ![c].pc = "recv"] ELSE tx
  /\ UNCHANGED <<ends, seqs, loops, setup, rx, conn, panic>>

\* Exporter.Hangup.
ExpHangup(c) ==
  /\ "hangup" \in Faults /\ ~panic /\ c \in names
  /\ names' = names \ {c} /\ hung' = hung \union {c}
  /\ \/ /\ c \in Down /\ panic' = src[c].closed
        /\ src' = [src EXCEPT ![c].closed = TRUE] /\ UNCHANGED dst
     \/ /\ c \notin Down /\ panic' = dst[c].closed
        /\ dst' = [dst EXCEPT ![c].closed = TRUE] /\ UNCHANGED src
  /\ UNCHANGED <<seqs, loops, link, chanLock, chans, imported, sent, got, tx, rx, conn>>

\* Importer.Hangup.
ImpHangup(c) ==
  /\ "hangup" \in Faults /\ ~panic /\ c \in chans.imp /\ chanLock = None
  /\ chans' = [chans EXCEPT !.imp = @ \ {c}] /\ hung' = hung \union {c}
  /\ \/ c \in Down /\ close(c) /\ UNCHANGED <<src, tx>>
     \/ /\ c \notin Down /\ panic' = src[c].closed
        /\ src' = [src EXCEPT ![c].closed = TRUE]
        /\ tx' = [tx EXCEPT ![c].closed = TRUE]
        /\ UNCHANGED <<dst, rx>>
  /\ UNCHANGED <<seqs, loops, link, chanLock, names, imported, sent, got, conn>>

\* The local channels are used.
AppSend(c) ==
  /\ ~panic /\ ~src[c].closed /\ Room(src[c]) /\ sent[c] < MaxVals
  /\ src' = [src EXCEPT ![c].buf = Append(@, sent[c] + 1)]
  /\ sent' = [sent EXCEPT ![c] = @ + 1]
  /\ UNCHANGED <<seqs, setup, loops, link, chanLock, dst, got, tx, rx, conn, panic>>
AppClose(c) ==
  /\ "close" \in Faults /\ ~panic /\ ~src[c].closed
  /\ src' = [src EXCEPT ![c].closed = TRUE]
  /\ UNCHANGED <<seqs, setup, loops, link, chanLock, dst, sent, got, tx, rx, conn, panic>>
AppRecv(c) ==
  /\ ~panic /\ dst[c].buf # <<>>
  /\ dst' = [dst EXCEPT ![c].buf = Tail(@)]
  /\ got' = [got EXCEPT ![c] = Head(dst[c].buf)]
  /\ UNCHANGED <<seqs, setup, loops, link, chanLock, src, sent, tx, rx, conn, panic>>

ConnFail == /\ "conn" \in Faults /\ conn /\ conn' = FALSE /\ ~panic
            /\ UNCHANGED <<ends, seqs, setup, loops, link, chanLock, tx, rx, panic>>

\* Each goroutine's steps.
Goroutine(c) == AwaitCredit(c) \/ Take(c) \/ EncodeClosed(c) \/ Number(c) \/ LockSeq(c)
                \/ EncodeHeader(c) \/ EncodeValue(c) \/ Request(c)
SenderRun(c) == TakeQueued(c) \/ Put(c) \/ SenderAcks(c)
ExpRun == Receive("exp") \/ LoopAcks("exp") \/ ServeRequest \/ SendError \/ ServeSend
          \/ ExpNoValue \/ ServeClosed \/ ServeAck \/ UnderMu \/ ServeAckSend \/ ExpEnd
ImpRun == Receive("imp") \/ LoopAcks("imp") \/ ImpHeader \/ getChan \/ AckData
          \/ ImpNoValue \/ CloseLocal \/ Credit \/ ImpError \/ ImpEnd \/ shutdown
Calls(c) == Export(c) \/ ImportNValues(c) \/ ExpHangup(c) \/ ImpHangup(c)
            \/ AppSend(c) \/ AppClose(c)

Next == (\E c \in Chans : Goroutine(c) \/ SenderRun(c) \/ Calls(c) \/ AppRecv(c))
        \/ Return("exp") \/ Return("imp") \/ ExpRun \/ ImpRun \/ ConnFail

Spec == Init /\ [][Next]_vars

\* The processes run, and the program at the receiving end reads its channels.
Fairness == /\ \A c \in Chans : /\ WF_vars(Goroutine(c)) /\ WF_vars(SenderRun(c))
                                /\ WF_vars(AppRecv(c))
            /\ WF_vars(Return("exp")) /\ WF_vars(Return("imp"))
            /\ WF_vars(ExpRun) /\ WF_vars(ImpRun)
FairSpec == Spec /\ Fairness

-----------------------------------------------------------------------------
\* Values of c that have left the sending end, oldest first.
Hold(v) == IF v = None THEN <<>> ELSE <<v>>
OnWire(c) == LET ms == SelectSeq(wire[Peer(c)], LAMBDA m : m.t = "value" /\ m.c = c)
             IN [i \in DOMAIN ms |-> ms[i].v]
InHand(c) == dst[c].buf \o Hold(rx[c].val) \o rx[c].sendCh \o OnWire(c)
\* Those that have not.
Unsent(c) == Hold(tx[c].val) \o src[c].buf
From(n, k) == [i \in 1 .. k |-> n + i]
Sides == {"exp", "imp"}
Sound == /\ conn /\ ~panic
         /\ \A w \in Sides : run[w] \notin {"dead", "shutdown"} /\ ~Stray(w)

\* Types of the state, and the bounds of the two buffers of a netChan.
TypeOK == /\ names \subseteq Chans /\ imported \subseteq Chans /\ hung \subseteq Chans
          /\ chans.imp \subseteq imported /\ chans.exp \subseteq imported
          /\ \A c \in Chans :
               /\ tx[c].pc \in {"none", "recv", "take", "closing", "number", "seqLock",
                                "encode", "value", "done"}
               /\ rx[c].pc \in {"none", "take", "put", "sendAck", "done"}
               /\ tx[c].space \in 0 .. Size /\ tx[c].ackCh \in 0 .. Size
               /\ Len(rx[c].sendCh) \in 0 .. Size
               /\ Len(src[c].buf) \in 0 .. Cap /\ Len(dst[c].buf) \in 0 .. Cap
          /\ run.exp \in {"header", "value", "sendAck", "sendError", "mu", "dead"}
          /\ run.imp \in {"header", "getChan", "payData", "payClosed", "payAckSend",
                          "value", "sendAck", "shutdown", "dead"}
          /\ errors \in 0 .. ErrCap /\ ackNum \in 0 .. seqNum
          /\ {mu, seqLock} \subseteq Down \union {None} /\ chanLock \in Chans \union {None}

\* A channel that nobody has hung up delivers its values in the order in which
\* they were sent and without a gap, also while the connection fails
\* (common.go's send, sender and recv); while both loops run none is lost.
FifoOverNetwork ==
  \A c \in Chans \ hung :
    /\ InHand(c) = From(got[c], Len(InHand(c)))
    /\ Sound => InHand(c) \o Unsent(c) = From(got[c], sent[c] - got[c])

\* A credit is never made or lost: of the Size credits of a channel each is
\* free, spent on a value that has not reached the local channel, or on its
\* way back as payAckSend, which sendAck may still have to write.  With a count
\* the last Size do not come back.
One(b) == IF b THEN 1 ELSE 0
CreditsConserved ==
  \A c \in Chans \ hung :
    Sound =>
      LET ack == Msg("payAckSend", c)
          owed == One(rx[c].pc = "sendAck")
                  + One(run[Peer(c)] = "sendAck" /\ cur[Peer(c)].c = c)
          back == Len(SelectSeq(wire[Sender(c)], LAMBDA m : m = ack)) + One(cur.imp = ack)
          spent == Len(InHand(c)) - Len(dst[c].buf)
                   + One(tx[c].pc \in {"take", "number", "seqLock", "encode", "value"})
          all == tx[c].space + tx[c].ackCh + spent + owed + back
      IN IF Count < 0 THEN all = Size \/ tx[c].pc \in {"closing", "done"} ELSE all <= Size

\* The panics of common.go:269 and :334 (more values, or more acks, than
\* allowed) and those of the runtime on closed channels do not happen to a
\* program that does not call Hangup.
OnlyHangupPanics == panic => hung # {}

\* The comment at export.go:159-162: messages are sent in the order of their
\* numbers and acknowledged in that order, so that "sequence out of order" is
\* never logged.
AcksInOrder ==
  (Sound /\ hung = {}) =>
    LET Of(w, t) == SelectSeq(w, LAMBDA m : m.t = t /\ m.seq # 0)
        acked1 == IF run.exp = "mu" THEN Of(<<cur.exp>>, "payAck") ELSE <<>>
        reading == IF run.imp \in {"getChan", "payData"} THEN Of(<<cur.imp>>, "payData") ELSE <<>>
        all == acked1 \o Of(wire.exp, "payAck") \o reading \o Of(wire.imp, "payData")
        unwritten == {c \in Down : tx[c].pc \in {"seqLock", "encode"}}
    IN /\ \A i \in DOMAIN all : all[i].seq = ackNum + i
       /\ ackNum + Len(all) = seqNum - Cardinality(unwritten)

\* A local channel is closed only behind its last value: payClosed does not
\* overtake the values that sender still holds (netChan.close).
CloseIsLast ==
  \A c \in Chans \ hung :
    (dst[c].closed /\ Sound) => InHand(c) = dst[c].buf /\ Unsent(c) = <<>>

\* A full connection: neither loop reads, because each has to write, or needs a
\* lock whose owner has to, and neither connection takes more.  Nothing but a
\* failing connection ends this.
Waits(who) == \/ encLock[who] = Loop
              \/ run[who] \in {"payData", "sendAck", "sendError"}
              \/ who = "exp" /\ run.exp = "mu" /\ mu # None /\ seqLock # None
              \/ who = "imp" /\ run.imp \in {"getChan", "shutdown"} /\ chanLock # None
Jammed == conn /\ \A who \in Sides : Waits(who) /\ Len(wire[who]) > Buffer

\* That takes several channels, and a connection which holds fewer items than
\* the channels have credits.
NeverJammed == (Buffer >= Cardinality(Chans) * Size \/ Cardinality(Chans) = 1) => ~Jammed

\* What goes in comes out at the other side, unless a loop has ended or the two
\* wait for each other.
Dead == run.exp = "dead" \/ run.imp = "dead"
Underway(c, n) == sent[c] >= n /\ c \in chans.exp /\ (Count < 0 \/ n <= Count)
Arrived(c, n) == got[c] >= n \/ Dead \/ c \in hung \/ panic
ValuesArrive == \A c \in Chans : \A n \in 1 .. MaxVals : Underway(c, n) ~> (Arrived(c, n) \/ Jammed)

\* Readers learn of the end: when the connection fails under the importer's
\* loop between two messages, shutdown closes the channels it receives on, and
\* a close at one side arrives at the other.
ImportBroken(c) == /\ run.imp = "header" /\ ~conn /\ wire.imp = <<>>
                   /\ c \in Down \intersect chans.imp
ClosedFar(c) == src[c].closed /\ c \in chans.exp /\ Count < 0
ReadersSeeTheEnd ==
  \A c \in Chans : /\ ImportBroken(c) ~> (dst[c].closed \/ panic)
                   /\ ClosedFar(c) ~> (dst[c].closed \/ Dead \/ Jammed \/ panic)

\* A channel over the network is a channel: in order, whole up to its end, within
\* its credits, without a panic unless somebody hangs up, and without a jam on a
\* connection that buffers enough.
NetSound == /\ TypeOK /\ FifoOverNetwork /\ CreditsConserved
            /\ OnlyHangupPanics /\ AcksInOrder /\ CloseIsLast /\ NeverJammed
=============================================================================
