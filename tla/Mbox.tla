-------------------------------- MODULE Mbox --------------------------------
(***************************************************************************)
(* A mailbox (kern/sync/mbox.c): a bounded list of messages between the    *)
(* processes asleep in send_msg, because it is full, and those asleep in   *)
(* recv_msg, because it is empty.  Any process may free it while others    *)
(* are inside; the last of them to leave gives it back.  A receiver that   *)
(* cannot store its message puts it back in front.                         *)
(***************************************************************************)
EXTENDS Integers, Sequences, FiniteSets, Timers

CONSTANTS MboxProcs,       \* the processes
          Msgs,            \* the messages that can exist at one time
          Big,             \* those too big for a receiver with a small buffer
          MaxSlots,        \* max_slots of the box
          MboxMaxTimeout,  \* the longest timeout; 0 means none
          NoMsg            \* no message in hand

VARIABLES
  state,            \* mbox->state
  inuse,            \* mbox->inuse
  slots,            \* mbox->slots
  msgs,             \* mbox->msg_link
  senders,          \* mbox->senders
  receivers,        \* mbox->receivers
  mboxPc,           \* user, in send_msg's or recv_msg's sleep, copying out, exited
  msg,              \* the message a process is sending or storing
  small,            \* the receiver's buffer takes no big message
  mbox_wait_state,  \* proc->wait_state
  mboxFlags,        \* wait->wakeup_flags
  mbox_timer_list,  \* the timers
  mboxTimeout,      \* the timeout of the call a process is in
  mboxWaited,       \* ticks since saved_ticks, counted up to timeout
  mboxExiting,      \* PF_EXITING
  mboxPanic         \* an assertion has failed

box == <<state, inuse, slots, msgs>>
waits == <<senders, receivers>>
clock == <<mbox_timer_list, mboxTimeout, mboxWaited>>
mboxVars == <<box, waits, clock, mboxPc, msg, small, mbox_wait_state, mboxFlags, mboxExiting, mboxPanic>>

MboxInit == /\ state = "CLOSED" /\ inuse = 0 /\ slots = 0 /\ msgs = <<>>
            /\ senders = <<>> /\ receivers = <<>>
            /\ mboxPc = [p \in MboxProcs |-> "user"]
            /\ msg = [p \in MboxProcs |-> NoMsg]
            /\ small = [p \in MboxProcs |-> FALSE]
            /\ mbox_wait_state = [p \in MboxProcs |-> "none"]
            /\ mboxFlags = [p \in MboxProcs |-> "INTERRUPTED"]
            /\ mbox_timer_list = <<>>
            /\ mboxTimeout = [p \in MboxProcs |-> 0] /\ mboxWaited = [p \in MboxProcs |-> 0]
            /\ mboxExiting = [p \in MboxProcs |-> FALSE]
            /\ mboxPanic = FALSE

-----------------------------------------------------------------------------
Running(p, where) == mboxPc[p] = where /\ mbox_wait_state[p] = "none" /\ ~mboxPanic
Inside == {p \in MboxProcs : mboxPc[p] \in {"send", "recv"}}
Unused == Msgs \ ({msgs[i] : i \in DOMAIN msgs} \union {msg[p] : p \in MboxProcs})
Without(queue, p) == SelectSeq(queue, LAMBDA q : q # p)

\* trap, after a system call: a process that has been killed exits.
MboxBackToUser(p) == IF mboxExiting[p] THEN "exited" ELSE "user"

\* wakeup_first and wakeup_queue: the processes woken, with the flag given to
\* them.  Here too p, which is not asleep, gives up its wait_t.
FirstOf(queue) == IF queue = <<>> THEN {} ELSE {Head(queue)}
WakeAndForget(p, woken, flag) ==
  /\ mbox_wait_state' = [q \in MboxProcs |-> IF q \in woken THEN "none" ELSE mbox_wait_state[q]]
  /\ mboxFlags' = [q \in MboxProcs |-> IF q \in woken THEN flag
                                       ELSE IF q = p THEN "INTERRUPTED" ELSE mboxFlags[q]]

\* Leaving send_msg or recv_msg, and ipc_del_timer.
Leave(p, where) ==
  /\ mboxPc' = [mboxPc EXCEPT ![p] = where]
  /\ mbox_timer_list' = del_timer(mbox_timer_list, p)
  /\ mboxTimeout' = [mboxTimeout EXCEPT ![p] = 0] /\ mboxWaited' = [mboxWaited EXCEPT ![p] = 0]
  /\ small' = [small EXCEPT ![p] = FALSE]
  /\ inuse' = inuse - (IF p \in Inside THEN 1 ELSE 0)

\* add_timer, with the assertion it begins with.
AddTimer(list, p, t, expires) ==
  /\ mbox_timer_list' = IF t # 0 /\ expires > 0 THEN add_timer(list, p, expires) ELSE list
  /\ mboxPanic' = (t # 0 /\ expires = 0)

\* The first wait of a call: wait_current_set, and the timer is started.
FirstWait(p, where, t) ==
  /\ mboxPc' = [mboxPc EXCEPT ![p] = where]
  /\ inuse' = inuse + 1
  /\ mboxTimeout' = [mboxTimeout EXCEPT ![p] = t]
  /\ mboxWaited' = [mboxWaited EXCEPT ![p] = 0]
  /\ AddTimer(mbox_timer_list, p, t, t)

\* Another wait of the same call: the timer is started again with what
\* timer->expires holds, its distance to the timer in front of it.
WaitAgain(p) ==
  LET expires == IF HasTimer(mbox_timer_list, p)
                 THEN mbox_timer_list[CHOOSE i \in DOMAIN mbox_timer_list : mbox_timer_list[i].proc = p].expires
                 ELSE 0
  IN  /\ AddTimer(del_timer(mbox_timer_list, p), p, mboxTimeout[p], expires)
      /\ UNCHANGED <<mboxPc, inuse, mboxTimeout, mboxWaited>>

MboxSleep(p, why) == /\ mbox_wait_state' = [mbox_wait_state EXCEPT ![p] = why]
                     /\ mboxFlags' = [mboxFlags EXCEPT ![p] = "INTERRUPTED"]

\* add_msg wakes the first receiver; ms is the list with the message in it.
add_msg(p, ms) ==
  /\ msgs' = ms /\ slots' = slots + 1
  /\ receivers' = IF receivers = <<>> THEN <<>> ELSE Tail(receivers)
  /\ WakeAndForget(p, FirstOf(receivers), "MBOX_RECV")

\* The end of send_msg and recv_msg, and mbox_free: the last one out of a box
\* that is closing gives it back.
mbox_free ==
  /\ state' = IF state = "CLOSING" /\ inuse = 1 THEN "CLOSED" ELSE state
  /\ slots' = IF state = "CLOSING" /\ inuse = 1 THEN 0 ELSE slots

-----------------------------------------------------------------------------
\* ipc_mbox_init and new_mbox, when the box is the free one taken.
ipc_mbox_init(p) ==
  /\ Running(p, "user") /\ state = "CLOSED"
  /\ state' = "OPENED"
  /\ mboxPc' = [mboxPc EXCEPT ![p] = MboxBackToUser(p)]
  /\ UNCHANGED <<inuse, slots, msgs, waits, clock, msg, small, mbox_wait_state, mboxFlags, mboxExiting, mboxPanic>>

\* ipc_mbox_send and send_msg up to its sleep or its end.
ipc_mbox_send(p, m, t) ==
  /\ Running(p, "user") /\ state = "OPENED" /\ m \in Unused
  /\ \/ /\ slots >= MaxSlots
        /\ senders' = Append(senders, p)
        /\ msg' = [msg EXCEPT ![p] = m]
        /\ MboxSleep(p, "MBOX_SEND")
        /\ FirstWait(p, "send", t)
        /\ UNCHANGED <<slots, msgs, receivers, small>>
     \/ /\ slots < MaxSlots
        /\ add_msg(p, Append(msgs, m))
        /\ Leave(p, MboxBackToUser(p))
        /\ UNCHANGED <<senders, msg, mboxPanic>>
  /\ UNCHANGED <<state, mboxExiting>>

\* send_msg after schedule.
MboxSendResume(p) ==
  /\ Running(p, "send")
  /\ \/ /\ state # "OPENED" \/ mboxFlags[p] # "MBOX_SEND"
        /\ senders' = Without(senders, p)
        /\ msg' = [msg EXCEPT ![p] = NoMsg]
        /\ Leave(p, MboxBackToUser(p))
        /\ WakeAndForget(p, {}, "INTERRUPTED")
        /\ mbox_free
        /\ UNCHANGED <<msgs, receivers, mboxPanic>>
     \/ /\ state = "OPENED" /\ mboxFlags[p] = "MBOX_SEND" /\ slots >= MaxSlots
        /\ senders' = Append(senders, p)
        /\ MboxSleep(p, "MBOX_SEND")
        /\ WaitAgain(p)
        /\ UNCHANGED <<state, slots, msgs, receivers, small, msg>>
     \/ /\ state = "OPENED" /\ mboxFlags[p] = "MBOX_SEND" /\ slots < MaxSlots
        /\ add_msg(p, Append(msgs, msg[p]))
        /\ msg' = [msg EXCEPT ![p] = NoMsg]
        /\ Leave(p, MboxBackToUser(p))
        /\ UNCHANGED <<state, senders, mboxPanic>>
  /\ UNCHANGED mboxExiting

\* pick_msg and the end of recv_msg, for a box with messages: the first message
\* is too big and another receiver is woken, or it is taken and a sender is.
PickWakesNoSender(p, tooBig) ==
  /\ IF tooBig
     THEN /\ receivers' = IF receivers = <<>> THEN <<>> ELSE Tail(receivers)
          /\ WakeAndForget(p, FirstOf(receivers), "MBOX_RECV")
          /\ Leave(p, MboxBackToUser(p))
          /\ UNCHANGED <<slots, msgs, senders, msg>>
     ELSE /\ msgs' = Tail(msgs) /\ slots' = slots - 1
          /\ msg' = [msg EXCEPT ![p] = Head(msgs)]
          /\ WakeAndForget(p, {}, "MBOX_SEND")
          /\ Leave(p, "copyout")
          /\ UNCHANGED <<senders, receivers>>
  /\ UNCHANGED <<state, mboxPanic>>

Pick(p, tooBig) ==
  /\ IF tooBig
     THEN /\ receivers' = IF receivers = <<>> THEN <<>> ELSE Tail(receivers)
          /\ WakeAndForget(p, FirstOf(receivers), "MBOX_RECV")
          /\ Leave(p, MboxBackToUser(p))
          /\ UNCHANGED <<slots, msgs, senders, msg>>
     ELSE /\ msgs' = Tail(msgs) /\ slots' = slots - 1
          /\ msg' = [msg EXCEPT ![p] = Head(msgs)]
          /\ senders' = IF senders = <<>> THEN <<>> ELSE Tail(senders)
          /\ WakeAndForget(p, FirstOf(senders), "MBOX_SEND")
          /\ Leave(p, "copyout")
          /\ UNCHANGED receivers
  /\ UNCHANGED <<state, mboxPanic>>

\* ipc_mbox_recv and recv_msg up to its sleep or its end.
ipc_mbox_recv(p, sm, t) ==
  /\ Running(p, "user") /\ state = "OPENED"
  /\ \/ /\ slots = 0
        /\ receivers' = Append(receivers, p)
        /\ small' = [small EXCEPT ![p] = sm]
        /\ MboxSleep(p, "MBOX_RECV")
        /\ FirstWait(p, "recv", t)
        /\ UNCHANGED <<state, slots, msgs, senders, msg>>
     \/ /\ slots # 0
        /\ Pick(p, sm /\ Head(msgs) \in Big)
  /\ UNCHANGED mboxExiting

\* recv_msg after schedule.
MboxRecvResume(p) ==
  /\ Running(p, "recv")
  /\ \/ /\ state # "OPENED" \/ mboxFlags[p] # "MBOX_RECV"
        /\ receivers' = Without(receivers, p)
        /\ Leave(p, MboxBackToUser(p))
        /\ WakeAndForget(p, {}, "INTERRUPTED")
        /\ mbox_free
        /\ UNCHANGED <<msgs, senders, msg, mboxPanic>>
     \/ /\ state = "OPENED" /\ mboxFlags[p] = "MBOX_RECV" /\ slots = 0
        /\ receivers' = Append(receivers, p)
        /\ MboxSleep(p, "MBOX_RECV")
        /\ WaitAgain(p)
        /\ UNCHANGED <<state, slots, msgs, senders, small, msg>>
     \/ /\ state = "OPENED" /\ mboxFlags[p] = "MBOX_RECV" /\ slots # 0
        /\ Pick(p, small[p] /\ Head(msgs) \in Big)
  /\ UNCHANGED mboxExiting

\* The rest of ipc_mbox_recv.  lock_mm may sleep before; the message is stored,
\* or the memory is gone and the message goes back to the box that has the
\* number now, if there is one.
MboxCopyOut(p) ==
  /\ Running(p, "copyout")
  /\ msg' = [msg EXCEPT ![p] = NoMsg]
  /\ mboxPc' = [mboxPc EXCEPT ![p] = MboxBackToUser(p)]
  /\ \/ UNCHANGED <<slots, msgs, receivers, mbox_wait_state, mboxFlags>>
     \/ state = "OPENED" /\ add_msg(p, <<msg[p]>> \o msgs)
  /\ UNCHANGED <<state, inuse, senders, clock, small, mboxExiting, mboxPanic>>

\* ipc_mbox_free.
ipc_mbox_free(p) ==
  LET woken == {senders[i] : i \in DOMAIN senders} \union {receivers[i] : i \in DOMAIN receivers} IN
  /\ Running(p, "user") /\ state = "OPENED"
  /\ state' = IF inuse = 0 THEN "CLOSED" ELSE "CLOSING"
  /\ slots' = IF inuse = 0 THEN 0 ELSE slots
  /\ msgs' = <<>> /\ senders' = <<>> /\ receivers' = <<>>
  /\ WakeAndForget(p, woken, "INTERRUPTED")
  /\ mboxPc' = [mboxPc EXCEPT ![p] = MboxBackToUser(p)]
  /\ UNCHANGED <<inuse, clock, msg, small, mboxExiting, mboxPanic>>

\* do_kill: both sleeps can be interrupted.
MboxKill(p, victim) ==
  /\ Running(p, "user") /\ p # victim /\ mboxPc[victim] # "exited"
  /\ mboxExiting' = [mboxExiting EXCEPT ![victim] = TRUE]
  /\ mbox_wait_state' = [mbox_wait_state EXCEPT ![victim] = "none"]
  /\ mboxPc' = [mboxPc EXCEPT ![p] = MboxBackToUser(p)]
  /\ UNCHANGED <<box, waits, clock, msg, small, mboxFlags, mboxPanic>>

MboxExit(p) == /\ Running(p, "user")
               /\ mboxPc' = [mboxPc EXCEPT ![p] = "exited"]
               /\ UNCHANGED <<box, waits, clock, msg, small, mbox_wait_state, mboxFlags, mboxExiting, mboxPanic>>

\* The timer interrupt.
MboxTick ==
  LET S == {firedProcs(mbox_timer_list)[i] : i \in DOMAIN firedProcs(mbox_timer_list)} IN
  /\ ~mboxPanic
  /\ mbox_timer_list' = run_timer_list(mbox_timer_list)
  /\ mbox_wait_state' = [p \in MboxProcs |-> IF p \in S THEN "none" ELSE mbox_wait_state[p]]
  /\ mboxWaited' = [p \in MboxProcs |-> IF mboxWaited[p] < mboxTimeout[p] THEN mboxWaited[p] + 1 ELSE mboxWaited[p]]
  /\ UNCHANGED <<box, waits, mboxPc, msg, small, mboxFlags, mboxTimeout, mboxExiting, mboxPanic>>

-----------------------------------------------------------------------------
MboxCall(p) == \/ ipc_mbox_init(p) \/ ipc_mbox_free(p) \/ MboxExit(p)
               \/ \E t \in 0 .. MboxMaxTimeout : \/ \E m \in Msgs : ipc_mbox_send(p, m, t)
                                                 \/ \E sm \in BOOLEAN : ipc_mbox_recv(p, sm, t)
               \/ \E victim \in MboxProcs : MboxKill(p, victim)

MboxNext == \/ MboxTick
            \/ \E p \in MboxProcs : MboxCall(p) \/ MboxSendResume(p) \/ MboxRecvResume(p) \/ MboxCopyOut(p)

MboxSpec == MboxInit /\ [][MboxNext]_mboxVars

-----------------------------------------------------------------------------
\* Type correctness.
MboxTypeOK ==
  /\ state \in {"CLOSED", "OPENED", "CLOSING"} /\ inuse \in Nat /\ slots \in Nat
  /\ msgs \in Seq(Msgs) /\ senders \in Seq(MboxProcs) /\ receivers \in Seq(MboxProcs)
  /\ mboxPc \in [MboxProcs -> {"user", "send", "recv", "copyout", "exited"}]
  /\ msg \in [MboxProcs -> Msgs \union {NoMsg}] /\ small \in [MboxProcs -> BOOLEAN]
  /\ mbox_wait_state \in [MboxProcs -> {"none", "MBOX_SEND", "MBOX_RECV"}]
  /\ mboxFlags \in [MboxProcs -> {"INTERRUPTED", "MBOX_SEND", "MBOX_RECV"}]
  /\ mbox_timer_list \in Seq(Timer(MboxProcs))
  /\ mboxTimeout \in [MboxProcs -> 0 .. MboxMaxTimeout] /\ mboxWaited \in [MboxProcs -> 0 .. MboxMaxTimeout]
  /\ mboxExiting \in [MboxProcs -> BOOLEAN] /\ mboxPanic \in BOOLEAN

\* A box is not given back, and so not handed out again, while a process is still
\* inside it; a box that is closing has nobody left asleep in it, so that the
\* last one will leave; and what mbox_free, send_msg and recv_msg assert is so.
BoxOK ==
  /\ inuse = Cardinality(Inside)
  /\ state = "OPENED" => slots = Len(msgs)
  /\ state # "OPENED" => msgs = <<>> /\ senders = <<>> /\ receivers = <<>>
  /\ state = "CLOSED" => inuse = 0 /\ slots = 0
  /\ state = "CLOSING" => inuse # 0 /\ \A p \in MboxProcs : mbox_wait_state[p] = "none"

\* While a receiver sleeps, every message in the box is on its way to a receiver
\* that has been woken for one, whatever timeouts, kills, small buffers and
\* messages put back have come between (add_msg, pick_msg, recv_msg).
NoMissedMessage ==
  (\E p \in MboxProcs : mbox_wait_state[p] = "MBOX_RECV") =>
    slots <= Cardinality({p \in MboxProcs : Running(p, "recv") /\ mboxFlags[p] = "MBOX_RECV"})
    \/ mboxPanic

\* While a sender sleeps, every free slot is on its way to a woken sender.
NoMissedSlot ==
  (\E p \in MboxProcs : mbox_wait_state[p] = "MBOX_SEND") =>
    MaxSlots - slots <= Cardinality({p \in MboxProcs : Running(p, "send") /\ mboxFlags[p] = "MBOX_SEND"})
    \/ mboxPanic

\* A timed call, however often it has to wait again, never sleeps past its
\* timeout, and nothing on the kernel's lists outlives the call it belongs to.
NeverLate ==
  ~mboxPanic =>
  \A p \in MboxProcs :
    /\ mbox_wait_state[p] # "none" /\ mboxTimeout[p] # 0 =>
         HasTimer(mbox_timer_list, p) /\ DueIn(mbox_timer_list, p) <= mboxTimeout[p] - mboxWaited[p]
    /\ p \notin Inside => ~HasTimer(mbox_timer_list, p)
    /\ mboxPc[p] # "send" => \A i \in DOMAIN senders : senders[i] # p
    /\ mboxPc[p] # "recv" => \A i \in DOMAIN receivers : receivers[i] # p

\* The assertion at the head of add_timer, timer->expires > 0, holds.
TimerAsserts == ~mboxPanic

\* A mailbox is consistent, wakes for every message and every slot somebody who
\* will take it, and keeps its timeouts.
MboxSound == MboxTypeOK /\ BoxOK /\ NoMissedMessage /\ NoMissedSlot /\ NeverLate
=============================================================================
