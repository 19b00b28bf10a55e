-------------------------------- MODULE Event -------------------------------
(***************************************************************************)
(* Events between processes (kern/sync/event.c).  A sender queues itself   *)
(* in the event_box of the process it names and sleeps; the receiver takes *)
(* the first sender of its own box.  A receiver that finds its box empty   *)
(* sleeps once, and fails if the box is empty again when it runs: the      *)
(* sender that woke it may have timed out, or been killed, first.          *)
(***************************************************************************)
EXTENDS Integers, Sequences, FiniteSets, Timers, KSem

CONSTANTS EventProcs,      \* the processes
          Events,          \* the values an event can have
          EventMaxTimeout  \* the longest timeout; 0 means none

\* What the constants have to be.
EventAssumption == Events # {} /\ EventMaxTimeout \in Nat

VARIABLES
  eventPc,           \* user, inside send_event's or recv_event's sleep, copying out, exited
  queue,             \* proc->event_box.wait_queue, the senders
  event,             \* proc->event_box.event
  to,                \* the process a sender has named
  event_wait_state,  \* proc->wait_state
  eventFlags,        \* wait->wakeup_flags of a sender
  event_timer_list,  \* the timers
  eventTimeout,      \* the timeout of the call a process is in
  eventWaited,       \* ticks since saved_ticks, counted up to timeout
  eventExiting,      \* PF_EXITING
  got                \* what recv_event has returned: the sender and its event

eventVars == <<eventPc, queue, event, to, event_wait_state, eventFlags, event_timer_list, eventTimeout, eventWaited, eventExiting, got>>

EventInit == /\ eventPc = [p \in EventProcs |-> "user"]
             /\ queue = [p \in EventProcs |-> <<>>]
             /\ event = [p \in EventProcs |-> CHOOSE e \in Events : TRUE]
             /\ to = [p \in EventProcs |-> p]
             /\ event_wait_state = [p \in EventProcs |-> "none"]
             /\ eventFlags = [p \in EventProcs |-> "INTERRUPTED"]
             /\ event_timer_list = <<>>
             /\ eventTimeout = [p \in EventProcs |-> 0]
             /\ eventWaited = [p \in EventProcs |-> 0]
             /\ eventExiting = [p \in EventProcs |-> FALSE]
             /\ got = [p \in EventProcs |-> <<>>]

-----------------------------------------------------------------------------
\* trap, after a system call: a process that has been killed goes to do_exit.
EventBackToUser(p) == IF eventExiting[p] THEN "dying" ELSE "user"

\* ipc_timer_init, ipc_add_timer.
StartTimer(p, t) == /\ eventTimeout' = [eventTimeout EXCEPT ![p] = t]
                    /\ eventWaited' = [eventWaited EXCEPT ![p] = 0]
                    /\ event_timer_list' = IF t = 0 THEN event_timer_list ELSE add_timer(event_timer_list, p, t)

\* ipc_del_timer; the saved ticks go with the call.
StopTimer(p) == /\ eventTimeout' = [eventTimeout EXCEPT ![p] = 0]
                /\ eventWaited' = [eventWaited EXCEPT ![p] = 0]
                /\ event_timer_list' = del_timer(event_timer_list, p)

\* ipc_check_timeout, for a call that has not done what it was to do.
ipc_check_timeoutLater(p) ==   \* > for >=
  IF eventTimeout[p] # 0 /\ eventWaited[p] > eventTimeout[p] THEN "E_TIMEOUT" ELSE "-1"
ipc_check_timeout(p) ==
  IF eventTimeout[p] # 0 /\ eventWaited[p] >= eventTimeout[p] THEN "E_TIMEOUT" ELSE "-1"

\* ipc_event_send up to send_event's sleep; a receiver asleep for an event wakes.
Send(p, r, e, t) ==
  /\ eventPc[p] = "user" /\ p # r /\ eventPc[r] # "exited"
  /\ event' = [event EXCEPT ![p] = e]
  /\ to' = [to EXCEPT ![p] = r]
  /\ queue' = [queue EXCEPT ![r] = Append(@, p)]
  /\ event_wait_state' = [event_wait_state EXCEPT ![p] = "EVENT_SEND",
                                                  ![r] = IF @ = "EVENT_RECV" THEN "none" ELSE @]
  /\ eventFlags' = [eventFlags EXCEPT ![p] = "INTERRUPTED"]
  /\ eventPc' = [eventPc EXCEPT ![p] = "send"]
  /\ StartTimer(p, t)
  /\ UNCHANGED <<eventExiting, got>>

SendInvalid(p, r) ==
  /\ eventPc[p] = "user" /\ (p = r \/ eventPc[r] = "exited")
  /\ eventPc' = [eventPc EXCEPT ![p] = EventBackToUser(p)]
  /\ UNCHANGED <<queue, event, to, event_wait_state, eventFlags, event_timer_list, eventTimeout, eventWaited, eventExiting, got>>

\* The wait_t of a sender is on its stack, and its event is set by each send.
EventForget(p) == /\ event' = [event EXCEPT ![p] = CHOOSE e \in Events : TRUE]
                  /\ to' = [to EXCEPT ![p] = p]
                  /\ eventFlags' = [eventFlags EXCEPT ![p] = "INTERRUPTED"]

\* send_event after schedule, and the return from ipc_event_send: 0 when the
\* wait was ended by a receiver, else what ipc_check_timeout says.
EventSendResume(p) ==
  /\ eventPc[p] = "send" /\ event_wait_state[p] = "none"
  /\ queue' = [queue EXCEPT ![to[p]] = wait_current_del(@, p)]
  /\ eventPc' = [eventPc EXCEPT ![p] = EventBackToUser(p)]
  /\ StopTimer(p)
  /\ EventForget(p)
  /\ UNCHANGED <<event_wait_state, eventExiting, got>>

\* recv_event's second half: the first sender is dequeued and woken.
TakeLast(p) ==   \* the sender that came last
  LET s == queue[p][Len(queue[p])] IN
  /\ queue' = [queue EXCEPT ![p] = SubSeq(@, 1, Len(@) - 1)]
  /\ event_wait_state' = [event_wait_state EXCEPT ![s] = "none"]
  /\ eventFlags' = [eventFlags EXCEPT ![s] = "EVENT_SEND"]
  /\ got' = [got EXCEPT ![p] = <<s, event[s]>>]
  /\ eventPc' = [eventPc EXCEPT ![p] = "copyout"]

Take(p) ==
  LET s == Head(queue[p]) IN
  /\ queue' = [queue EXCEPT ![p] = Tail(@)]
  /\ event_wait_state' = [event_wait_state EXCEPT ![s] = "none"]
  /\ eventFlags' = [eventFlags EXCEPT ![s] = "EVENT_SEND"]
  /\ got' = [got EXCEPT ![p] = <<s, event[s]>>]
  /\ eventPc' = [eventPc EXCEPT ![p] = "copyout"]

\* ipc_event_recv: an event is there, or the caller sleeps.
Recv(p, t) ==
  /\ eventPc[p] = "user"
  /\ \/ /\ queue[p] # <<>>
        /\ Take(p)
        /\ UNCHANGED <<event_timer_list, eventTimeout, eventWaited>>
     \/ /\ queue[p] = <<>>
        /\ event_wait_state' = [event_wait_state EXCEPT ![p] = "EVENT_RECV"]
        /\ eventPc' = [eventPc EXCEPT ![p] = "recv"]
        /\ StartTimer(p, t)
        /\ UNCHANGED <<queue, eventFlags, got>>
  /\ UNCHANGED <<event, to, eventExiting>>

\* recv_event after schedule.
EventRecvResume(p) ==
  /\ eventPc[p] = "recv" /\ event_wait_state[p] = "none"
  /\ \/ /\ queue[p] # <<>>
        /\ Take(p)
     \/ /\ queue[p] = <<>>
        /\ eventPc' = [eventPc EXCEPT ![p] = EventBackToUser(p)]
        /\ UNCHANGED <<queue, event_wait_state, eventFlags, got>>
  /\ StopTimer(p)
  /\ UNCHANGED <<event, to, eventExiting>>

\* ipc_event_recv stores the event, or answers E_INVAL when a thread of its own
\* process has unmapped the memory; lock_mm may make it sleep before.
EventCopyOut(p) ==
  /\ eventPc[p] = "copyout"
  /\ got' = [got EXCEPT ![p] = <<>>]
  /\ eventPc' = [eventPc EXCEPT ![p] = EventBackToUser(p)]
  /\ UNCHANGED <<queue, event, to, event_wait_state, eventFlags, event_timer_list, eventTimeout, eventWaited, eventExiting>>

\* do_kill: both event sleeps can be interrupted.
EventKill(p, victim) ==
  /\ eventPc[p] = "user" /\ p # victim /\ eventPc[victim] # "exited"
  /\ eventExiting' = [eventExiting EXCEPT ![victim] = TRUE]
  /\ event_wait_state' = [event_wait_state EXCEPT ![victim] = "none"]
  /\ eventPc' = [eventPc EXCEPT ![p] = EventBackToUser(p)]
  /\ UNCHANGED <<queue, event, to, eventFlags, event_timer_list, eventTimeout, eventWaited, got>>

\* do_exit: the senders in the box are dequeued and woken.
EventExit(p) ==
  LET senders == {queue[p][i] : i \in DOMAIN queue[p]} IN
  /\ eventPc[p] \in {"user", "dying"}
  /\ eventPc' = [eventPc EXCEPT ![p] = "exited"]
  /\ queue' = [queue EXCEPT ![p] = <<>>]
  /\ event_wait_state' = [q \in EventProcs |-> IF q \in senders THEN "none" ELSE event_wait_state[q]]
  /\ eventFlags' = [q \in EventProcs |-> IF q \in senders THEN "INTERRUPTED" ELSE eventFlags[q]]
  /\ UNCHANGED <<event, to, event_timer_list, eventTimeout, eventWaited, eventExiting, got>>

\* The timer interrupt.
EventTick ==
  LET S == {firedProcs(event_timer_list)[i] : i \in DOMAIN firedProcs(event_timer_list)} IN
  /\ event_timer_list' = run_timer_list(event_timer_list)
  /\ event_wait_state' = [p \in EventProcs |-> IF p \in S THEN "none" ELSE event_wait_state[p]]
  /\ eventWaited' = [p \in EventProcs |-> IF eventPc[p] \in {"send", "recv"} /\ eventWaited[p] < eventTimeout[p]
                                          THEN eventWaited[p] + 1 ELSE eventWaited[p]]
  /\ UNCHANGED <<eventPc, queue, event, to, eventFlags, eventTimeout, eventExiting, got>>

-----------------------------------------------------------------------------
EventCall(p) == \/ \E r \in EventProcs, e \in Events, t \in 0 .. EventMaxTimeout : Send(p, r, e, t)
                \/ \E r \in EventProcs : SendInvalid(p, r) \/ EventKill(p, r)
                \/ \E t \in 0 .. EventMaxTimeout : Recv(p, t)
                \/ EventExit(p)

EventNext == \/ EventTick
             \/ \E p \in EventProcs : EventCall(p) \/ EventSendResume(p) \/ EventRecvResume(p) \/ EventCopyOut(p)

EventSpec == EventInit /\ [][EventNext]_eventVars

-----------------------------------------------------------------------------
\* Type correctness.
EventTypeOK ==
  /\ eventPc \in [EventProcs -> {"user", "send", "recv", "copyout", "dying", "exited"}]
  /\ queue \in [EventProcs -> Seq(EventProcs)]
  /\ event \in [EventProcs -> Events] /\ to \in [EventProcs -> EventProcs]
  /\ event_wait_state \in [EventProcs -> {"none", "EVENT_SEND", "EVENT_RECV"}]
  /\ eventFlags \in [EventProcs -> {"EVENT_SEND", "INTERRUPTED"}]
  /\ event_timer_list \in Seq(Timer(EventProcs))
  /\ eventTimeout \in [EventProcs -> 0 .. EventMaxTimeout] /\ eventWaited \in [EventProcs -> 0 .. EventMaxTimeout]
  /\ eventExiting \in [EventProcs -> BOOLEAN]
  /\ got \in [EventProcs -> (EventProcs \X Events) \union {<<>>}]

\* A process that sleeps for an event has none waiting in its box, and one that
\* sleeps to send is in the box of a process that has not exited: whatever
\* timeout, kill or exit comes between, nobody sleeps past the event or past
\* the last chance to be woken (send_event, recv_event, do_exit).
NoMissedEvent ==
  \A p \in EventProcs :
    /\ event_wait_state[p] = "EVENT_RECV" => eventPc[p] = "recv" /\ queue[p] = <<>>
    /\ event_wait_state[p] = "EVENT_SEND" => \E i \in DOMAIN queue[to[p]] : queue[to[p]][i] = p
    /\ eventPc[p] = "exited" => queue[p] = <<>>

\* The wait_t and the timer_t of a call are linked from nowhere once it is over.
EventNoDangling ==
  \A p \in EventProcs :
    /\ eventPc[p] # "send" => \A r \in EventProcs : \A i \in DOMAIN queue[r] : queue[r][i] # p
    /\ eventPc[p] \notin {"send", "recv"} => ~HasTimer(event_timer_list, p)

\* A send answers -1 only to a process that has been killed or whose receiver has
\* exited, never because its timer went off before its timeout had passed.
HonestFailure ==
  \A p \in EventProcs :
    eventPc[p] = "send" /\ event_wait_state[p] = "none" /\ eventFlags[p] = "INTERRUPTED"
      /\ ipc_check_timeout(p) = "-1"
    => eventExiting[p] \/ eventPc[to[p]] = "exited"

\* The call a process is in, and what it will be told.
Told(p) ==
  CASE eventPc[p] = "recv" -> [act |-> "receiving"]
    [] eventPc[p] = "copyout" -> [act |-> "got", from |-> got[p][1], event |-> got[p][2]]
    [] eventPc[p] = "send" /\ eventFlags[p] = "EVENT_SEND" -> [act |-> "sent"]
    [] eventPc[p] = "send" /\ eventFlags[p] # "EVENT_SEND" ->
         IF \E i \in DOMAIN queue[to[p]] : queue[to[p]][i] = p
         THEN [act |-> "sending", to |-> to[p], event |-> event[p]] ELSE [act |-> "failed"]
    [] OTHER -> [act |-> "out"]

\* An event is handed over in one step, by the sender that came first, and both
\* sides are told the same of it, also when both time out at the same tick.
EventPromise == INSTANCE Rendezvous WITH Procs <- EventProcs, st <- [p \in EventProcs |-> Told(p)], box <- queue
RendezvousSpec == /\ EventPromise!Init
                  /\ [][UNCHANGED eventVars \/ EventPromise!Next]_(EventPromise!vars)

\* Sender and receiver of an event never miss each other, leave nothing behind and
\* are told the truth.
EventSound == EventTypeOK /\ NoMissedEvent /\ EventNoDangling /\ HonestFailure
=============================================================================
