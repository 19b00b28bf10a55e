----------------------------- MODULE EventProofs ----------------------------
(***************************************************************************)
(* Events leave nothing behind on a stack, tell both sides the truth, and  *)
(* do what Rendezvous promises, for any number of processes, events and    *)
(* ticks.                                                                  *)
(***************************************************************************)
EXTENDS Event, TimerProofs

-----------------------------------------------------------------------------
\* What holds between the calls besides EventSound: the list and the boxes are well
\* formed, a process is in no box but the one it names and has not been answered
\* there, a sleeper's timer has not yet fired and is due when the rest of its
\* timeout has passed.
EventShape == /\ queue \in [EventProcs -> Seq(EventProcs)]
              /\ \A r \in EventProcs : Line(queue[r], EventProcs)
              /\ TimersOK(event_timer_list, EventProcs)
EventCalls ==
  /\ eventPc \in [EventProcs -> {"user", "send", "recv", "copyout", "dying", "exited"}]
  /\ event \in [EventProcs -> Events] /\ to \in [EventProcs -> EventProcs]
  /\ event_wait_state \in [EventProcs -> {"none", "EVENT_SEND", "EVENT_RECV"}]
  /\ eventFlags \in [EventProcs -> {"EVENT_SEND", "INTERRUPTED"}]
  /\ eventTimeout \in [EventProcs -> 0 .. EventMaxTimeout] /\ eventWaited \in [EventProcs -> 0 .. EventMaxTimeout]
  /\ eventExiting \in [EventProcs -> BOOLEAN]
  /\ got \in [EventProcs -> (EventProcs \X Events) \union {<<>>}]
TimedOut(p) == eventTimeout[p] # 0 /\ eventWaited[p] >= eventTimeout[p]
EventOf(p) ==
  /\ \A r \in EventProcs : In(queue[r], p) =>
       eventPc[p] = "send" /\ to[p] = r /\ eventFlags[p] = "INTERRUPTED"
  /\ eventPc[p] \notin {"send", "recv"} => DueIn(event_timer_list, p) = 0
  /\ event_wait_state[p] = "EVENT_RECV" => eventPc[p] = "recv" /\ queue[p] = <<>>
  /\ event_wait_state[p] = "EVENT_SEND" => eventPc[p] = "send" /\ In(queue[to[p]], p)
  /\ eventPc[p] = "exited" => queue[p] = <<>>
  /\ eventWaited[p] <= eventTimeout[p]
  /\ event_wait_state[p] # "none" =>
       /\ eventTimeout[p] # 0 => eventWaited[p] < eventTimeout[p]
       /\ DueIn(event_timer_list, p) = IF eventTimeout[p] = 0 THEN 0 ELSE eventTimeout[p] - eventWaited[p]
  /\ eventPc[p] = "send" /\ event_wait_state[p] = "none" /\ eventFlags[p] = "INTERRUPTED" =>
       TimedOut(p) \/ eventExiting[p] \/ eventPc[to[p]] = "exited"
EventInv == EventShape /\ EventCalls /\ \A p \in EventProcs : EventOf(p)

\* The invariant holds when nobody has called.
LEMMA EventInvInit == EventAssumption /\ EventInit => EventInv
<1> SUFFICES ASSUME EventAssumption, EventInit PROVE EventInv
  OBVIOUS
<1>1. TimersOK(<<>>, EventProcs) /\ Line(<<>>, EventProcs) /\ \A p : ~In(<<>>, p)
  BY LineEmpty DEF TimersOK
<1>2. EventShape /\ \A r \in EventProcs : queue[r] = <<>>
  BY <1>1 DEF EventInit, EventShape
<1>3. \A p : DueIn(event_timer_list, p) = 0
  BY DEF DueIn, HasTimer, EventInit
<1>4. EventCalls
  <2>1. /\ eventPc \in [EventProcs -> {"user", "send", "recv", "copyout", "dying", "exited"}]
        /\ event_wait_state \in [EventProcs -> {"none", "EVENT_SEND", "EVENT_RECV"}]
        /\ eventFlags \in [EventProcs -> {"EVENT_SEND", "INTERRUPTED"}]
        /\ to \in [EventProcs -> EventProcs]
    BY DEF EventInit
  <2>2. eventTimeout \in [EventProcs -> 0 .. EventMaxTimeout] /\ eventWaited \in [EventProcs -> 0 .. EventMaxTimeout]
    BY DEF EventInit, EventAssumption
  <2>3. eventExiting \in [EventProcs -> BOOLEAN]
    BY Zenon DEF EventInit
  <2>4. event \in [EventProcs -> Events]
    BY DEF EventInit, EventAssumption
  <2>5. got \in [EventProcs -> (EventProcs \X Events) \union {<<>>}]
    BY Zenon DEF EventInit
  <2> QED
    BY <2>1, <2>2, <2>3, <2>4, <2>5 DEF EventCalls
<1>5. \A p \in EventProcs : EventOf(p)
  BY <1>1, <1>2, <1>3 DEF EventInit, EventOf
<1> QED
  BY <1>2, <1>4, <1>5 DEF EventInv

\* Starting and stopping a timer, as the four sleeps do.
LEMMA EventStart ==
  ASSUME EventAssumption, EventInv, NEW p \in EventProcs, eventPc[p] = "user",
         NEW t \in 0 .. EventMaxTimeout, StartTimer(p, t)
  PROVE  /\ TimersOK(event_timer_list', EventProcs) /\ DueIn(event_timer_list', p) = t
         /\ \A q \in EventProcs \ {p} : DueIn(event_timer_list', q) = DueIn(event_timer_list, q)
         /\ eventTimeout' \in [EventProcs -> 0 .. EventMaxTimeout]
         /\ eventWaited' \in [EventProcs -> 0 .. EventMaxTimeout]
<1>1. ~HasTimer(event_timer_list, p) /\ TimersOK(event_timer_list, EventProcs) /\ DueIn(event_timer_list, p) = 0
  <2>1. TimersOK(event_timer_list, EventProcs)
    BY DEF EventInv, EventShape
  <2>2. DueIn(event_timer_list, p) = 0
    BY DEF EventInv, EventOf
  <2> QED
    BY <2>1, <2>2, DuePositive
<1>2. event_timer_list' = IF t = 0 THEN event_timer_list ELSE add_timer(event_timer_list, p, t)
  BY DEF StartTimer
<1>3. /\ TimersOK(event_timer_list', EventProcs) /\ DueIn(event_timer_list', p) = t
      /\ \A q \in EventProcs \ {p} : DueIn(event_timer_list', q) = DueIn(event_timer_list, q)
  <2>1. CASE t = 0
    BY <1>1, <1>2, <2>1
  <2>2. CASE t # 0
    <3>1. t \in Nat \ {0}
      BY <2>2
    <3> QED
      BY <1>1, <1>2, <2>2, <3>1, AddTimer
  <2> QED
    BY <2>1, <2>2
<1>4. /\ eventTimeout' \in [EventProcs -> 0 .. EventMaxTimeout]
      /\ eventWaited' \in [EventProcs -> 0 .. EventMaxTimeout]
  BY DEF StartTimer, EventInv, EventCalls, EventAssumption
<1> QED
  BY <1>3, <1>4

\* del_timer at the end of a sleep.
LEMMA EventStop ==
  ASSUME EventAssumption, EventInv, NEW p \in EventProcs, StopTimer(p)
  PROVE  /\ TimersOK(event_timer_list', EventProcs) /\ DueIn(event_timer_list', p) = 0
         /\ \A q \in EventProcs \ {p} : DueIn(event_timer_list', q) = DueIn(event_timer_list, q)
         /\ eventTimeout' \in [EventProcs -> 0 .. EventMaxTimeout]
         /\ eventWaited' \in [EventProcs -> 0 .. EventMaxTimeout]
<1>1. TimersOK(event_timer_list, EventProcs) /\ event_timer_list' = del_timer(event_timer_list, p)
  BY DEF EventInv, EventShape, StopTimer
<1>2. /\ eventTimeout' \in [EventProcs -> 0 .. EventMaxTimeout]
      /\ eventWaited' \in [EventProcs -> 0 .. EventMaxTimeout]
  BY DEF StopTimer, EventInv, EventCalls, EventAssumption
<1> QED
  BY <1>1, <1>2, DelTimer, DuePositive

\* ipc_event_send up to its sleep keeps the invariant.
LEMMA EventSendStep ==
  ASSUME EventAssumption, EventInv, NEW p \in EventProcs, NEW r \in EventProcs, NEW e \in Events,
         NEW t \in 0 .. EventMaxTimeout, Send(p, r, e, t)
  PROVE  EventInv'
<1>1. /\ TimersOK(event_timer_list', EventProcs) /\ DueIn(event_timer_list', p) = t
      /\ \A q \in EventProcs \ {p} : DueIn(event_timer_list', q) = DueIn(event_timer_list, q)
      /\ eventTimeout' \in [EventProcs -> 0 .. EventMaxTimeout]
      /\ eventWaited' \in [EventProcs -> 0 .. EventMaxTimeout]
  BY EventStart DEF Send
<1>2. Line(queue[r], EventProcs) /\ ~In(queue[r], p)
  BY DEF EventInv, EventShape, EventOf, Send
<1>3. /\ Line(Append(queue[r], p), EventProcs)
      /\ \A q : In(Append(queue[r], p), q) <=> In(queue[r], q) \/ q = p
  BY <1>2, LineAppend
<1>4. /\ \A x \in EventProcs : queue'[x] = IF x = r THEN Append(queue[r], p) ELSE queue[x]
      /\ DOMAIN queue' = EventProcs
      /\ queue' \in [EventProcs -> Seq(EventProcs)]
  BY <1>3 DEF Send, EventInv, EventShape, Line
<1>5. EventShape'
  BY <1>1, <1>3, <1>4, Zenon DEF EventInv, EventShape
<1>6. EventCalls'
  <2>1. /\ eventPc' \in [EventProcs -> {"user", "send", "recv", "copyout", "dying", "exited"}]
        /\ event_wait_state' \in [EventProcs -> {"none", "EVENT_SEND", "EVENT_RECV"}]
        /\ eventFlags' \in [EventProcs -> {"EVENT_SEND", "INTERRUPTED"}]
    BY Zenon DEF Send, EventInv, EventCalls
  <2>2. /\ event' \in [EventProcs -> Events] /\ to' \in [EventProcs -> EventProcs]
        /\ eventExiting' = eventExiting /\ got' = got
    BY DEF Send, EventInv, EventCalls
  <2> QED
    BY <1>1, <2>1, <2>2, Zenon DEF EventInv, EventCalls
<1>7. ASSUME NEW q \in EventProcs PROVE EventOf(q)'
  <2>1. \A x \in EventProcs : In(queue'[x], q) <=> In(queue[x], q) \/ (x = r /\ q = p)
    BY <1>3, <1>4, Zenon
  <2>2. CASE q = p
    BY <1>1, <1>4, <2>1, <2>2 DEF Send, StartTimer, EventInv, EventCalls, EventOf, TimedOut
  <2>3. CASE q # p
    <3>1. /\ eventPc'[q] = eventPc[q] /\ to'[q] = to[q] /\ eventFlags'[q] = eventFlags[q]
          /\ eventTimeout'[q] = eventTimeout[q] /\ eventWaited'[q] = eventWaited[q]
          /\ event_wait_state'[q] = IF q = r /\ event_wait_state[q] = "EVENT_RECV" THEN "none"
                                    ELSE event_wait_state[q]
          /\ eventExiting' = eventExiting
      BY <2>3 DEF Send, StartTimer, EventInv, EventCalls
    <3>2. /\ to[q] \in EventProcs
          /\ eventPc[to[q]] = "exited" => eventPc'[to[q]] = "exited"
          /\ eventPc[r] # "exited"
      BY DEF Send, EventInv, EventCalls
    <3>3. EventOf(q)
      BY DEF EventInv
    <3>4. DueIn(event_timer_list', q) = DueIn(event_timer_list, q)
      BY <1>1, <2>3
    <3>5. q # r => queue'[q] = queue[q]
      BY <1>4
    <3>6. \A x \in EventProcs : In(queue'[x], q) <=> In(queue[x], q)
      BY <2>1, <2>3
    <3> QED
      BY <3>1, <3>2, <3>3, <3>4, <3>5, <3>6 DEF EventOf, TimedOut
  <2> QED
    BY <2>2, <2>3
<1> QED
  BY <1>5, <1>6, <1>7 DEF EventInv

\* The rest of ipc_event_send keeps the invariant: the timer and the place in
\* the box go.
LEMMA EventSendResumeStep ==
  ASSUME EventAssumption, EventInv, NEW p \in EventProcs, EventSendResume(p)
  PROVE  EventInv'
<1>1. /\ TimersOK(event_timer_list', EventProcs) /\ DueIn(event_timer_list', p) = 0
      /\ \A q \in EventProcs \ {p} : DueIn(event_timer_list', q) = DueIn(event_timer_list, q)
      /\ eventTimeout' \in [EventProcs -> 0 .. EventMaxTimeout]
      /\ eventWaited' \in [EventProcs -> 0 .. EventMaxTimeout]
  BY EventStop DEF EventSendResume
<1>2. PICK r \in EventProcs : r = to[p]
  BY DEF EventInv, EventCalls
<1>3. /\ Line(wait_current_del(queue[r], p), EventProcs)
      /\ \A q : In(wait_current_del(queue[r], p), q) <=> In(queue[r], q) /\ q # p
  BY LineDel DEF EventInv, EventShape
<1>4. /\ \A x \in EventProcs : queue'[x] = IF x = r THEN wait_current_del(queue[r], p) ELSE queue[x]
      /\ queue' \in [EventProcs -> Seq(EventProcs)]
  BY <1>2, <1>3 DEF EventSendResume, EventInv, EventShape, Line
<1>5. EventShape'
  BY <1>1, <1>3, <1>4, Zenon DEF EventInv, EventShape
<1>6. EventCalls'
  <2>1. /\ eventPc' \in [EventProcs -> {"user", "send", "recv", "copyout", "dying", "exited"}]
        /\ event_wait_state' = event_wait_state
        /\ eventFlags' \in [EventProcs -> {"EVENT_SEND", "INTERRUPTED"}]
    BY DEF EventSendResume, EventBackToUser, EventForget, EventInv, EventCalls
  <2>2. /\ event' \in [EventProcs -> Events] /\ to' \in [EventProcs -> EventProcs]
        /\ eventExiting' = eventExiting /\ got' = got
    BY DEF EventSendResume, EventForget, EventInv, EventCalls, EventAssumption
  <2> QED
    BY <1>1, <2>1, <2>2, SMTT(30) DEF EventInv, EventCalls
<1>7. ASSUME NEW q \in EventProcs PROVE EventOf(q)'
  <2>1. \A x \in EventProcs : In(queue'[x], q) <=> In(queue[x], q) /\ (x = r => q # p)
    BY <1>3, <1>4
  <2>2. queue[q] = <<>> => queue'[q] = <<>>
    BY <1>4 DEF wait_current_del
  <2>3. CASE q = p
    BY <1>1, <1>2, <2>1, <2>2, <2>3 DEF EventSendResume, EventBackToUser, EventForget, StopTimer, EventInv, EventCalls, EventOf, TimedOut
  <2>4. CASE q # p
    BY <1>1, <1>2, <2>1, <2>2, <2>4 DEF EventSendResume, EventBackToUser, EventForget, StopTimer, EventInv, EventCalls, EventOf, TimedOut
  <2> QED
    BY <2>3, <2>4
<1> QED
  BY <1>5, <1>6, <1>7 DEF EventInv

\* The first sender in a box is asleep there, and has not been answered.
LEMMA EventTakes ==
  ASSUME EventInv, NEW p \in EventProcs, queue[p] # <<>>
  PROVE  /\ Head(queue[p]) \in EventProcs /\ In(queue[p], Head(queue[p]))
         /\ eventPc[Head(queue[p])] = "send" /\ to[Head(queue[p])] = p
         /\ eventFlags[Head(queue[p])] = "INTERRUPTED"
         /\ Line(Tail(queue[p]), EventProcs)
         /\ \A q : In(Tail(queue[p]), q) <=> In(queue[p], q) /\ q # Head(queue[p])
<1>1. /\ Head(queue[p]) \in EventProcs /\ In(queue[p], Head(queue[p]))
      /\ Line(Tail(queue[p]), EventProcs)
      /\ \A q : In(Tail(queue[p]), q) <=> In(queue[p], q) /\ q # Head(queue[p])
  BY LineTail DEF EventInv, EventShape
<1> QED
  BY <1>1 DEF EventInv, EventOf

\* What Take does, for ipc_event_recv before and after its sleep.
LEMMA EventTakeStep ==
  ASSUME EventInv, NEW p \in EventProcs, eventPc[p] \in {"user", "recv"}, event_wait_state[p] = "none",
         queue[p] # <<>>, Take(p), UNCHANGED <<event, to, eventExiting>>,
         TimersOK(event_timer_list', EventProcs), DueIn(event_timer_list', p) = 0,
         \A q \in EventProcs \ {p} : DueIn(event_timer_list', q) = DueIn(event_timer_list, q),
         eventTimeout' \in [EventProcs -> 0 .. EventMaxTimeout],
         eventWaited' \in [EventProcs -> 0 .. EventMaxTimeout],
         \A q \in EventProcs \ {p} : eventTimeout'[q] = eventTimeout[q] /\ eventWaited'[q] = eventWaited[q],
         eventWaited'[p] <= eventTimeout'[p]
  PROVE  EventInv'
<1> DEFINE s == Head(queue[p])
<1>1. /\ s \in EventProcs /\ In(queue[p], s) /\ eventPc[s] = "send" /\ to[s] = p
      /\ eventFlags[s] = "INTERRUPTED" /\ s # p
      /\ Line(Tail(queue[p]), EventProcs)
      /\ \A q : In(Tail(queue[p]), q) <=> In(queue[p], q) /\ q # s
  BY EventTakes, Zenon
<1>2. /\ \A x \in EventProcs : queue'[x] = IF x = p THEN Tail(queue[p]) ELSE queue[x]
      /\ queue' \in [EventProcs -> Seq(EventProcs)]
  BY <1>1 DEF Take, EventInv, EventShape, Line
<1>3. EventShape'
  BY <1>1, <1>2, Zenon DEF EventInv, EventShape
<1>4. /\ \A q \in EventProcs : event_wait_state'[q] = IF q = s THEN "none" ELSE event_wait_state[q]
      /\ \A q \in EventProcs : eventFlags'[q] = IF q = s THEN "EVENT_SEND" ELSE eventFlags[q]
      /\ \A q \in EventProcs : eventPc'[q] = IF q = p THEN "copyout" ELSE eventPc[q]
      /\ event_wait_state' \in [EventProcs -> {"none", "EVENT_SEND", "EVENT_RECV"}]
      /\ eventFlags' \in [EventProcs -> {"EVENT_SEND", "INTERRUPTED"}]
      /\ eventPc' \in [EventProcs -> {"user", "send", "recv", "copyout", "dying", "exited"}]
  BY <1>1 DEF Take, EventInv, EventCalls
<1>5. got' \in [EventProcs -> (EventProcs \X Events) \union {<<>>}]
  <2>1. <<s, event[s]>> \in (EventProcs \X Events) \union {<<>>}
    BY <1>1 DEF EventInv, EventCalls
  <2> QED
    BY <2>1, Zenon DEF Take, EventInv, EventCalls
<1>6. EventCalls'
  BY <1>4, <1>5 DEF EventInv, EventCalls
<1> HIDE DEF s
<1>7. ASSUME NEW q \in EventProcs PROVE EventOf(q)'
  <2>1. EventOf(q) /\ to[q] \in EventProcs
    BY DEF EventInv, EventCalls
  <2>2. \A x \in EventProcs : In(queue'[x], q) <=> In(queue[x], q) /\ (x = p => q # s)
    BY <1>1, <1>2, Zenon
  <2>3. queue[q] = <<>> => queue'[q] = <<>>
    BY <1>2
  <2>4. CASE q = p
    BY <1>1, <1>4, <2>1, <2>2, <2>3, <2>4, SMTT(30) DEF EventOf, TimedOut
  <2>5. CASE q = s
    BY <1>1, <1>4, <2>1, <2>2, <2>3, <2>5, SMTT(30) DEF EventOf, TimedOut
  <2>6. CASE q # p /\ q # s
    BY <1>1, <1>4, <2>1, <2>2, <2>3, <2>6 DEF EventOf, TimedOut
  <2> QED
    BY <2>4, <2>5, <2>6
<1> QED
  BY <1>3, <1>6, <1>7 DEF EventInv

\* ipc_event_recv up to its sleep keeps the invariant.
LEMMA EventRecvStep ==
  ASSUME EventAssumption, EventInv, NEW p \in EventProcs, NEW t \in 0 .. EventMaxTimeout, Recv(p, t)
  PROVE  EventInv'
<1>0. eventPc[p] = "user" /\ EventOf(p)
  BY DEF Recv, EventInv
<1>1. CASE queue[p] # <<>>
  <2>1. /\ Take(p) /\ UNCHANGED <<event, to, eventExiting>>
        /\ event_timer_list' = event_timer_list /\ eventTimeout' = eventTimeout /\ eventWaited' = eventWaited
    BY <1>1 DEF Recv
  <2>2. event_wait_state[p] = "none"
    BY <1>0 DEF EventOf, EventInv, EventCalls
  <2>3. DueIn(event_timer_list, p) = 0 /\ eventWaited[p] <= eventTimeout[p]
    BY <1>0 DEF EventOf
  <2>4. /\ TimersOK(event_timer_list, EventProcs)
        /\ eventTimeout \in [EventProcs -> 0 .. EventMaxTimeout]
        /\ eventWaited \in [EventProcs -> 0 .. EventMaxTimeout]
    BY DEF EventInv, EventShape, EventCalls
  <2> QED
    BY <1>0, <1>1, <2>1, <2>2, <2>3, <2>4, EventTakeStep
<1>2. CASE queue[p] = <<>>
  <2>1. /\ TimersOK(event_timer_list', EventProcs) /\ DueIn(event_timer_list', p) = t
        /\ \A q \in EventProcs \ {p} : DueIn(event_timer_list', q) = DueIn(event_timer_list, q)
        /\ eventTimeout' \in [EventProcs -> 0 .. EventMaxTimeout]
        /\ eventWaited' \in [EventProcs -> 0 .. EventMaxTimeout]
    BY <1>2, EventStart DEF Recv
  <2>2. EventShape' /\ queue' = queue
    BY <1>2, <2>1 DEF Recv, EventInv, EventShape
  <2>3. EventCalls'
    <3>1. /\ event_wait_state' \in [EventProcs -> {"none", "EVENT_SEND", "EVENT_RECV"}]
          /\ eventPc' \in [EventProcs -> {"user", "send", "recv", "copyout", "dying", "exited"}]
      <4>1. /\ event_wait_state' = [event_wait_state EXCEPT ![p] = "EVENT_RECV"]
            /\ eventPc' = [eventPc EXCEPT ![p] = "recv"]
        BY <1>2 DEF Recv
      <4> QED
        BY <4>1 DEF EventInv, EventCalls
    <3>2. UNCHANGED <<event, to, eventFlags, eventExiting, got>>
      BY <1>2 DEF Recv
    <3> QED
      BY <2>1, <3>1, <3>2 DEF EventInv, EventCalls
  <2>4. ASSUME NEW q \in EventProcs PROVE EventOf(q)'
    <3>1. EventOf(q) /\ to[q] \in EventProcs
      BY DEF EventInv, EventCalls
    <3>2. CASE q = p
      BY <1>2, <2>1, <2>2, <3>1, <3>2, SMTT(30) DEF Recv, StartTimer, EventInv, EventCalls, EventOf, TimedOut
    <3>3. CASE q # p
      BY <1>2, <2>1, <2>2, <3>1, <3>3 DEF Recv, StartTimer, EventInv, EventCalls, EventOf, TimedOut
    <3> QED
      BY <3>2, <3>3
  <2> QED
    BY <2>2, <2>3, <2>4 DEF EventInv
<1> QED
  BY <1>1, <1>2

\* The rest of ipc_event_recv keeps the invariant.
LEMMA EventRecvResumeStep ==
  ASSUME EventAssumption, EventInv, NEW p \in EventProcs, EventRecvResume(p)
  PROVE  EventInv'
<1>0. eventPc[p] = "recv" /\ event_wait_state[p] = "none" /\ StopTimer(p)
  BY DEF EventRecvResume
<1>1. /\ TimersOK(event_timer_list', EventProcs) /\ DueIn(event_timer_list', p) = 0
      /\ \A q \in EventProcs \ {p} : DueIn(event_timer_list', q) = DueIn(event_timer_list, q)
      /\ eventTimeout' \in [EventProcs -> 0 .. EventMaxTimeout]
      /\ eventWaited' \in [EventProcs -> 0 .. EventMaxTimeout]
  BY <1>0, EventStop
<1>2. /\ \A q \in EventProcs \ {p} : eventTimeout'[q] = eventTimeout[q] /\ eventWaited'[q] = eventWaited[q]
      /\ eventWaited'[p] = 0 /\ eventTimeout'[p] = 0
  BY <1>0 DEF StopTimer, EventInv, EventCalls
<1>3. CASE queue[p] # <<>>
  <2>1. Take(p) /\ UNCHANGED <<event, to, eventExiting>>
    BY <1>3 DEF EventRecvResume
  <2> QED
    BY <1>0, <1>1, <1>2, <1>3, <2>1, EventTakeStep
<1>4. CASE queue[p] = <<>>
  <2>1. EventShape' /\ queue' = queue
    BY <1>1, <1>4 DEF EventRecvResume, EventInv, EventShape
  <2>2. EventCalls'
    BY <1>1, <1>4, Zenon DEF EventRecvResume, EventBackToUser, EventInv, EventCalls
  <2>3. ASSUME NEW q \in EventProcs PROVE EventOf(q)'
    <3>1. EventOf(q) /\ to[q] \in EventProcs
      BY SMTT(30) DEF EventInv, EventCalls
    <3>2. CASE q = p
      BY <1>1, <1>2, <1>4, <2>1, <3>1, <3>2, SMTT(30) DEF EventRecvResume, EventBackToUser, EventInv, EventCalls, EventOf, TimedOut
    <3>3. CASE q # p
      BY <1>1, <1>2, <1>4, <2>1, <3>1, <3>3 DEF EventRecvResume, EventBackToUser, EventInv, EventCalls, EventOf, TimedOut
    <3> QED
      BY <3>2, <3>3
  <2> QED
    BY <2>1, <2>2, <2>3 DEF EventInv
<1> QED
  BY <1>3, <1>4

\* do_exit keeps the invariant: it wakes who is in the box of the dead process.
LEMMA EventExitStep ==
  ASSUME EventInv, NEW p \in EventProcs, EventExit(p)
  PROVE  EventInv'
<1>1. /\ \A x \in EventProcs : queue'[x] = IF x = p THEN <<>> ELSE queue[x]
      /\ queue' \in [EventProcs -> Seq(EventProcs)]
      /\ \A q \in EventProcs : event_wait_state'[q] = IF In(queue[p], q) THEN "none" ELSE event_wait_state[q]
      /\ \A q \in EventProcs : eventFlags'[q] = IF In(queue[p], q) THEN "INTERRUPTED" ELSE eventFlags[q]
      /\ \A q \in EventProcs : eventPc'[q] = IF q = p THEN "exited" ELSE eventPc[q]
  BY DEF EventExit, EventInv, EventShape, EventCalls, In
<1>2. EventShape'
  BY <1>1, LineEmpty DEF EventExit, EventInv, EventShape
<1>3. EventCalls'
  BY DEF EventExit, EventInv, EventCalls
<1>4. ASSUME NEW q \in EventProcs PROVE EventOf(q)'
  <2>1. EventOf(q) /\ to[q] \in EventProcs
    BY DEF EventInv, EventCalls
  <2>2. \A x \in EventProcs : In(queue'[x], q) <=> In(queue[x], q) /\ x # p
    BY <1>1, LineEmpty, Zenon
  <2>3. /\ eventPc[p] \in {"user", "dying"} /\ event_timer_list' = event_timer_list /\ to' = to
        /\ eventTimeout' = eventTimeout /\ eventWaited' = eventWaited /\ eventExiting' = eventExiting
    BY DEF EventExit
  <2> QED
    BY <1>1, <2>1, <2>2, <2>3, SMTT(30) DEF EventOf, TimedOut
<1> QED
  BY <1>2, <1>3, <1>4 DEF EventInv

\* The timer interrupt keeps the invariant.
LEMMA EventTickStep ==
  ASSUME EventAssumption, EventInv, EventTick
  PROVE  EventInv'
<1>1. /\ TimersOK(event_timer_list', EventProcs)
      /\ \A q : DueIn(event_timer_list', q) =
                  IF DueIn(event_timer_list, q) = 0 THEN 0 ELSE DueIn(event_timer_list, q) - 1
      /\ \A q : (\E i \in DOMAIN firedProcs(event_timer_list) : firedProcs(event_timer_list)[i] = q)
                  <=> DueIn(event_timer_list, q) = 1
      /\ \A q : DueIn(event_timer_list, q) \in Nat
  <2>1. TimersOK(event_timer_list, EventProcs) /\ event_timer_list' = run_timer_list(event_timer_list)
    BY DEF EventInv, EventShape, EventTick
  <2> QED
    BY <2>1, RunTimerList, DuePositive
<1>2. \A q \in EventProcs : event_wait_state'[q] = IF DueIn(event_timer_list, q) = 1 THEN "none"
                                                   ELSE event_wait_state[q]
  BY <1>1 DEF EventTick
<1>3. EventShape'
  BY <1>1 DEF EventTick, EventInv, EventShape
<1>4. EventCalls'
  <2>1. event_wait_state' \in [EventProcs -> {"none", "EVENT_SEND", "EVENT_RECV"}]
    BY DEF EventTick, EventInv, EventCalls
  <2>2. eventWaited' \in [EventProcs -> 0 .. EventMaxTimeout]
    BY DEF EventTick, EventInv, EventCalls, EventAssumption
  <2> QED
    BY <2>1, <2>2 DEF EventTick, EventInv, EventCalls
<1>5. ASSUME NEW q \in EventProcs PROVE EventOf(q)'
  <2>1. EventOf(q) /\ to[q] \in EventProcs
    BY DEF EventInv, EventCalls
  <2>2. /\ eventWaited'[q] = IF eventPc[q] \in {"send", "recv"} /\ eventWaited[q] < eventTimeout[q]
                             THEN eventWaited[q] + 1 ELSE eventWaited[q]
        /\ eventWaited[q] \in Nat /\ eventTimeout[q] \in Nat
        /\ eventPc' = eventPc /\ queue' = queue /\ to' = to /\ eventFlags' = eventFlags
        /\ eventTimeout' = eventTimeout /\ eventExiting' = eventExiting
        /\ event_wait_state[q] \in {"none", "EVENT_SEND", "EVENT_RECV"}
    BY DEF EventTick, EventInv, EventCalls, EventAssumption
  <2> QED
    BY <1>1, <1>2, <2>1, <2>2 DEF EventOf, TimedOut
<1> QED
  BY <1>3, <1>4, <1>5 DEF EventInv

\* Every step keeps the invariant.
LEMMA EventInvStep == EventAssumption /\ EventInv /\ [EventNext]_eventVars => EventInv'
<1> SUFFICES ASSUME EventAssumption, EventInv, [EventNext]_eventVars PROVE EventInv'
  OBVIOUS
<1>1. ASSUME NEW p \in EventProcs, NEW r \in EventProcs, SendInvalid(p, r) PROVE EventInv'
  BY <1>1 DEF SendInvalid, EventBackToUser, EventInv, EventShape, EventCalls, EventOf, TimedOut
<1>2. ASSUME NEW p \in EventProcs, NEW r \in EventProcs, EventKill(p, r) PROVE EventInv'
  BY <1>2, SMTT(30) DEF EventKill, EventBackToUser, EventInv, EventShape, EventCalls, EventOf, TimedOut
<1>3. ASSUME NEW p \in EventProcs, EventCopyOut(p) PROVE EventInv'
  <2>1. got' \in [EventProcs -> (EventProcs \X Events) \union {<<>>}]
    BY <1>3 DEF EventCopyOut, EventInv, EventCalls
  <2> QED
    BY <1>3, <2>1 DEF EventCopyOut, EventBackToUser, EventInv, EventShape, EventCalls, EventOf, TimedOut
<1>4. CASE UNCHANGED eventVars
  BY <1>4 DEF eventVars, EventInv, EventShape, EventCalls, EventOf, TimedOut
<1> QED
  BY <1>1, <1>2, <1>3, <1>4, EventSendStep, EventSendResumeStep, EventRecvStep, EventRecvResumeStep,
     EventExitStep, EventTickStep DEF EventNext, EventCall

\* The invariant says more than EventSound.
LEMMA EventInvSound == EventInv => EventSound
<1> SUFFICES ASSUME EventInv PROVE EventSound
  OBVIOUS
<1>1. \A p : HasTimer(event_timer_list, p) <=> DueIn(event_timer_list, p) # 0
  BY DuePositive DEF EventInv, EventShape
<1>2. EventTypeOK
  BY DEF EventInv, EventShape, EventCalls, EventTypeOK, TimersOK
<1>3. NoMissedEvent
  BY DEF EventInv, EventOf, NoMissedEvent, In
<1>4. EventNoDangling
  BY <1>1 DEF EventInv, EventOf, EventNoDangling, In
<1>5. HonestFailure
  BY DEF EventInv, EventOf, TimedOut, HonestFailure, ipc_check_timeout
<1> QED
  BY <1>2, <1>3, <1>4, <1>5 DEF EventSound

\* Events leave no wait_t or timer_t of a finished call linked, whoever
\* answered, timed out, was killed or exited in whatever order, for any number
\* of processes, events and timeouts.
THEOREM EventIsSound == ASSUME EventAssumption PROVE EventSpec => []EventSound
<1>1. EventInit => EventInv
  BY EventInvInit
<1>2. EventInv /\ [EventNext]_eventVars => EventInv'
  BY EventInvStep
<1> QED
  BY <1>1, <1>2, EventInvSound, PTL DEF EventSpec

-----------------------------------------------------------------------------
\* A sender told that it is still sending is in the box it names and nowhere else;
\* who is in no box keeps what it is told when others come and go.
LEMMA ToldIs ==
  ASSUME EventInv, NEW p \in EventProcs
  PROVE  /\ eventPc[p] = "recv" => Told(p) = [act |-> "receiving"]
         /\ eventPc[p] = "copyout" => Told(p) = [act |-> "got", from |-> got[p][1], event |-> got[p][2]]
         /\ eventPc[p] = "send" /\ eventFlags[p] = "EVENT_SEND" => Told(p) = [act |-> "sent"]
         /\ eventPc[p] = "send" /\ eventFlags[p] # "EVENT_SEND" /\ In(queue[to[p]], p) =>
              Told(p) = [act |-> "sending", to |-> to[p], event |-> event[p]]
         /\ eventPc[p] = "send" /\ eventFlags[p] # "EVENT_SEND" /\ ~In(queue[to[p]], p) =>
              Told(p) = [act |-> "failed"]
         /\ eventPc[p] \notin {"recv", "copyout", "send"} => Told(p) = [act |-> "out"]
BY DEF Told, In

\* What a process is told changes only with its own state and its place in a
\* box.
LEMMA ToldKept ==
  ASSUME EventInv, NEW p \in EventProcs,
         eventPc'[p] = eventPc[p], eventFlags'[p] = eventFlags[p], to'[p] = to[p],
         event'[p] = event[p], got'[p] = got[p],
         In(queue'[to[p]], p) <=> In(queue[to[p]], p)
  PROVE  Told(p)' = Told(p)
BY DEF Told, In

\* Nobody has called: Rendezvous starts there.
LEMMA RendezvousStarts == EventAssumption /\ EventInit => EventPromise!Init
<1> SUFFICES ASSUME EventAssumption, EventInit PROVE EventPromise!Init
  OBVIOUS
<1>1. EventInv
  BY EventInvInit
<1>2. \A p \in EventProcs : Told(p) = [act |-> "out"]
  BY <1>1, ToldIs DEF EventInit
<1> QED
  BY <1>2 DEF EventPromise!Init, EventPromise!Out, EventInit

\* A sender that sleeps has joined the box of its receiver, as Send does.
LEMMA RendezvousSend ==
  ASSUME EventAssumption, EventInv, EventInv', NEW p \in EventProcs, NEW r \in EventProcs, NEW e \in Events,
         NEW t \in 0 .. EventMaxTimeout, Send(p, r, e, t)
  PROVE  EventPromise!Send(p, r, e)
<1>1. Told(p) = [act |-> "out"]
  BY ToldIs DEF Send
<1>2. /\ eventPc'[p] = "send" /\ eventFlags'[p] = "INTERRUPTED" /\ to'[p] = r /\ event'[p] = e
      /\ queue' = [queue EXCEPT ![r] = Append(@, p)] /\ p # r
      /\ event_wait_state'[p] = "EVENT_SEND"
  BY DEF Send, EventInv, EventCalls
<1>3. In(queue'[r], p)
  BY <1>2 DEF EventInv, EventOf
<1>4. Told(p)' = [act |-> "sending", to |-> r, event |-> e]
  BY <1>2, <1>3 DEF Told, In
<1>5. ASSUME NEW q \in EventProcs \ {p} PROVE Told(q)' = Told(q)
  <2>1. /\ eventPc'[q] = eventPc[q] /\ eventFlags'[q] = eventFlags[q] /\ to'[q] = to[q]
        /\ event'[q] = event[q] /\ got'[q] = got[q] /\ to[q] \in EventProcs
    BY SMTT(30) DEF Send, EventInv, EventCalls
  <2>2. Line(queue[r], EventProcs) /\ ~In(queue[r], p)
    BY Zenon DEF EventInv, EventShape, EventOf, Send
  <2>3. In(Append(queue[r], p), q) <=> In(queue[r], q)
    BY <2>2, LineAppend
  <2>4. queue'[to[q]] = IF to[q] = r THEN Append(queue[r], p) ELSE queue[to[q]]
    BY <1>2, <2>1, Zenon DEF EventInv, EventShape
  <2> QED
    BY <2>1, <2>3, <2>4, ToldKept
<1> QED
  BY <1>1, <1>2, <1>4, <1>5, Zenon DEF EventPromise!Send, EventPromise!Out, EventPromise!Sending

\* Changing two entries of a function.
LEMMA TwoChanged ==
  ASSUME NEW D, NEW f, NEW g, f = [x \in D |-> f[x]], g = [x \in D |-> g[x]],
         NEW a \in D, NEW b \in D, a # b, NEW u, NEW v,
         g[a] = u, g[b] = v, \A x \in D : x # a /\ x # b => g[x] = f[x]
  PROVE  g = [f EXCEPT ![a] = u, ![b] = v]
OBVIOUS

\* Take is Meet: the first sender of the box and the receiver learn the event.
LEMMA RendezvousMeet ==
  ASSUME EventInv, NEW p \in EventProcs, eventPc[p] \in {"user", "recv"},
         queue[p] # <<>>, Take(p), UNCHANGED <<event, to>>
  PROVE  EventPromise!Meet(p)
<1>0. PICK s \in EventProcs : s = Head(queue[p])
  BY EventTakes
<1>1. /\ s \in EventProcs /\ In(queue[p], s) /\ eventPc[s] = "send" /\ to[s] = p
      /\ eventFlags[s] = "INTERRUPTED" /\ s # p /\ Line(Tail(queue[p]), EventProcs)
      /\ \A q : In(Tail(queue[p]), q) <=> In(queue[p], q) /\ q # s
  BY <1>0, EventTakes
<1>2. Told(s) = [act |-> "sending", to |-> p, event |-> event[s]]
  BY <1>1, ToldIs
<1>3. Told(p) \in {[act |-> "out"], [act |-> "receiving"]}
  BY ToldIs
<1>4. /\ eventPc'[p] = "copyout" /\ got'[p] = <<s, event[s]>>
      /\ eventPc'[s] = "send" /\ eventFlags'[s] = "EVENT_SEND"
      /\ queue' = [queue EXCEPT ![p] = Tail(@)]
  BY <1>0, <1>1 DEF Take, EventInv, EventCalls
<1>5. Told(p)' = [act |-> "got", from |-> s, event |-> event[s]]
  <2>1. got'[p][1] = s /\ got'[p][2] = event[s]
    BY <1>4
  <2> QED
    BY <1>4, <2>1 DEF Told
<1>6. Told(s)' = [act |-> "sent"]
  BY <1>4 DEF Told
<1>7. ASSUME NEW q \in EventProcs, q # p, q # s PROVE Told(q)' = Told(q)
  <2>1. /\ eventPc'[q] = eventPc[q] /\ eventFlags'[q] = eventFlags[q] /\ to'[q] = to[q]
        /\ event'[q] = event[q] /\ got'[q] = got[q] /\ to[q] \in EventProcs
    BY <1>0, <1>7, SMTT(30) DEF Take, EventInv, EventCalls
  <2>2. queue'[to[q]] = IF to[q] = p THEN Tail(queue[p]) ELSE queue[to[q]]
    BY <1>4, <2>1 DEF EventInv, EventShape
  <2> QED
    BY <1>1, <1>7, <2>1, <2>2, ToldKept
<1>8. [x \in EventProcs |-> Told(x)]' =
        [[x \in EventProcs |-> Told(x)] EXCEPT ![s] = [act |-> "sent"],
                                               ![p] = [act |-> "got", from |-> s, event |-> event[s]]]
  <2>1. [x \in EventProcs |-> Told(x)'] =
          [[x \in EventProcs |-> Told(x)] EXCEPT ![s] = [act |-> "sent"],
                                                 ![p] = [act |-> "got", from |-> s, event |-> event[s]]]
    <3> DEFINE sent == [act |-> "sent"]
               met == [act |-> "got", from |-> s, event |-> event[s]]
               f == [x \in EventProcs |-> Told(x)]
               g == [x \in EventProcs |-> Told(x)']
    <3>2. /\ f = [x \in EventProcs |-> f[x]] /\ g = [x \in EventProcs |-> g[x]]
          /\ \A x \in EventProcs : x # s /\ x # p => g[x] = f[x]
      BY <1>7
    <3>3. s \in EventProcs /\ s # p /\ g[s] = sent /\ g[p] = met
      BY <1>1, <1>5, <1>6
    <3> HIDE DEF f, g, sent, met
    <3>4. g = [f EXCEPT ![s] = sent, ![p] = met]
      BY <3>2, <3>3, TwoChanged
    <3> QED
      BY <3>4 DEF sent, met, f, g
  <2> QED
    BY <2>1
<1>9. [x \in EventProcs |-> Told(x)][s].event = event[s]
  BY <1>1, <1>2
<1> QED
  BY <1>0, <1>3, <1>4, <1>8, <1>9, Zenon DEF EventPromise!Meet, EventPromise!Out, EventPromise!Receiving,
     EventPromise!Sent, EventPromise!Got

\* Who is in no queue leaves none.
LEMMA DelNobody ==
  ASSUME NEW q, NEW p, ~In(q, p)
  PROVE  wait_current_del(q, p) = q
BY DEF wait_current_del, In

\* Leaving ipc_event_send or ipc_event_recv is Return.
LEMMA RendezvousReturn ==
  ASSUME EventInv, NEW p \in EventProcs, eventPc[p] \in {"send", "recv", "copyout"},
         eventPc'[p] \in {"user", "dying"},
         \A x \in EventProcs : queue'[x] = wait_current_del(queue[x], p),
         queue' \in [EventProcs -> Seq(EventProcs)],
         \A q \in EventProcs \ {p} :
           /\ eventPc'[q] = eventPc[q] /\ eventFlags'[q] = eventFlags[q] /\ to'[q] = to[q]
           /\ event'[q] = event[q] /\ got'[q] = got[q]
  PROVE  EventPromise!Return(p)
<1>1. Told(p) # [act |-> "out"]
  BY ToldIs
<1>2. Told(p)' = [act |-> "out"]
  BY DEF Told
<1>3. ASSUME NEW q \in EventProcs \ {p} PROVE Told(q)' = Told(q)
  <2>1. Line(queue[to[q]], EventProcs) /\ to[q] \in EventProcs
    BY DEF EventInv, EventShape, EventCalls
  <2>2. In(queue'[to[q]], q) <=> In(queue[to[q]], q)
    BY <2>1, LineDel
  <2> QED
    BY <2>2, ToldKept, SMTT(30)
<1>4. queue' = [x \in EventProcs |-> wait_current_del(queue[x], p)]
  OBVIOUS
<1> QED
  <2>1. [x \in EventProcs |-> Told(x)]' = [[x \in EventProcs |-> Told(x)] EXCEPT ![p] = [act |-> "out"]]
    <3> DEFINE out == [act |-> "out"]
    <3>1. Told(p)' = out
      BY <1>2
    <3> HIDE DEF out
    <3>2. [x \in EventProcs |-> Told(x)'] = [[x \in EventProcs |-> Told(x)] EXCEPT ![p] = out]
      BY <1>3, <3>1, Zenon
    <3> QED
      BY <3>2 DEF out
  <2>2. [x \in EventProcs |-> Told(x)][p] # [act |-> "out"]
    BY <1>1
  <2>3. \A x : EventPromise!wait_current_del(queue[x], p) = wait_current_del(queue[x], p)
    BY DEF EventPromise!wait_current_del, wait_current_del
  <2>4. queue' = [x \in EventProcs |-> EventPromise!wait_current_del(queue[x], p)]
    BY <1>4, <2>3
  <2> QED
    BY <2>1, <2>2, <2>4 DEF EventPromise!Return, EventPromise!Out

\* do_exit makes who is in the box fail, as Fail does.
LEMMA RendezvousFail ==
  ASSUME EventInv, NEW p \in EventProcs, EventExit(p)
  PROVE  EventPromise!Fail(p)
<1>1. /\ \A x \in EventProcs : queue'[x] = IF x = p THEN <<>> ELSE queue[x]
      /\ queue' = [queue EXCEPT ![p] = <<>>]
      /\ \A q \in EventProcs : eventFlags'[q] = IF In(queue[p], q) THEN "INTERRUPTED" ELSE eventFlags[q]
      /\ \A q \in EventProcs : eventPc'[q] = IF q = p THEN "exited" ELSE eventPc[q]
      /\ UNCHANGED <<event, to, got>> /\ eventPc[p] \in {"user", "dying"}
  BY DEF EventExit, EventInv, EventShape, EventCalls, In
<1>2. ASSUME NEW q \in EventProcs, In(queue[p], q) PROVE Told(q)' = [act |-> "failed"]
  <2>1. eventPc[q] = "send" /\ to[q] = p /\ q # p
    BY <1>1, <1>2 DEF EventInv, EventOf
  <2>2. ~In(queue'[p], q)
    BY <1>1, LineEmpty
  <2> QED
    BY <1>1, <1>2, <2>1, <2>2, SMTT(30) DEF Told, In
<1>3. ASSUME NEW q \in EventProcs, ~In(queue[p], q) PROVE Told(q)' = Told(q)
  <2>1. CASE q = p
    BY <1>1, <2>1 DEF Told
  <2>2. CASE q # p
    <3>1. to[q] \in EventProcs
      BY DEF EventInv, EventCalls
    <3>2. In(queue'[to[q]], q) <=> In(queue[to[q]], q)
      BY <1>1, <1>3, <3>1, LineEmpty
    <3> QED
      BY <1>1, <1>3, <2>2, <3>2, ToldKept
  <2> QED
    BY <2>1, <2>2
<1>4. [x \in EventProcs |-> Told(x)]' =
        [x \in EventProcs |-> IF In(queue[p], x) THEN [act |-> "failed"] ELSE Told(x)]
  BY <1>2, <1>3
<1> QED
  BY <1>1, <1>4 DEF EventPromise!Fail, EventPromise!Failed, In

\* Steps that change nothing Rendezvous speaks of.
LEMMA RendezvousStutters ==
  ASSUME EventInv, queue' = queue, UNCHANGED <<eventFlags, to, event, got>>,
         \A p \in EventProcs : \/ eventPc'[p] = eventPc[p]
                               \/ eventPc[p] \notin {"send", "recv", "copyout"} /\
                                  eventPc'[p] \notin {"send", "recv", "copyout"}
  PROVE  UNCHANGED EventPromise!vars
<1>1. ASSUME NEW p \in EventProcs PROVE Told(p)' = Told(p)
  <2>1. CASE eventPc'[p] = eventPc[p]
    BY <2>1, ToldKept
  <2>2. CASE eventPc[p] \notin {"send", "recv", "copyout"} /\ eventPc'[p] \notin {"send", "recv", "copyout"}
    BY <2>2 DEF Told
  <2> QED
    BY <2>1, <2>2
<1>2. [x \in EventProcs |-> Told(x)]' = [x \in EventProcs |-> Told(x)]
  BY <1>1
<1> QED
  BY <1>2 DEF EventPromise!vars

\* Every step is one of Rendezvous, or does not concern it.
LEMMA RendezvousStep ==
  ASSUME EventAssumption, EventInv, EventInv', EventNext
  PROVE  EventPromise!Next \/ UNCHANGED EventPromise!vars
<1>1. ASSUME NEW p \in EventProcs, NEW r \in EventProcs, NEW e \in Events,
             NEW t \in 0 .. EventMaxTimeout, Send(p, r, e, t)
      PROVE  EventPromise!Next
  BY <1>1, RendezvousSend DEF EventPromise!Next
<1>2. ASSUME NEW p \in EventProcs, NEW r \in EventProcs, SendInvalid(p, r)
      PROVE  UNCHANGED EventPromise!vars
  BY <1>2, RendezvousStutters DEF SendInvalid, EventBackToUser, EventInv, EventCalls
<1>3. ASSUME NEW p \in EventProcs, NEW r \in EventProcs, EventKill(p, r)
      PROVE  UNCHANGED EventPromise!vars
  BY <1>3, RendezvousStutters, SMTT(30) DEF EventKill, EventBackToUser, EventInv, EventCalls
<1>4. ASSUME EventTick PROVE UNCHANGED EventPromise!vars
  BY <1>4, RendezvousStutters DEF EventTick
<1>5. ASSUME NEW p \in EventProcs, EventExit(p) PROVE EventPromise!Next
  BY <1>5, RendezvousFail DEF EventPromise!Next
<1>6. ASSUME NEW p \in EventProcs, NEW t \in 0 .. EventMaxTimeout, Recv(p, t) PROVE EventPromise!Next
  <2>1. CASE queue[p] # <<>>
    BY <1>6, <2>1, RendezvousMeet DEF Recv, EventPromise!Next
  <2>2. CASE queue[p] = <<>>
    <3>1. Told(p) = [act |-> "out"]
      BY <1>6, ToldIs, SMTT(30) DEF Recv
    <3>2. eventPc'[p] = "recv" /\ UNCHANGED <<queue, eventFlags, got, event, to>>
      BY <1>6, <2>2 DEF Recv, EventInv, EventCalls
    <3>3. Told(p)' = [act |-> "receiving"]
      BY <3>2, SMTT(30) DEF Told
    <3>4. ASSUME NEW q \in EventProcs \ {p} PROVE Told(q)' = Told(q)
      <4>1. eventPc'[q] = eventPc[q]
        BY <1>6, <2>2 DEF Recv, EventInv, EventCalls
      <4> QED
        BY <3>2, <4>1, ToldKept, SMTT(30)
    <3>5. EventPromise!Receive(p)
      BY <3>1, <3>2, <3>3, <3>4, Zenon DEF EventPromise!Receive, EventPromise!Out, EventPromise!Receiving
    <3> QED
      BY <3>5 DEF EventPromise!Next
  <2> QED
    BY <2>1, <2>2
<1>7. ASSUME NEW p \in EventProcs, \A x \in EventProcs : ~In(queue[x], p), queue' = queue
      PROVE  /\ \A x \in EventProcs : queue'[x] = wait_current_del(queue[x], p)
             /\ queue' \in [EventProcs -> Seq(EventProcs)]
  BY <1>7, DelNobody DEF EventInv, EventShape
<1>8. ASSUME NEW p \in EventProcs, EventRecvResume(p) PROVE EventPromise!Next
  <2>1. CASE queue[p] # <<>>
    BY <1>8, <2>1, RendezvousMeet DEF EventRecvResume, EventPromise!Next
  <2>2. CASE queue[p] = <<>>
    <3>1. /\ eventPc[p] = "recv" /\ eventPc'[p] \in {"user", "dying"}
          /\ queue' = queue /\ UNCHANGED <<eventFlags, got, event, to>>
          /\ \A q \in EventProcs \ {p} : eventPc'[q] = eventPc[q]
      BY <1>8, <2>2 DEF EventRecvResume, EventBackToUser, EventInv, EventCalls
    <3>2. \A x \in EventProcs : ~In(queue[x], p)
      BY <3>1, Zenon DEF EventInv, EventOf
    <3>3. EventPromise!Return(p)
      BY <1>7, <3>1, <3>2, RendezvousReturn, Zenon
    <3> QED
      BY <3>3 DEF EventPromise!Next
  <2> QED
    BY <2>1, <2>2, SMTT(30)
<1>9. ASSUME NEW p \in EventProcs, EventCopyOut(p) PROVE EventPromise!Next
  <2>1. /\ eventPc[p] = "copyout" /\ eventPc'[p] \in {"user", "dying"}
        /\ queue' = queue /\ UNCHANGED <<eventFlags, event, to>>
        /\ \A q \in EventProcs \ {p} : eventPc'[q] = eventPc[q] /\ got'[q] = got[q]
    BY <1>9 DEF EventCopyOut, EventBackToUser, EventInv, EventCalls
  <2>2. \A x \in EventProcs : ~In(queue[x], p)
    BY <2>1, Zenon DEF EventInv, EventOf
  <2>3. EventPromise!Return(p)
    BY <1>7, <2>1, <2>2, RendezvousReturn, Zenon
  <2> QED
    BY <2>3 DEF EventPromise!Next
<1>10. ASSUME NEW p \in EventProcs, EventSendResume(p) PROVE EventPromise!Next
  <2>1. /\ eventPc[p] = "send" /\ eventPc'[p] \in {"user", "dying"} /\ got' = got
        /\ \A q \in EventProcs \ {p} : /\ eventPc'[q] = eventPc[q] /\ eventFlags'[q] = eventFlags[q]
                                       /\ to'[q] = to[q] /\ event'[q] = event[q]
    BY <1>10 DEF EventSendResume, EventBackToUser, EventForget, EventInv, EventCalls
  <2>2. queue' \in [EventProcs -> Seq(EventProcs)]
    BY DEF EventInv, EventShape
  <2>3. ASSUME NEW x \in EventProcs PROVE queue'[x] = wait_current_del(queue[x], p)
    <3>1. to[p] \in EventProcs /\ queue' = [queue EXCEPT ![to[p]] = wait_current_del(@, p)]
      BY <1>10, SMTT(30) DEF EventSendResume, EventInv, EventCalls
    <3>2. CASE x = to[p]
      BY <3>1, <3>2 DEF EventInv, EventShape
    <3>3. CASE x # to[p]
      <4>1. ~In(queue[x], p)
        BY <3>3 DEF EventInv, EventOf
      <4> QED
        BY <3>1, <3>3, <4>1, DelNobody, SMTT(30) DEF EventInv, EventShape
    <3> QED
      BY <3>2, <3>3
  <2>4. EventPromise!Return(p)
    BY <2>1, <2>2, <2>3, RendezvousReturn
  <2> QED
    BY <2>4 DEF EventPromise!Next
<1> QED
  BY <1>1, <1>2, <1>3, <1>4, <1>5, <1>6, <1>8, <1>9, <1>10 DEF EventNext, EventCall

\* Events do what Rendezvous promises: every event that a sender hears was taken
\* has been given to one receiver, once, and the senders to a process are served
\* in order.
THEOREM EventImplementsRendezvous == ASSUME EventAssumption PROVE EventSpec => RendezvousSpec
<1>1. EventInit => EventInv /\ EventPromise!Init
  BY EventInvInit, RendezvousStarts
<1>2. EventInv /\ [EventNext]_eventVars => EventInv'
  BY EventInvStep
<1>3. EventInv /\ EventInv' /\ [EventNext]_eventVars =>
        [UNCHANGED eventVars \/ EventPromise!Next]_(EventPromise!vars)
  BY RendezvousStep
<1> QED
  BY <1>1, <1>2, <1>3, PTL DEF EventSpec, RendezvousSpec
=============================================================================
