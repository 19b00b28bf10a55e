------------------------------ MODULE Rendezvous ----------------------------
(***************************************************************************)
(* What the event calls promise: an event goes in one step from its sender *)
(* to the receiver it names, the sender that came first goes first, and    *)
(* neither side is told that it happened when it did not, or that it       *)
(* failed when it happened.                                                *)
(***************************************************************************)
EXTENDS Sequences, KSem

CONSTANTS Procs, Events

VARIABLES st,  \* the call each process is in, and what it will be told
          box  \* the senders waiting for each process

vars == <<st, box>>

Out == [act |-> "out"]
Sending(r, e) == [act |-> "sending", to |-> r, event |-> e]
Receiving == [act |-> "receiving"]
Sent == [act |-> "sent"]
Got(s, e) == [act |-> "got", from |-> s, event |-> e]
Failed == [act |-> "failed"]

Init == /\ st = [p \in Procs |-> Out]
        /\ box = [p \in Procs |-> <<>>]

Send(p, r, e) == /\ st[p] = Out /\ p # r
                 /\ st' = [st EXCEPT ![p] = Sending(r, e)]
                 /\ box' = [box EXCEPT ![r] = Append(@, p)]

Receive(p) == /\ st[p] = Out
              /\ st' = [st EXCEPT ![p] = Receiving]
              /\ UNCHANGED box

\* The event changes hands.
Meet(r) == /\ box[r] # <<>> /\ st[r] \in {Out, Receiving}
           /\ LET s == Head(box[r]) IN
                st' = [st EXCEPT ![s] = Sent, ![r] = Got(s, st[s].event)]
           /\ box' = [box EXCEPT ![r] = Tail(@)]

\* A receiver that exits fails its senders.
Fail(r) == /\ st' = [p \in Procs |-> IF \E i \in DOMAIN box[r] : box[r][i] = p
                                     THEN Failed ELSE st[p]]
           /\ box' = [box EXCEPT ![r] = <<>>]

\* A call returns; one that has not met anybody has failed.
Return(p) == /\ st[p] # Out
             /\ st' = [st EXCEPT ![p] = Out]
             /\ box' = [r \in Procs |-> wait_current_del(box[r], p)]

Next == \/ \E p, r \in Procs, e \in Events : Send(p, r, e)
        \/ \E p \in Procs : Receive(p) \/ Meet(p) \/ Fail(p) \/ Return(p)

Spec == Init /\ [][Next]_vars
=============================================================================
