------------------------------- MODULE Mutex --------------------------------
(***************************************************************************)
(* What runtime.lock and runtime.unlock promise the Go runtime: a thread   *)
(* asks for the lock, enters when nobody is in, and leaves.                *)
(***************************************************************************)
CONSTANTS Threads

VARIABLES asking, \* the threads between the start of lock and its return
          inside  \* the threads between the return of lock and unlock

vars == <<asking, inside>>

Init == asking = {} /\ inside = {}

Ask(t) == /\ t \notin asking \cup inside
          /\ asking' = asking \cup {t}
          /\ UNCHANGED inside

Enter(t) == /\ inside = {}
            /\ asking' = asking \ {t}
            /\ inside' = {t}

Leave(t) == /\ t \in inside
            /\ inside' = inside \ {t}
            /\ UNCHANGED asking

Next == \E t \in Threads : Ask(t) \/ Enter(t) \/ Leave(t)

Spec == Init /\ [][Next]_vars
=============================================================================
