------------------------------- MODULE MCIpc --------------------------------
(***************************************************************************)
(* The calls of the kernel in which a process waits for another, each      *)
(* checked by itself in one run: user semaphores, events, message boxes    *)
(* and pipes.  The variable part chooses the component that moves; the     *)
(* others stay as their Init left them.                                    *)
(***************************************************************************)
EXTENDS UserSem, Event, Mbox, KPipe, TLC

\* What the components ask of their constants.
ASSUME IpcAssumption == SemAssumption /\ EventAssumption /\ KPipeAssumption

VARIABLE part  \* the component

\* The other components stay as they are.
Still(c) ==
  /\ UNCHANGED part
  /\ IF c = "sem" THEN TRUE ELSE UNCHANGED semVars
  /\ IF c = "event" THEN TRUE ELSE UNCHANGED eventVars
  /\ IF c = "mbox" THEN TRUE ELSE UNCHANGED mboxVars
  /\ IF c = "kpipe" THEN TRUE ELSE UNCHANGED kpipeVars

Init == /\ part \in {"sem", "event", "mbox", "kpipe"}
        /\ UserSemInit /\ EventInit /\ MboxInit /\ KPipeInit

NextUserSem == part = "sem" /\ UserSemNext /\ Still("sem")
NextEvent == part = "event" /\ EventNext /\ Still("event")
NextMbox == part = "mbox" /\ MboxNext /\ Still("mbox")
NextKPipe == part = "kpipe" /\ KPipeNext /\ Still("kpipe")

Next == NextUserSem \/ NextEvent \/ NextMbox \/ NextKPipe

Spec == Init /\ [][Next]_<<part, semVars, eventVars, mboxVars, kpipeVars>>

\* Processes are interchangeable.
IpcSymmetry == Permutations(SemProcs)
=============================================================================
