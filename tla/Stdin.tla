-------------------------------- MODULE Stdin -------------------------------
(***************************************************************************)
(* Console input (kern/fs/devs/dev_stdin.c): the keyboard interrupt writes *)
(* characters into a ring and the threads that read it sleep until there   *)
(* is one.  A read of n characters comes back with n, or with fewer when   *)
(* it is killed.  The positions are signed and only grow; the module       *)
(* follows them up to OffMax, the greatest off_t.                          *)
(***************************************************************************)
EXTENDS Integers, Sequences, FiniteSets

CONSTANTS StdinProcs,     \* the threads that read
          Chars,          \* the characters, without the null character
          STDIN_BUFSIZE,  \* STDIN_BUFSIZE
          OffMax,         \* the greatest value of off_t
          StdinMaxLen     \* the longest read

StdinAssumption == Chars # {} /\ STDIN_BUFSIZE \in Nat \ {0} /\ OffMax \in Nat /\ StdinMaxLen \in Nat

VARIABLES
  ring,              \* stdin_buffer
  rpos,              \* p_rpos
  wpos,              \* p_wpos
  stdinQueue,        \* wait_queue
  stdinPc,           \* user, asleep in dev_stdin_read, exited
  stdinWant,         \* len - ret of a read
  stdin_wait_state,  \* proc->wait_state
  stdinFlags,        \* wait->wakeup_flags
  stdinExiting,      \* PF_EXITING
  unread,            \* the characters a reader is to see, in order
  stdinIntact        \* every character read so far was the first of unread

stdinVars == <<ring, rpos, wpos, stdinQueue, stdinPc, stdinWant, stdin_wait_state, stdinFlags, stdinExiting, unread, stdinIntact>>

StdinInit ==
  /\ ring = [i \in 0 .. STDIN_BUFSIZE - 1 |-> CHOOSE c \in Chars : TRUE]
  /\ rpos = 0 /\ wpos = 0
  /\ stdinQueue = {}
  /\ stdinPc = [p \in StdinProcs |-> "user"]
  /\ stdinWant = [p \in StdinProcs |-> 0]
  /\ stdin_wait_state = [p \in StdinProcs |-> "none"]
  /\ stdinFlags = [p \in StdinProcs |-> "INTERRUPTED"]
  /\ stdinExiting = [p \in StdinProcs |-> FALSE]
  /\ unread = <<>> /\ stdinIntact = TRUE

-----------------------------------------------------------------------------
StdinBackToUser(p) == IF stdinExiting[p] THEN "exited" ELSE "user"

\* dev_stdin_write.  A full ring keeps its positions, and the character lands on
\* the oldest one that has not been read.
dev_stdin_writeAlwaysMoves(c) ==
  /\ wpos < OffMax
  /\ ring' = [ring EXCEPT ![wpos % STDIN_BUFSIZE] = c]
  /\ wpos' = wpos + 1 /\ unread' = Append(unread, c)
  /\ stdin_wait_state' = [p \in StdinProcs |-> IF p \in stdinQueue THEN "none" ELSE stdin_wait_state[p]]
  /\ stdinFlags' = [p \in StdinProcs |-> IF p \in stdinQueue THEN "KBD" ELSE stdinFlags[p]]
  /\ stdinQueue' = {}
  /\ UNCHANGED <<rpos, stdinPc, stdinWant, stdinExiting, stdinIntact>>

dev_stdin_write(c) ==
  /\ wpos < OffMax
  /\ ring' = [ring EXCEPT ![wpos % STDIN_BUFSIZE] = c]
  /\ \/ wpos - rpos < STDIN_BUFSIZE /\ wpos' = wpos + 1 /\ unread' = Append(unread, c)
     \/ wpos - rpos >= STDIN_BUFSIZE /\ wpos' = wpos /\ unread' = <<c>> \o Tail(unread)
  /\ stdin_wait_state' = [p \in StdinProcs |-> IF p \in stdinQueue THEN "none" ELSE stdin_wait_state[p]]
  /\ stdinFlags' = [p \in StdinProcs |-> IF p \in stdinQueue THEN "KBD" ELSE stdinFlags[p]]
  /\ stdinQueue' = {}
  /\ UNCHANGED <<rpos, stdinPc, stdinWant, stdinExiting, stdinIntact>>

\* dev_stdin_read from try_again on: takes the characters there are, and sleeps
\* while some are wanted.
Try(p, n) ==
  LET k == IF n < wpos - rpos THEN n ELSE wpos - rpos
      taken == [i \in 1 .. k |-> ring[(rpos + i - 1) % STDIN_BUFSIZE]]
  IN  /\ rpos' = rpos + k
      /\ stdinIntact' = (stdinIntact /\ taken = SubSeq(unread, 1, k))
      /\ unread' = SubSeq(unread, k + 1, Len(unread))
      /\ stdinFlags' = [stdinFlags EXCEPT ![p] = "INTERRUPTED"]
      /\ stdinWant' = [stdinWant EXCEPT ![p] = n - k]
      /\ \/ /\ k = n
            /\ stdinPc' = [stdinPc EXCEPT ![p] = StdinBackToUser(p)]
            /\ UNCHANGED <<stdinQueue, stdin_wait_state>>
         \/ /\ k < n
            /\ stdinPc' = [stdinPc EXCEPT ![p] = "read"]
            /\ stdinQueue' = stdinQueue \union {p}
            /\ stdin_wait_state' = [stdin_wait_state EXCEPT ![p] = "KBD"]
      /\ UNCHANGED <<ring, wpos, stdinExiting>>

dev_stdin_read(p, n) == stdinPc[p] = "user" /\ Try(p, n)

\* dev_stdin_read after schedule.
StdinResume(p) ==
  /\ stdinPc[p] = "read" /\ stdin_wait_state[p] = "none"
  /\ \/ stdinFlags[p] = "KBD" /\ Try(p, stdinWant[p])
     \/ /\ stdinFlags[p] # "KBD"
        /\ stdinQueue' = stdinQueue \ {p}
        /\ stdinPc' = [stdinPc EXCEPT ![p] = StdinBackToUser(p)]
        /\ stdinWant' = [stdinWant EXCEPT ![p] = 0]
        /\ UNCHANGED <<ring, rpos, wpos, stdin_wait_state, stdinFlags, stdinExiting, unread, stdinIntact>>

\* do_kill: the wait for the keyboard can be interrupted.
StdinKill(p, victim) ==
  /\ stdinPc[p] = "user" /\ p # victim /\ stdinPc[victim] # "exited"
  /\ stdinExiting' = [stdinExiting EXCEPT ![victim] = TRUE]
  /\ stdin_wait_state' = [stdin_wait_state EXCEPT ![victim] = "none"]
  /\ stdinPc' = [stdinPc EXCEPT ![p] = StdinBackToUser(p)]
  /\ UNCHANGED <<ring, rpos, wpos, stdinQueue, stdinWant, stdinFlags, unread, stdinIntact>>

StdinNext == \/ \E c \in Chars : dev_stdin_write(c)
             \/ \E p \in StdinProcs : \/ \E n \in 1 .. StdinMaxLen : dev_stdin_read(p, n)
                                      \/ StdinResume(p)
                                      \/ \E victim \in StdinProcs : StdinKill(p, victim)

StdinSpec == StdinInit /\ [][StdinNext]_stdinVars

-----------------------------------------------------------------------------
\* Type correctness.
StdinTypeOK ==
  /\ ring \in [0 .. STDIN_BUFSIZE - 1 -> Chars]
  /\ rpos \in 0 .. OffMax /\ wpos \in 0 .. OffMax
  /\ stdinQueue \subseteq StdinProcs
  /\ stdinPc \in [StdinProcs -> {"user", "read", "exited"}] /\ stdinWant \in [StdinProcs -> 0 .. StdinMaxLen]
  /\ stdin_wait_state \in [StdinProcs -> {"none", "KBD"}]
  /\ stdinFlags \in [StdinProcs -> {"INTERRUPTED", "KBD"}]
  /\ stdinExiting \in [StdinProcs -> BOOLEAN]
  /\ unread \in Seq(Chars) /\ stdinIntact \in BOOLEAN

\* Keys arriving at a full ring, between the reads of several threads, disturb
\* nothing but the oldest character: the positions stay a ring apart and every
\* other character is read once, in the order typed.
RingKeepsOrder ==
  /\ rpos <= wpos /\ wpos - rpos <= STDIN_BUFSIZE
  /\ Len(unread) = wpos - rpos
  /\ stdinIntact

\* A thread sleeps for the keyboard only while there is no character to read, and
\* is then where dev_stdin_write finds it.
NoMissedKey ==
  \A p \in StdinProcs : stdin_wait_state[p] = "KBD" => rpos = wpos /\ p \in stdinQueue /\ stdinWant[p] > 0

\* Keys reach the readers of the console in order, and wake them.
StdinSound == StdinTypeOK /\ RingKeepsOrder /\ NoMissedKey
=============================================================================
