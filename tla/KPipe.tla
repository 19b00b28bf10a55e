-------------------------------- MODULE KPipe -------------------------------
(***************************************************************************)
(* A pipe (kern/fs/pipe/pipe_state.c) between the threads of a process,    *)
(* with the two files that hold its ends (kern/fs/file.c).  The pipe's     *)
(* semaphore is never held over a sleep and the kernel is not preempted,   *)
(* so a call is atomic from its start, or from the end of a sleep, to its  *)
(* return or its next sleep.                                               *)
(***************************************************************************)
EXTENDS Integers, Sequences, FiniteSets

CONSTANTS PipeProcs,     \* the threads
          Bytes,         \* the values of a byte
          PIPE_BUFSIZE,  \* PIPE_BUFSIZE
          OffRange,      \* the number of values of off_t
          PipeMaxLen     \* the longest read or write

\* What the constants have to be.
KPipeAssumption == /\ IsFiniteSet(PipeProcs) /\ Bytes # {}
                   /\ PIPE_BUFSIZE \in Nat \ {0} /\ PipeMaxLen \in Nat \ {0}
                   /\ OffRange \in Nat /\ OffRange > PIPE_BUFSIZE

Ends == {"read", "write"}

VARIABLES
  opened,           \* file->status is FD_OPENED, for each end
  open_count,       \* file->open_count, for each end
  ref_count,        \* state->ref_count
  isclosed,         \* state->isclosed
  buf,              \* state->buf
  p_rpos,           \* state->p_rpos
  p_wpos,           \* state->p_wpos
  reader_queue,     \* state->reader_queue
  writer_queue,     \* state->writer_queue
  pipePc,           \* user, asleep in a read or in a write, exited
  pipeWant,         \* n - ret of the call a thread is in
  pipe_wait_state,  \* proc->wait_state
  pipeFlags,        \* wait->wakeup_flags
  pipeExiting,      \* PF_EXITING
  stream,           \* what has been written and not yet read, in order
  pipeIntact,       \* every read so far returned the front of the stream
  wrapped           \* p_wpos has come round to zero

files == <<opened, open_count, ref_count, isclosed>>
content == <<buf, p_rpos, p_wpos, stream, pipeIntact, wrapped>>
threads == <<pipePc, pipeWant, pipe_wait_state, pipeFlags, pipeExiting, reader_queue, writer_queue>>
kpipeVars == <<files, content, threads>>

KPipeInit == /\ opened = [e \in Ends |-> TRUE]
             /\ open_count = [e \in Ends |-> 1]
             /\ ref_count = 2 /\ isclosed = FALSE
             /\ buf \in [0 .. PIPE_BUFSIZE - 1 -> {CHOOSE b \in Bytes : TRUE}]
             /\ p_rpos = 0 /\ p_wpos = 0
             /\ reader_queue = {} /\ writer_queue = {}
             /\ pipePc = [p \in PipeProcs |-> "user"]
             /\ pipeWant = [p \in PipeProcs |-> 0]
             /\ pipe_wait_state = [p \in PipeProcs |-> "none"]
             /\ pipeFlags = [p \in PipeProcs |-> "INTERRUPTED"]
             /\ pipeExiting = [p \in PipeProcs |-> FALSE]
             /\ stream = <<>> /\ pipeIntact = TRUE /\ wrapped = FALSE

-----------------------------------------------------------------------------
Size == (p_wpos - p_rpos) % OffRange
is_empty == p_rpos = p_wpos
is_full == Size >= PIPE_BUFSIZE
Least(a, b) == IF a < b THEN a ELSE b

\* The place of a position in the buffer.
Slot(pos) == (pos % OffRange) % PIPE_BUFSIZE

\* trap, after a system call: a thread that has been killed exits.
PipeBackToUser(p) == IF pipeExiting[p] THEN "exited" ELSE "user"

\* wait_current_set, with want bytes to go, after waking the threads in woken.
Sleep(p, end, n, woken) ==
  /\ pipePc' = [pipePc EXCEPT ![p] = end]
  /\ pipeWant' = [pipeWant EXCEPT ![p] = n]
  /\ pipe_wait_state' = [q \in PipeProcs |-> IF q = p THEN "PIPE"
                                             ELSE IF q \in woken THEN "none" ELSE pipe_wait_state[q]]
  /\ pipeFlags' = [q \in PipeProcs |-> IF q = p THEN "INTERRUPTED"
                                       ELSE IF q \in woken THEN "PIPE" ELSE pipeFlags[q]]
  /\ open_count' = IF pipePc[p] = "user" THEN [open_count EXCEPT ![end] = @ + 1] ELSE open_count
  /\ UNCHANGED <<opened, ref_count, isclosed>>

\* The return from a call that has woken the threads in woken.  filemap_release
\* drops the call's hold on the file; with the last hold vfs_close closes the
\* pipe, which wakes everybody, and drops the inode's hold on it.
Release(p, end, holds, woken) ==
  LET last == open_count[end] = holds
      all == IF last THEN woken \union reader_queue \union writer_queue ELSE woken
  IN  /\ open_count' = [open_count EXCEPT ![end] = @ - holds]
      /\ isclosed' = (isclosed \/ last)
      /\ ref_count' = IF last THEN ref_count - 1 ELSE ref_count
      /\ pipe_wait_state' = [q \in PipeProcs |-> IF q \in all THEN "none" ELSE pipe_wait_state[q]]
      /\ pipeFlags' = [q \in PipeProcs |-> IF q = p THEN "INTERRUPTED"
                                           ELSE IF q \in all THEN "PIPE" ELSE pipeFlags[q]]
      /\ reader_queue' = reader_queue \ (all \union {p})
      /\ writer_queue' = writer_queue \ (all \union {p})

Return(p, end, woken) ==
  /\ pipePc' = [pipePc EXCEPT ![p] = PipeBackToUser(p)]
  /\ pipeWant' = [pipeWant EXCEPT ![p] = 0]
  /\ Release(p, end, IF pipePc[p] = "user" THEN 0 ELSE 1, woken)
  /\ UNCHANGED opened

\* pipe_state_read from try_again on, with n bytes wanted: the end of the pipe, a
\* sleep, or the bytes there are, up to n, which makes room for the writers.
TryReadWakesNobody(p, n) ==
  \/ /\ is_empty /\ isclosed
     /\ Return(p, "read", {})
     /\ UNCHANGED <<content, pipeExiting>>
  \/ /\ is_empty /\ ~isclosed
     /\ Sleep(p, "read", n, {})
     /\ reader_queue' = reader_queue \union {p}
     /\ UNCHANGED <<content, pipeExiting, writer_queue>>
  \/ /\ ~is_empty
     /\ LET k == Least(n, Size)
            bytes == [i \in 1 .. k |-> buf[Slot(p_rpos + i - 1)]]
        IN  /\ p_rpos' = (p_rpos + k) % OffRange
            /\ pipeIntact' = (pipeIntact /\ bytes = SubSeq(stream, 1, k))
            /\ stream' = SubSeq(stream, k + 1, Len(stream))
     /\ Return(p, "read", {})
     /\ UNCHANGED <<buf, p_wpos, wrapped, pipeExiting>>

TryRead(p, n) ==
  \/ /\ is_empty /\ isclosed
     /\ Return(p, "read", {})
     /\ UNCHANGED <<content, pipeExiting>>
  \/ /\ is_empty /\ ~isclosed
     /\ Sleep(p, "read", n, {})
     /\ reader_queue' = reader_queue \union {p}
     /\ UNCHANGED <<content, pipeExiting, writer_queue>>
  \/ /\ ~is_empty
     /\ LET k == Least(n, Size)
            bytes == [i \in 1 .. k |-> buf[Slot(p_rpos + i - 1)]]
        IN  /\ p_rpos' = (p_rpos + k) % OffRange
            /\ pipeIntact' = (pipeIntact /\ bytes = SubSeq(stream, 1, k))
            /\ stream' = SubSeq(stream, k + 1, Len(stream))
     /\ Return(p, "read", writer_queue)
     /\ UNCHANGED <<buf, p_wpos, wrapped, pipeExiting>>

\* The bytes of a write go into the buffer one by one.
Store(bytes) ==
  LET k == Len(bytes) IN
  /\ buf' = [s \in DOMAIN buf |->
               IF \E i \in 1 .. k : Slot(p_wpos + i - 1) = s
               THEN bytes[CHOOSE i \in 1 .. k : /\ Slot(p_wpos + i - 1) = s
                                                /\ \A j \in i + 1 .. k : Slot(p_wpos + j - 1) # s]
               ELSE buf[s]]
  /\ p_wpos' = (p_wpos + k) % OffRange
  /\ stream' = stream \o bytes
  /\ wrapped' = (wrapped \/ p_wpos + k >= OffRange)
  /\ UNCHANGED <<p_rpos, pipeIntact>>

\* pipe_state_write from try_again on, with n bytes to go: the pipe is closed, or
\* the bytes that fit are stored, the readers are woken, and it sleeps if some
\* are left.
TryWrite(p, n) ==
  \/ /\ isclosed
     /\ Return(p, "write", {})
     /\ UNCHANGED <<content, pipeExiting>>
  \/ /\ ~isclosed
     /\ LET k == Least(n, PIPE_BUFSIZE - Size) IN
        /\ \E bytes \in [1 .. k -> Bytes] : Store(bytes)
        /\ \/ /\ k = n
              /\ Return(p, "write", IF k = 0 THEN {} ELSE reader_queue)
           \/ /\ k < n
              /\ Sleep(p, "write", n - k, reader_queue)
              /\ reader_queue' = {}
              /\ writer_queue' = writer_queue \union {p}
     /\ UNCHANGED pipeExiting

\* file_read and file_write.
Read(p, n) == pipePc[p] = "user" /\ opened["read"] /\ TryRead(p, n)
Write(p, n) == pipePc[p] = "user" /\ opened["write"] /\ TryWrite(p, n)

\* After pipe_state_wait: the wait was interrupted, or the call tries again.
PipeResume(p) ==
  LET end == pipePc[p] IN
  /\ end \in Ends /\ pipe_wait_state[p] = "none"
  /\ \/ pipeFlags[p] # "PIPE" /\ Return(p, end, {}) /\ UNCHANGED <<content, pipeExiting>>
     \/ pipeFlags[p] = "PIPE" /\ end = "read" /\ TryRead(p, pipeWant[p])
     \/ pipeFlags[p] = "PIPE" /\ end = "write" /\ TryWrite(p, pipeWant[p])

\* file_close: the descriptor is gone at once, the file with its last holder.
Close(p, end) ==
  /\ pipePc[p] = "user" /\ opened[end]
  /\ opened' = [opened EXCEPT ![end] = FALSE]
  /\ Release(p, end, 1, {})
  /\ pipePc' = [pipePc EXCEPT ![p] = PipeBackToUser(p)]
  /\ UNCHANGED <<pipeWant, pipeExiting, content>>

\* do_kill: a sleep in a pipe can be interrupted.
PipeKill(p, victim) ==
  /\ pipePc[p] = "user" /\ p # victim /\ pipePc[victim] # "exited"
  /\ pipeExiting' = [pipeExiting EXCEPT ![victim] = TRUE]
  /\ pipe_wait_state' = [pipe_wait_state EXCEPT ![victim] = "none"]
  /\ pipePc' = [pipePc EXCEPT ![p] = PipeBackToUser(p)]
  /\ UNCHANGED <<files, content, pipeWant, pipeFlags, reader_queue, writer_queue>>

-----------------------------------------------------------------------------
PipeCall(p) == \/ \E n \in 1 .. PipeMaxLen : Read(p, n) \/ Write(p, n)
               \/ \E end \in Ends : Close(p, end)
               \/ \E victim \in PipeProcs : PipeKill(p, victim)

KPipeNext == \E p \in PipeProcs : PipeCall(p) \/ PipeResume(p)

KPipeSpec == KPipeInit /\ [][KPipeNext]_kpipeVars

-----------------------------------------------------------------------------
\* Type correctness.
KPipeTypeOK ==
  /\ opened \in [Ends -> BOOLEAN] /\ open_count \in [Ends -> Nat]
  /\ ref_count \in 0 .. 2 /\ isclosed \in BOOLEAN
  /\ buf \in [0 .. PIPE_BUFSIZE - 1 -> Bytes]
  /\ p_rpos \in 0 .. OffRange - 1 /\ p_wpos \in 0 .. OffRange - 1
  /\ reader_queue \subseteq PipeProcs /\ writer_queue \subseteq PipeProcs
  /\ pipePc \in [PipeProcs -> Ends \union {"user", "exited"}]
  /\ pipeWant \in [PipeProcs -> 0 .. PipeMaxLen]
  /\ pipe_wait_state \in [PipeProcs -> {"none", "PIPE"}]
  /\ pipeFlags \in [PipeProcs -> {"INTERRUPTED", "PIPE"}]
  /\ pipeExiting \in [PipeProcs -> BOOLEAN]
  /\ stream \in Seq(Bytes) /\ pipeIntact \in BOOLEAN /\ wrapped \in BOOLEAN

\* A reader sleeps only while the pipe is empty and open, a writer only while it
\* is full and open: the queueing after unlock_state loses no wake-up and no
\* close.
NobodyLeftAsleep ==
  \A p \in PipeProcs :
    pipe_wait_state[p] = "PIPE" =>
      /\ ~isclosed
      /\ pipePc[p] = "read" => is_empty /\ p \in reader_queue
      /\ pipePc[p] = "write" => is_full /\ p \in writer_queue

\* Up to the 2^32nd byte, what is read is what was written, in that order, with
\* several readers and writers and with writes longer than the buffer.
InOrder == ~wrapped => pipeIntact /\ Len(stream) = Size

\* The pipe is released when both files are gone, and nobody is inside then: the
\* assertions of pipe_state_release hold.  One end gone means closed.
ReleasedAlone ==
  /\ ref_count = Cardinality({e \in Ends : open_count[e] > 0})
  /\ ref_count < 2 => isclosed
  /\ ref_count = 0 => reader_queue = {} /\ writer_queue = {}
  /\ \A e \in Ends : open_count[e] = (IF opened[e] THEN 1 ELSE 0)
                                     + Cardinality({p \in PipeProcs : pipePc[p] = e})

\* A pipe delivers its bytes in order, leaves nobody asleep and is freed alone.
KPipeSound == KPipeTypeOK /\ NobodyLeftAsleep /\ InOrder /\ ReleasedAlone
=============================================================================
