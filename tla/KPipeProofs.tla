----------------------------- MODULE KPipeProofs ----------------------------
(***************************************************************************)
(* A pipe keeps its bytes in order, leaves nobody asleep and is freed      *)
(* alone, for every number of threads, size of the buffer and range of the *)
(* positions.                                                              *)
(***************************************************************************)
EXTENDS KPipe, FiniteSetTheorems, WellFoundedInduction, TLAPS

\* What % gives lies below the divisor.
LEMMA ModRange ==
  ASSUME NEW a \in Int, NEW d \in Int, d > 0
  PROVE  a % d \in 0 .. d - 1
OBVIOUS

\* A number is the multiple of the divisor below it and the rest.
LEMMA DivMod ==
  ASSUME NEW a \in Int, NEW d \in Int, d > 0
  PROVE  a \div d \in Int /\ a = d * (a \div d) + (a % d)
<1>1. a \div d \in Int
  OBVIOUS
<1>2. a = d * (a \div d) + (a % d)
  OBVIOUS
<1> QED
  BY <1>1, <1>2

\* The rest is determined by lying below the divisor.
LEMMA ModUnique ==
  ASSUME NEW a \in Int, NEW d \in Int, d > 0, NEW q \in Int, NEW s \in Int,
         a = d * q + s, 0 <= s, s < d
  PROVE  a % d = s
BY SMT

\* No multiple of d lies strictly between 0 and d.
LEMMA NoMultipleBetween ==
  ASSUME NEW n \in Int, NEW d \in Int, d > 0, 0 < d * n, d * n < d
  PROVE  FALSE
<1>1. CASE n <= 0
  <2>1. d * n <= 0
    BY <1>1
  <2> QED
    BY <2>1
<1>2. CASE n >= 1
  <2>1. d * n >= d
    BY <1>2
  <2> QED
    BY <2>1
<1> QED
  BY <1>1, <1>2

\* Two positions less than a ring apart have different slots.
LEMMA ModApart ==
  ASSUME NEW a \in Int, NEW c \in Int, NEW d \in Int, d > 0, a < c, c - a < d
  PROVE  a % d # c % d
<1> SUFFICES ASSUME a % d = c % d PROVE FALSE
  OBVIOUS
<1> DEFINE q == a \div d
           s == c \div d
<1>1. q \in Int /\ s \in Int /\ a = d * q + (a % d) /\ c = d * s + (c % d)
  BY DivMod
<1> HIDE DEF q, s
<1>2. a % d \in Int
  BY ModRange
<1>3. c - a = d * s - d * q
  BY <1>1, <1>2
<1>4. d * s - d * q = d * (s - q)
  BY <1>1
<1> DEFINE n == s - q
<1>5. n \in Int
  BY <1>1
<1>6. c - a = d * n
  BY <1>3, <1>4
<1> HIDE DEF n
<1>7. 0 < d * n /\ d * n < d
  BY <1>6
<1> QED
  BY <1>5, <1>7, NoMultipleBetween

\* Two positions a ring apart have the same slot.
LEMMA ModSame ==
  ASSUME NEW a \in Int, NEW d \in Int, d > 0
  PROVE  (a + d) % d = a % d
<1> DEFINE q == a \div d
           s == a % d
<1>1. q \in Int /\ a = d * q + s /\ s \in 0 .. d - 1
  BY DivMod, ModRange
<1> HIDE DEF q, s
<1>2. a + d = d * (q + 1) + s
  BY <1>1
<1>3. (a + d) % d = s
  BY <1>1, <1>2, ModUnique
<1> QED
  BY <1>3 DEF s

-----------------------------------------------------------------------------
\* There are never more bytes than the buffer holds, in the buffer and in
\* the stream alike, and until the positions wrap they are the same bytes.
PipeData ==
  /\ buf \in [0 .. PIPE_BUFSIZE - 1 -> Bytes] /\ stream \in Seq(Bytes)
  /\ p_rpos \in 0 .. OffRange - 1 /\ p_wpos \in 0 .. OffRange - 1
  /\ pipeIntact \in BOOLEAN /\ wrapped \in BOOLEAN
  /\ Len(stream) = Size /\ Size <= PIPE_BUFSIZE
  /\ ~wrapped => /\ pipeIntact /\ p_rpos <= p_wpos
                 /\ \A i \in 1 .. Len(stream) : stream[i] = buf[Slot(p_rpos + i - 1)]

\* Who sleeps has a reason to, and a place in the queue of its end; a thread is
\* queued only inside a call.
PipeThreads ==
  /\ reader_queue \subseteq PipeProcs /\ writer_queue \subseteq PipeProcs
  /\ pipePc \in [PipeProcs -> Ends \union {"user", "exited"}]
  /\ pipeWant \in [PipeProcs -> 0 .. PipeMaxLen]
  /\ pipe_wait_state \in [PipeProcs -> {"none", "PIPE"}]
  /\ pipeFlags \in [PipeProcs -> {"INTERRUPTED", "PIPE"}]
  /\ pipeExiting \in [PipeProcs -> BOOLEAN]
  /\ NobodyLeftAsleep
  /\ \A p \in PipeProcs : pipe_wait_state[p] = "PIPE" => pipePc[p] \in Ends
  /\ \A p \in reader_queue : pipePc[p] = "read"
  /\ \A p \in writer_queue : pipePc[p] = "write"

\* Each end is held by its descriptor and by the calls inside.
PipeFiles ==
  /\ opened \in [Ends -> BOOLEAN] /\ open_count \in [Ends -> Nat]
  /\ ref_count \in 0 .. 2 /\ isclosed \in BOOLEAN
  /\ ref_count = (IF open_count["read"] > 0 THEN 1 ELSE 0)
                 + (IF open_count["write"] > 0 THEN 1 ELSE 0)
  /\ ref_count < 2 => isclosed
  /\ \A e \in Ends : open_count[e] = (IF opened[e] THEN 1 ELSE 0)
                                       + Cardinality({p \in PipeProcs : pipePc[p] = e})

PipeInv == PipeData /\ PipeThreads /\ PipeFiles

\* % for numbers that are at most one turn off.
LEMMA ModNear ==
  ASSUME NEW d \in Int, d > 0, NEW x \in Int, -d <= x, x < 2 * d
  PROVE  x % d = IF x < 0 THEN x + d ELSE IF x < d THEN x ELSE x - d
<1>1. CASE x < 0
  <2>1. x = d * (-1) + (x + d)
    OBVIOUS
  <2> QED
    BY <1>1, <2>1, ModUnique
<1>2. CASE 0 <= x /\ x < d
  <2>1. x = d * 0 + x
    OBVIOUS
  <2> QED
    BY <1>2, <2>1, ModUnique
<1>3. CASE d <= x
  <2>1. x = d * 1 + (x - d)
    OBVIOUS
  <2> QED
    BY <1>3, <2>1, ModUnique
<1> QED
  BY <1>1, <1>2, <1>3

\* The size as a difference of positions.
LEMMA SizeIs ==
  ASSUME NEW d \in Int, d > 0, NEW x \in 0 .. d - 1, NEW y \in 0 .. d - 1
  PROVE  (y - x) % d = IF x <= y THEN y - x ELSE y - x + d
BY ModNear

\* Moving either position on by less than a turn.
LEMMA SizeMoves ==
  ASSUME NEW d \in Int, d > 0, NEW x \in 0 .. d - 1, NEW y \in 0 .. d - 1, NEW n \in Nat
  PROVE  /\ n <= (y - x) % d => /\ (x + n) % d \in 0 .. d - 1
                                /\ (y - ((x + n) % d)) % d = ((y - x) % d) - n
         /\ ((y - x) % d) + n < d => /\ (y + n) % d \in 0 .. d - 1
                                   /\ (((y + n) % d) - x) % d = ((y - x) % d) + n
<1>1. ASSUME n <= (y - x) % d
      PROVE  (x + n) % d \in 0 .. d - 1 /\ (y - ((x + n) % d)) % d = ((y - x) % d) - n
  <2>1. (y - x) % d = IF x <= y THEN y - x ELSE y - x + d
    BY SizeIs
  <2>2. (x + n) % d = IF x + n < d THEN x + n ELSE x + n - d
    BY <1>1, <2>1, ModNear
  <2>3. (x + n) % d \in 0 .. d - 1
    BY <1>1, <2>1, <2>2
  <2> DEFINE z == (x + n) % d
  <2>4. (y - z) % d = IF z <= y THEN y - z ELSE y - z + d
    BY <2>3, SizeIs
  <2> QED
    BY <1>1, <2>1, <2>2, <2>3, <2>4
<1>2. ASSUME ((y - x) % d) + n < d
      PROVE  (y + n) % d \in 0 .. d - 1 /\ (((y + n) % d) - x) % d = ((y - x) % d) + n
  <2>1. (y - x) % d = IF x <= y THEN y - x ELSE y - x + d
    BY SizeIs
  <2>2. (y + n) % d = IF y + n < d THEN y + n ELSE y + n - d
    BY <1>2, <2>1, ModNear
  <2>3. (y + n) % d \in 0 .. d - 1
    BY <1>2, <2>1, <2>2
  <2> DEFINE z == (y + n) % d
  <2>4. (z - x) % d = IF x <= z THEN z - x ELSE z - x + d
    BY <2>3, SizeIs
  <2> QED
    BY <1>2, <2>1, <2>2, <2>3, <2>4
<1> QED
  BY <1>1, <1>2

\* The slot of a position that has not wrapped.
LEMMA SlotIs ==
  ASSUME KPipeAssumption, NEW n \in 0 .. OffRange - 1
  PROVE  Slot(n) = n % PIPE_BUFSIZE /\ Slot(n) \in 0 .. PIPE_BUFSIZE - 1
<1>1. n % OffRange = n
  BY ModNear DEF KPipeAssumption
<1> QED
  BY <1>1, ModRange DEF Slot, KPipeAssumption

\* What is left of a sequence when its first n elements are taken.
LEMMA RestOf ==
  ASSUME NEW T, NEW q \in Seq(T), NEW n \in 0 .. Len(q)
  PROVE  /\ SubSeq(q, n + 1, Len(q)) \in Seq(T)
         /\ Len(SubSeq(q, n + 1, Len(q))) = Len(q) - n
         /\ \A i \in 1 .. Len(q) - n : SubSeq(q, n + 1, Len(q))[i] = q[n + i]
<1>1. Len(SubSeq(q, n + 1, Len(q))) = Len(q) - n
  OBVIOUS
<1>2. SubSeq(q, n + 1, Len(q)) \in Seq(T)
  OBVIOUS
<1>3. ASSUME NEW i \in 1 .. Len(q) - n PROVE SubSeq(q, n + 1, Len(q))[i] = q[n + i]
  <2>1. i \in 1 .. Len(SubSeq(q, n + 1, Len(q))) /\ q[(n + 1) + i - 1] = q[n + i]
    BY <1>1
  <2> QED
    BY <1>2, <2>1
<1> QED
  BY <1>1, <1>2, <1>3

\* The part of a read that takes m bytes, apart from its return.
PipeTakes(m) ==
  /\ p_rpos' = (p_rpos + m) % OffRange
  /\ pipeIntact' = (pipeIntact /\ [i \in 1 .. m |-> buf[Slot(p_rpos + i - 1)]]
                                    = SubSeq(stream, 1, m))
  /\ stream' = SubSeq(stream, m + 1, Len(stream))
  /\ UNCHANGED <<buf, p_wpos, wrapped>>

\* What PipeData says of the numbers.
LEMMA PipeNumbers ==
  ASSUME KPipeAssumption, PipeData
  PROVE  /\ p_rpos \in 0 .. OffRange - 1 /\ p_wpos \in 0 .. OffRange - 1 /\ OffRange \in Int
         /\ OffRange > 0 /\ PIPE_BUFSIZE \in Nat /\ PIPE_BUFSIZE > 0 /\ PIPE_BUFSIZE < OffRange
         /\ stream \in Seq(Bytes) /\ Len(stream) = Size /\ Size <= PIPE_BUFSIZE
         /\ Size \in 0 .. OffRange - 1
<1>1. /\ p_rpos \in 0 .. OffRange - 1 /\ p_wpos \in 0 .. OffRange - 1 /\ OffRange \in Int
      /\ OffRange > 0 /\ PIPE_BUFSIZE \in Nat /\ PIPE_BUFSIZE > 0 /\ PIPE_BUFSIZE < OffRange
      /\ stream \in Seq(Bytes) /\ Len(stream) = Size /\ Size <= PIPE_BUFSIZE
  BY DEF PipeData, KPipeAssumption
<1>2. Size \in 0 .. OffRange - 1
  BY <1>1, ModRange DEF Size
<1> QED
  BY <1>1, <1>2

\* A read takes the front of the stream.
LEMMA PipeTake ==
  ASSUME KPipeAssumption, PipeData, NEW m \in 0 .. Size, PipeTakes(m)
  PROVE  PipeData' /\ Size' = Size - m
<1>0. /\ p_rpos \in 0 .. OffRange - 1 /\ p_wpos \in 0 .. OffRange - 1 /\ OffRange \in Int
      /\ OffRange > 0 /\ PIPE_BUFSIZE \in Nat /\ PIPE_BUFSIZE > 0 /\ PIPE_BUFSIZE < OffRange
      /\ stream \in Seq(Bytes) /\ Len(stream) = Size /\ Size <= PIPE_BUFSIZE
      /\ Size \in 0 .. OffRange - 1
  BY PipeNumbers
<1> USE <1>0
<1>1. m \in Nat /\ m <= Size
  OBVIOUS
<1>2. p_rpos' = (p_rpos + m) % OffRange /\ p_wpos' = p_wpos
  BY DEF PipeTakes
<1>3. p_rpos' \in 0 .. OffRange - 1 /\ Size' = Size - m
  BY <1>1, <1>2, SizeMoves, Zenon DEF Size
<1>4. /\ stream' \in Seq(Bytes) /\ Len(stream') = Len(stream) - m
      /\ \A i \in 1 .. Len(stream) - m : stream'[i] = stream[m + i]
  <2>1. stream' = SubSeq(stream, m + 1, Len(stream))
    BY DEF PipeTakes
  <2> QED
    BY <1>1, <2>1, RestOf, Zenon
<1>5. ASSUME ~wrapped
      PROVE  /\ pipeIntact' /\ p_rpos' <= p_wpos
             /\ \A i \in 1 .. Len(stream') : stream'[i] = buf[Slot(p_rpos' + i - 1)]
  <2>1. /\ pipeIntact /\ p_rpos <= p_wpos
        /\ \A i \in 1 .. Len(stream) : stream[i] = buf[Slot(p_rpos + i - 1)]
    BY <1>5 DEF PipeData
  <2>2. Size = p_wpos - p_rpos
    BY <2>1, SizeIs, Zenon DEF Size
  <2>3. p_rpos' = p_rpos + m
    <3>1. p_rpos + m \in Int /\ 0 <= p_rpos + m /\ p_rpos + m < OffRange
      BY <1>1, <2>2
    <3>2. (p_rpos + m) % OffRange = p_rpos + m
      BY <3>1, ModNear
    <3> QED
      BY <1>2, <3>2
  <2>4. [i \in 1 .. m |-> buf[Slot(p_rpos + i - 1)]] = SubSeq(stream, 1, m)
    <3>1. SubSeq(stream, 1, m) = [i \in 1 .. m |-> stream[i]]
      BY <1>1
    <3>2. \A i \in 1 .. m : stream[i] = buf[Slot(p_rpos + i - 1)]
      BY <1>1, <2>1
    <3> QED
      BY <3>1, <3>2
  <2>5. pipeIntact'
    BY <2>1, <2>4, Zenon DEF PipeTakes
  <2>6. ASSUME NEW i \in 1 .. Len(stream') PROVE stream'[i] = buf[Slot(p_rpos' + i - 1)]
    <3>1. m + i \in 1 .. Len(stream) /\ stream'[i] = stream[m + i]
      BY <1>1, <1>4
    <3>2. stream[m + i] = buf[Slot(p_rpos + (m + i) - 1)]
      BY <2>1, <3>1
    <3>3. p_rpos' + i - 1 = p_rpos + (m + i) - 1
      BY <1>1, <2>3, <3>1
    <3> QED
      BY <3>1, <3>2, <3>3
  <2>7. p_rpos' <= p_wpos
    BY <1>1, <2>1, <2>2, <2>3
  <2> QED
    BY <2>5, <2>6, <2>7
<1>6. /\ pipeIntact' \in BOOLEAN /\ wrapped' \in BOOLEAN /\ buf' \in [0 .. PIPE_BUFSIZE - 1 -> Bytes]
      /\ buf' = buf /\ wrapped' = wrapped
  BY DEF PipeData, PipeTakes
<1>7. Size' <= PIPE_BUFSIZE /\ Len(stream') = Size'
  BY <1>1, <1>3, <1>4
<1> QED
  BY <1>2, <1>3, <1>4, <1>5, <1>6, <1>7 DEF PipeData, Slot

\* A set of numbers that is not empty has a least one.
LEMMA LeastExists ==
  ASSUME NEW T, T \subseteq Nat, T # {}
  PROVE  \E x \in T : \A y \in T : x <= y
<1>1. PICK x \in T : \A y \in T : ~(<<y, x>> \in OpToRel(<, Nat))
  BY WFMin, NatLessThanWellFounded, Zenon
<1>2. \A y \in T : ~(y < x)
  BY <1>1, Zenon DEF OpToRel
<1> QED
  BY <1>2

\* Some element of a set of numbers up to n is its last.
LEMMA LastOf ==
  ASSUME NEW n \in Nat, NEW T \in SUBSET (1 .. n), T # {}
  PROVE  \E i \in T : \A j \in i + 1 .. n : j \notin T
<1> DEFINE D == {n - i : i \in T}
<1>1. D \subseteq Nat
  OBVIOUS
<1>2. \A i \in T : n - i \in D
  OBVIOUS
<1>3. \A x \in D : \E i \in T : x = n - i
  OBVIOUS
<1> HIDE DEF D
<1>4. PICK x \in D : \A y \in D : x <= y
  <2>1. D # {}
    BY <1>2, Zenon
  <2> QED
    BY <1>1, <2>1, LeastExists, Zenon
<1>5. PICK i \in T : x = n - i
  BY <1>3
<1>6. ASSUME NEW j \in i + 1 .. n, j \in T PROVE FALSE
  BY <1>2, <1>4, <1>5, <1>6
<1> QED
  BY <1>5, <1>6

\* The buffer after a write, slot by slot.
LEMMA PipeStored ==
  ASSUME KPipeAssumption, PipeData, NEW m \in Nat, NEW bytes \in [1 .. m -> Bytes],
         Len(bytes) = m, Store(bytes)
  PROVE  /\ buf' \in [0 .. PIPE_BUFSIZE - 1 -> Bytes]
         /\ \A s \in 0 .. PIPE_BUFSIZE - 1 :
              (\A i \in 1 .. m : Slot(p_wpos + i - 1) # s) => buf'[s] = buf[s]
         /\ \A s \in 0 .. PIPE_BUFSIZE - 1, i \in 1 .. m :
              /\ Slot(p_wpos + i - 1) = s
              /\ \A j \in 1 .. m : j # i => Slot(p_wpos + j - 1) # s
              => buf'[s] = bytes[i]
<1> DEFINE At(i) == Slot(p_wpos + i - 1)
           Last(s) == CHOOSE i \in 1 .. m : At(i) = s /\ \A j \in i + 1 .. m : At(j) # s
<1>1. buf' = [s \in DOMAIN buf |-> IF \E i \in 1 .. m : At(i) = s
                                   THEN bytes[Last(s)] ELSE buf[s]]
  BY DEF Store
<1>2. buf \in [0 .. PIPE_BUFSIZE - 1 -> Bytes]
  BY DEF PipeData
<1>3. ASSUME NEW s \in 0 .. PIPE_BUFSIZE - 1, NEW i \in 1 .. m, At(i) = s
      PROVE  Last(s) \in 1 .. m /\ At(Last(s)) = s
  <2> DEFINE T == {n \in 1 .. m : At(n) = s}
  <2>1. T \in SUBSET (1 .. m) /\ T # {}
    BY <1>3, Zenon
  <2>2. \A n \in 1 .. m : n \in T <=> At(n) = s
    OBVIOUS
  <2> HIDE DEF T
  <2>3. PICK n \in T : \A j \in n + 1 .. m : j \notin T
    BY <2>1, LastOf, Zenon
  <2>4. n \in 1 .. m /\ At(n) = s /\ \A j \in n + 1 .. m : At(j) # s
    <3>1. n \in 1 .. m /\ At(n) = s
      BY <2>1, <2>2
    <3>2. \A j \in n + 1 .. m : j \in 1 .. m
      BY <3>1
    <3> HIDE DEF At
    <3> QED
      BY <2>2, <2>3, <3>1, <3>2
  <2> HIDE DEF At
  <2> QED
    BY <2>4
<1> HIDE DEF At, Last
<1>4. \A s \in 0 .. PIPE_BUFSIZE - 1 :
        buf'[s] = IF \E i \in 1 .. m : At(i) = s THEN bytes[Last(s)] ELSE buf[s]
  BY <1>1, <1>2
<1>5. buf' \in [0 .. PIPE_BUFSIZE - 1 -> Bytes]
  BY <1>1, <1>2, <1>3
<1>6. \A s \in 0 .. PIPE_BUFSIZE - 1 : (\A i \in 1 .. m : At(i) # s) => buf'[s] = buf[s]
  BY <1>4
<1>7. \A s \in 0 .. PIPE_BUFSIZE - 1, i \in 1 .. m :
        At(i) = s /\ (\A j \in 1 .. m : j # i => At(j) # s) => buf'[s] = bytes[i]
  BY <1>3, <1>4
<1> QED
  BY <1>5, <1>6, <1>7 DEF At

\* Positions less than a buffer apart, before the wrap, have slots of their own.
LEMMA SlotsApart ==
  ASSUME KPipeAssumption, NEW x \in 0 .. OffRange - 1, NEW y \in 0 .. OffRange - 1,
         x < y, y - x < PIPE_BUFSIZE
  PROVE  Slot(x) # Slot(y)
<1>1. PIPE_BUFSIZE \in Int /\ PIPE_BUFSIZE > 0 /\ x \in Int /\ y \in Int
  BY DEF KPipeAssumption
<1>2. x % PIPE_BUFSIZE # y % PIPE_BUFSIZE
  BY <1>1, ModApart
<1> QED
  BY <1>2, SlotIs

\* What two sequences one after the other hold.
LEMMA JoinOf ==
  ASSUME NEW T, NEW q \in Seq(T), NEW s \in Seq(T)
  PROVE  /\ q \o s \in Seq(T) /\ Len(q \o s) = Len(q) + Len(s)
         /\ \A i \in 1 .. Len(q) : (q \o s)[i] = q[i]
         /\ \A i \in 1 .. Len(s) : (q \o s)[Len(q) + i] = s[i]
<1>1. q \o s \in Seq(T) /\ Len(q \o s) = Len(q) + Len(s)
  OBVIOUS
<1>2. ASSUME NEW i \in 1 .. Len(q) PROVE (q \o s)[i] = q[i]
  OBVIOUS
<1>3. ASSUME NEW i \in 1 .. Len(s) PROVE (q \o s)[Len(q) + i] = s[i]
  OBVIOUS
<1> QED
  BY <1>1, <1>2, <1>3

\* A write adds its bytes at the end of the stream.
LEMMA PipeStore ==
  ASSUME KPipeAssumption, PipeData, NEW m \in 0 .. PIPE_BUFSIZE - Size,
         NEW bytes \in [1 .. m -> Bytes], Store(bytes)
  PROVE  PipeData' /\ Size' = Size + m
<1>0. /\ p_rpos \in 0 .. OffRange - 1 /\ p_wpos \in 0 .. OffRange - 1 /\ OffRange \in Int
      /\ OffRange > 0 /\ PIPE_BUFSIZE \in Nat /\ PIPE_BUFSIZE > 0 /\ PIPE_BUFSIZE < OffRange
      /\ stream \in Seq(Bytes) /\ Len(stream) = Size /\ Size <= PIPE_BUFSIZE
      /\ Size \in 0 .. OffRange - 1
  BY PipeNumbers
<1>1. m \in Nat /\ Size + m <= PIPE_BUFSIZE
  BY <1>0
<1>2. bytes \in Seq(Bytes) /\ Len(bytes) = m
  BY <1>1
<1>3. p_wpos' = (p_wpos + m) % OffRange /\ p_rpos' = p_rpos
  BY <1>2 DEF Store
<1>4. p_wpos' \in 0 .. OffRange - 1 /\ Size' = Size + m
  <2>1. Size + m < OffRange
    BY <1>0, <1>1
  <2> QED
    BY <1>0, <1>1, <1>3, <2>1, SizeMoves, Zenon DEF Size
<1>5. /\ stream' \in Seq(Bytes) /\ Len(stream') = Len(stream) + m
      /\ \A i \in 1 .. Len(stream) : stream'[i] = stream[i]
      /\ \A i \in 1 .. m : stream'[Len(stream) + i] = bytes[i]
  <2>1. stream' = stream \o bytes
    BY DEF Store
  <2>2. /\ stream \o bytes \in Seq(Bytes) /\ Len(stream \o bytes) = Len(stream) + Len(bytes)
        /\ \A i \in 1 .. Len(stream) : (stream \o bytes)[i] = stream[i]
        /\ \A i \in 1 .. Len(bytes) : (stream \o bytes)[Len(stream) + i] = bytes[i]
    <3>1. stream \in Seq(Bytes) /\ bytes \in Seq(Bytes)
      BY <1>0, <1>2
    <3> QED
      BY <3>1, JoinOf
  <2> QED
    BY <1>2, <2>1, <2>2, Zenon
<1>6. ASSUME ~wrapped'
      PROVE  /\ pipeIntact' /\ p_rpos' <= p_wpos'
             /\ \A i \in 1 .. Len(stream') : stream'[i] = buf'[Slot(p_rpos + i - 1)]
  <2>1. ~wrapped /\ p_wpos + m < OffRange
    <3>1. wrapped' = (wrapped \/ p_wpos + m >= OffRange)
      BY <1>2 DEF Store
    <3>2. ~wrapped /\ ~(p_wpos + m >= OffRange)
      BY <1>6, <3>1, Zenon
    <3> QED
      BY <1>0, <1>1, <3>2
  <2>2. /\ pipeIntact /\ p_rpos <= p_wpos
        /\ \A i \in 1 .. Len(stream) : stream[i] = buf[Slot(p_rpos + i - 1)]
    BY <2>1 DEF PipeData
  <2>3. Size = p_wpos - p_rpos
    BY <1>0, <2>2, SizeIs, Zenon DEF Size
  <2>4. p_wpos' = p_wpos + m
    <3>1. p_wpos + m \in Int /\ 0 <= p_wpos + m /\ p_wpos + m < OffRange
      BY <1>0, <1>1, <2>1
    <3>2. (p_wpos + m) % OffRange = p_wpos + m
      BY <1>0, <3>1, ModNear
    <3> QED
      BY <1>3, <3>2
  <2>5. ASSUME NEW i \in 1 .. Len(stream)
        PROVE  stream'[i] = buf'[Slot(p_rpos + i - 1)]
    <3> DEFINE x == p_rpos + i - 1
    <3>1. x \in 0 .. OffRange - 1 /\ x < p_wpos /\ x >= p_rpos
      BY <1>0, <2>3
    <3>2. ASSUME NEW j \in 1 .. m PROVE Slot(p_wpos + j - 1) # Slot(x)
      <4> DEFINE y == p_wpos + j - 1
      <4>1. y \in 0 .. OffRange - 1 /\ x < y /\ y - x < PIPE_BUFSIZE
        BY <1>0, <1>1, <2>1, <2>3, <3>1
      <4> HIDE DEF x, y
      <4>2. Slot(x) # Slot(y)
        BY <3>1, <4>1, SlotsApart
      <4> QED
        BY <4>2 DEF y
    <3>3. Slot(x) \in 0 .. PIPE_BUFSIZE - 1
      BY <3>1, SlotIs
    <3>4. buf'[Slot(x)] = buf[Slot(x)]
      BY <1>1, <1>2, <3>2, <3>3, PipeStored
    <3> QED
      BY <1>5, <2>2, <3>4
  <2>6. ASSUME NEW i \in 1 .. m
        PROVE  stream'[Len(stream) + i] = buf'[Slot(p_wpos + i - 1)]
    <3>1. ASSUME NEW j \in 1 .. m, NEW n \in 1 .. m, j < n
          PROVE  Slot(p_wpos + j - 1) # Slot(p_wpos + n - 1)
      <4> DEFINE x == p_wpos + j - 1
                 y == p_wpos + n - 1
      <4>1. x \in 0 .. OffRange - 1 /\ y \in 0 .. OffRange - 1 /\ x < y /\ y - x < PIPE_BUFSIZE
        BY <1>0, <1>1, <2>1, <3>1
      <4> HIDE DEF x, y
      <4>2. Slot(x) # Slot(y)
        BY <4>1, SlotsApart
      <4> QED
        BY <4>2 DEF x, y
    <3>2. \A j \in 1 .. m : j # i => Slot(p_wpos + j - 1) # Slot(p_wpos + i - 1)
      <4> SUFFICES ASSUME NEW j \in 1 .. m, j # i
                   PROVE  Slot(p_wpos + j - 1) # Slot(p_wpos + i - 1)
        OBVIOUS
      <4>1. j < i \/ i < j
        BY <1>1
      <4> QED
        BY <3>1, <4>1
    <3>3. p_wpos + i - 1 \in 0 .. OffRange - 1
      BY <1>0, <1>1, <2>1
    <3>4. Slot(p_wpos + i - 1) \in 0 .. PIPE_BUFSIZE - 1
      BY <3>3, SlotIs
    <3>5. buf'[Slot(p_wpos + i - 1)] = bytes[i]
      BY <1>1, <1>2, <3>2, <3>4, PipeStored
    <3> QED
      BY <1>5, <3>5
  <2>7. ASSUME NEW i \in 1 .. Len(stream')
        PROVE  stream'[i] = buf'[Slot(p_rpos + i - 1)]
    <3>1. CASE i <= Len(stream)
      BY <1>0, <2>5, <3>1
    <3>2. CASE i > Len(stream)
      <4> DEFINE j == i - Len(stream)
      <4>1. j \in 1 .. m /\ i = Len(stream) + j /\ p_rpos + i - 1 = p_wpos + j - 1
        BY <1>0, <1>1, <1>5, <2>3, <3>2
      <4> HIDE DEF j
      <4> QED
        BY <2>6, <4>1
    <3> QED
      BY <1>0, <1>5, <3>1, <3>2
  <2>8. p_rpos' <= p_wpos'
    BY <1>0, <1>1, <1>3, <2>2, <2>4
  <2> QED
    BY <2>2, <2>7, <2>8, Zenon DEF Store
<1>7. pipeIntact' \in BOOLEAN /\ wrapped' \in BOOLEAN
  BY DEF PipeData, Store
<1>8. buf' \in [0 .. PIPE_BUFSIZE - 1 -> Bytes]
  BY <1>1, <1>2, PipeStored
<1>9. Size' <= PIPE_BUFSIZE /\ Len(stream') = Size'
  BY <1>0, <1>1, <1>4, <1>5
<1> QED
  BY <1>0, <1>3, <1>4, <1>5, <1>6, <1>7, <1>8, <1>9 DEF PipeData, Slot
-----------------------------------------------------------------------------
\* The calls inside an end.
Inside(f, e) == {p \in PipeProcs : f[p] = e}

\* A thread goes to y.
Goes(f, g, p, y) == DOMAIN f = PipeProcs /\ g = [f EXCEPT ![p] = y]

\* A thread that goes from one place to another changes the numbers of the two.
LEMMA InsideMoves ==
  ASSUME IsFiniteSet(PipeProcs), NEW p \in PipeProcs, NEW y, NEW e, NEW f, NEW g, Goes(f, g, p, y)
  PROVE  /\ Cardinality(Inside(f, e)) \in Nat /\ Cardinality(Inside(g, e)) \in Nat
         /\ f[p] = e => Cardinality(Inside(f, e)) > 0
         /\ Cardinality(Inside(g, e)) = Cardinality(Inside(f, e)) + (IF y = e THEN 1 ELSE 0)
                                                            - (IF f[p] = e THEN 1 ELSE 0)
<1>1. IsFiniteSet(Inside(f, e)) /\ IsFiniteSet(Inside(f, e) \ {p})
  BY FS_Subset DEF Inside
<1>2. Cardinality(Inside(f, e)) \in Nat /\ Cardinality(Inside(f, e) \ {p}) \in Nat
  BY <1>1, FS_CardinalityType
<1>3. Inside(g, e) = IF y = e THEN (Inside(f, e) \ {p}) \union {p} ELSE Inside(f, e) \ {p}
  BY DEF Inside, Goes
<1>4. Cardinality(Inside(f, e)) = Cardinality(Inside(f, e) \ {p}) + (IF f[p] = e THEN 1 ELSE 0)
  <2>1. CASE f[p] = e
    <3>1. p \in Inside(f, e)
      BY <2>1 DEF Inside
    <3>2. Cardinality(Inside(f, e) \ {p}) = Cardinality(Inside(f, e)) - 1
      BY <1>1, <3>1, FS_RemoveElement
    <3> QED
      BY <1>2, <2>1, <3>2
  <2>2. CASE f[p] # e
    <3>1. Inside(f, e) \ {p} = Inside(f, e)
      BY <2>2 DEF Inside
    <3> QED
      BY <1>2, <2>2, <3>1
  <2> QED
    BY <2>1, <2>2
<1>5. Cardinality(Inside(g, e)) = Cardinality(Inside(f, e) \ {p}) + (IF y = e THEN 1 ELSE 0)
  <2>1. p \notin Inside(f, e) \ {p}
    OBVIOUS
  <2>2. Cardinality((Inside(f, e) \ {p}) \union {p}) = Cardinality(Inside(f, e) \ {p}) + 1
    BY <1>1, <2>1, FS_AddElement
  <2> QED
    BY <1>2, <1>3, <2>2
<1> QED
  BY <1>2, <1>4, <1>5

\* A thread that is about to call, or is inside a call on, an end.
Calling(p, end) == (pipePc[p] = "user" /\ opened[end]) \/ pipePc[p] = end

\* Whoever a step does not wake has a reason to sleep on.
MaySleepOn(woken) ==
  \A q \in PipeProcs : pipe_wait_state[q] = "PIPE" /\ q \notin woken =>
    /\ pipePc[q] = "read" => is_empty'
    /\ pipePc[q] = "write" => is_full'

\* A return or a close that wakes the threads in woken: whoever sleeps on has a
\* reason to, and with the last hold nobody does.
LEMMA ThreadsRelease ==
  ASSUME PipeThreads, NEW p \in PipeProcs, NEW end \in Ends, NEW holds, NEW woken,
         isclosed \in BOOLEAN, pipe_wait_state[p] = "none",
         Release(p, end, holds, woken), Goes(pipePc, pipePc', p, PipeBackToUser(p)),
         pipeWant' \in [PipeProcs -> 0 .. PipeMaxLen], pipeExiting' = pipeExiting,
         MaySleepOn(woken)
  PROVE  PipeThreads'
<1> DEFINE last == open_count[end] = holds
           all == IF last THEN woken \union reader_queue \union writer_queue ELSE woken
<1>1. /\ isclosed' = (isclosed \/ last)
      /\ pipe_wait_state' = [q \in PipeProcs |-> IF q \in all THEN "none" ELSE pipe_wait_state[q]]
      /\ pipeFlags' = [q \in PipeProcs |-> IF q = p THEN "INTERRUPTED"
                                           ELSE IF q \in all THEN "PIPE" ELSE pipeFlags[q]]
      /\ reader_queue' = reader_queue \ (all \union {p})
      /\ writer_queue' = writer_queue \ (all \union {p})
  BY DEF Release
<1>2. woken \subseteq all /\ (last => reader_queue \subseteq all /\ writer_queue \subseteq all)
  OBVIOUS
<1> HIDE DEF all, last
<1>3. /\ reader_queue \subseteq PipeProcs /\ writer_queue \subseteq PipeProcs
      /\ pipePc \in [PipeProcs -> Ends \union {"user", "exited"}]
      /\ pipe_wait_state \in [PipeProcs -> {"none", "PIPE"}]
      /\ pipeFlags \in [PipeProcs -> {"INTERRUPTED", "PIPE"}]
      /\ pipeExiting \in [PipeProcs -> BOOLEAN]
  BY DEF PipeThreads
<1> USE DEF Goes
<1>4. /\ reader_queue' \subseteq PipeProcs /\ writer_queue' \subseteq PipeProcs
      /\ pipePc' \in [PipeProcs -> Ends \union {"user", "exited"}]
      /\ pipe_wait_state' \in [PipeProcs -> {"none", "PIPE"}]
      /\ pipeFlags' \in [PipeProcs -> {"INTERRUPTED", "PIPE"}]
      /\ pipeExiting' \in [PipeProcs -> BOOLEAN]
  BY <1>1, <1>3 DEF PipeBackToUser
<1>5. ASSUME NEW q \in PipeProcs, pipe_wait_state'[q] = "PIPE"
      PROVE  /\ ~isclosed' /\ pipePc'[q] \in Ends
             /\ pipePc'[q] = "read" => is_empty' /\ q \in reader_queue'
             /\ pipePc'[q] = "write" => is_full' /\ q \in writer_queue'
  <2>1. q \notin all /\ pipe_wait_state[q] = "PIPE" /\ q # p
    BY <1>1, <1>5
  <2>2. pipePc'[q] = pipePc[q]
    BY <1>3, <2>1
  <2>3. /\ ~isclosed /\ pipePc[q] \in Ends
        /\ pipePc[q] = "read" => q \in reader_queue
        /\ pipePc[q] = "write" => q \in writer_queue
    BY <2>1 DEF PipeThreads, NobodyLeftAsleep
  <2>4. ~last
    BY <1>2, <2>1, <2>3 DEF Ends
  <2> QED
    BY <1>1, <1>2, <2>1, <2>2, <2>3, <2>4 DEF MaySleepOn
<1>6. /\ \A q \in reader_queue' : pipePc'[q] = "read"
      /\ \A q \in writer_queue' : pipePc'[q] = "write"
  BY <1>1, <1>3 DEF PipeThreads
<1> QED
  BY <1>4, <1>5, <1>6 DEF PipeThreads, NobodyLeftAsleep

\* A sleep: the thread goes to the queue of its end with a reason to wait, and
\* whoever sleeps on has one.
LEMMA ThreadsSleep ==
  ASSUME PipeThreads, NEW p \in PipeProcs, NEW end \in Ends, NEW n \in 0 .. PipeMaxLen, NEW woken,
         ~isclosed, Sleep(p, end, n, woken), pipeExiting' = pipeExiting,
         reader_queue' = (reader_queue \ woken) \union (IF end = "read" THEN {p} ELSE {}),
         writer_queue' = (writer_queue \ woken) \union (IF end = "write" THEN {p} ELSE {}),
         pipePc[p] \in {"user", end},
         end = "read" => is_empty', end = "write" => is_full',
         MaySleepOn(woken)
  PROVE  PipeThreads'
<1>1. /\ pipePc' = [pipePc EXCEPT ![p] = end] /\ pipeWant' = [pipeWant EXCEPT ![p] = n]
      /\ pipe_wait_state' = [q \in PipeProcs |-> IF q = p THEN "PIPE"
                                                 ELSE IF q \in woken THEN "none" ELSE pipe_wait_state[q]]
      /\ pipeFlags' = [q \in PipeProcs |-> IF q = p THEN "INTERRUPTED"
                                           ELSE IF q \in woken THEN "PIPE" ELSE pipeFlags[q]]
      /\ isclosed' = isclosed
  BY DEF Sleep
<1>2. /\ reader_queue \subseteq PipeProcs /\ writer_queue \subseteq PipeProcs
      /\ pipePc \in [PipeProcs -> Ends \union {"user", "exited"}]
      /\ pipeWant \in [PipeProcs -> 0 .. PipeMaxLen]
      /\ pipe_wait_state \in [PipeProcs -> {"none", "PIPE"}]
      /\ pipeFlags \in [PipeProcs -> {"INTERRUPTED", "PIPE"}]
      /\ pipeExiting \in [PipeProcs -> BOOLEAN]
  BY DEF PipeThreads
<1>3. /\ reader_queue' \subseteq PipeProcs /\ writer_queue' \subseteq PipeProcs
      /\ pipePc' \in [PipeProcs -> Ends \union {"user", "exited"}]
      /\ pipeWant' \in [PipeProcs -> 0 .. PipeMaxLen]
      /\ pipe_wait_state' \in [PipeProcs -> {"none", "PIPE"}]
      /\ pipeFlags' \in [PipeProcs -> {"INTERRUPTED", "PIPE"}]
      /\ pipeExiting' \in [PipeProcs -> BOOLEAN]
  BY <1>1, <1>2
<1>4. ASSUME NEW q \in PipeProcs, pipe_wait_state'[q] = "PIPE"
      PROVE  /\ ~isclosed' /\ pipePc'[q] \in Ends
             /\ pipePc'[q] = "read" => is_empty' /\ q \in reader_queue'
             /\ pipePc'[q] = "write" => is_full' /\ q \in writer_queue'
  <2>1. CASE q = p
    BY <1>1, <1>2, <2>1
  <2>2. CASE q # p
    <3>1. q \notin woken /\ pipe_wait_state[q] = "PIPE" /\ pipePc'[q] = pipePc[q]
      BY <1>1, <1>2, <1>4, <2>2
    <3>2. /\ pipePc[q] \in Ends
          /\ pipePc[q] = "read" => q \in reader_queue
          /\ pipePc[q] = "write" => q \in writer_queue
      BY <3>1 DEF PipeThreads, NobodyLeftAsleep
    <3> QED
      BY <1>1, <3>1, <3>2 DEF MaySleepOn
  <2> QED
    BY <2>1, <2>2
<1>5. /\ \A q \in reader_queue' : pipePc'[q] = "read"
      /\ \A q \in writer_queue' : pipePc'[q] = "write"
  <2>1. \A q \in PipeProcs : q # p => pipePc'[q] = pipePc[q]
    BY <1>1, <1>2
  <2>2. pipePc'[p] = end
    BY <1>1, <1>2
  <2>3. /\ \A q \in reader_queue : pipePc[q] = "read"
        /\ \A q \in writer_queue : pipePc[q] = "write"
    BY DEF PipeThreads
  <2> QED
    BY <1>2, <2>1, <2>2, <2>3 DEF Ends
<1> QED
  BY <1>3, <1>4, <1>5 DEF PipeThreads, NobodyLeftAsleep

\* The holds on an end: of its descriptor and of the calls inside.
Holds(e) == (IF opened[e] THEN 1 ELSE 0) + Cardinality(Inside(pipePc, e))

\* What PipeFiles says, by ends.
LEMMA FilesAre ==
  PipeFiles <=>
    /\ opened \in [Ends -> BOOLEAN] /\ open_count \in [Ends -> Nat] /\ isclosed \in BOOLEAN
    /\ ref_count \in 0 .. 2
    /\ ref_count = (IF open_count["read"] > 0 THEN 1 ELSE 0)
                   + (IF open_count["write"] > 0 THEN 1 ELSE 0)
    /\ ref_count < 2 => isclosed
    /\ \A e \in Ends : open_count[e] = Holds(e)
BY DEF PipeFiles, Holds, Inside

\* A return or a close that drops holds: the last one closes the pipe.
LEMMA FilesRelease ==
  ASSUME PipeFiles, NEW p, NEW end \in Ends, NEW holds \in {0, 1}, NEW woken,
         Release(p, end, holds, woken), open_count[end] > 0,
         opened' \in [Ends -> BOOLEAN],
         \A e \in Ends : Holds(e)' = Holds(e) - (IF e = end THEN holds ELSE 0)
  PROVE  PipeFiles'
<1>1. /\ open_count' = [open_count EXCEPT ![end] = @ - holds]
      /\ isclosed' = (isclosed \/ open_count[end] = holds)
      /\ ref_count' = IF open_count[end] = holds THEN ref_count - 1 ELSE ref_count
  BY DEF Release
<1>2. /\ open_count \in [Ends -> Nat] /\ isclosed \in BOOLEAN /\ ref_count \in 0 .. 2
      /\ ref_count = (IF open_count["read"] > 0 THEN 1 ELSE 0)
                     + (IF open_count["write"] > 0 THEN 1 ELSE 0)
      /\ ref_count < 2 => isclosed
      /\ \A e \in Ends : open_count[e] = Holds(e)
  BY FilesAre
<1>3. open_count' \in [Ends -> Nat] /\ isclosed' \in BOOLEAN
  <2>1. open_count[end] - holds \in Nat
    BY <1>2
  <2> QED
    BY <1>1, <1>2, <2>1
<1>4. \A e \in Ends : open_count'[e] = open_count[e] - (IF e = end THEN holds ELSE 0)
  BY <1>1, <1>2
<1>5. \A e \in Ends : open_count'[e] = Holds(e)'
  BY <1>2, <1>4
<1>6. /\ ref_count' \in 0 .. 2
      /\ ref_count' = (IF open_count'["read"] > 0 THEN 1 ELSE 0)
                      + (IF open_count'["write"] > 0 THEN 1 ELSE 0)
  <2>1. end \in {"read", "write"} /\ "read" \in Ends /\ "write" \in Ends
    BY DEF Ends
  <2> QED
    BY <1>1, <1>2, <1>4, <2>1
<1>7. ref_count' < 2 => isclosed'
  BY <1>1, <1>2, Zenon
<1> QED
  BY <1>3, <1>5, <1>6, <1>7 DEF PipeFiles, Holds, Inside

\* A return.
LEMMA FilesReturn ==
  ASSUME KPipeAssumption, PipeFiles, PipeThreads, NEW p \in PipeProcs, NEW end \in Ends, NEW woken,
         Calling(p, end), Return(p, end, woken)
  PROVE  PipeFiles'
<1> DEFINE holds == IF pipePc[p] = "user" THEN 0 ELSE 1
<1>1. /\ Release(p, end, holds, woken) /\ opened' = opened
      /\ pipePc' = [pipePc EXCEPT ![p] = PipeBackToUser(p)]
  BY DEF Return
<1>2. IsFiniteSet(PipeProcs) /\ DOMAIN pipePc = PipeProcs /\ opened \in [Ends -> BOOLEAN]
  BY DEF KPipeAssumption, PipeThreads, PipeFiles
<1>3. PICK y \in {"user", "exited"} : Goes(pipePc, pipePc', p, y)
  BY <1>1, <1>2, Zenon DEF PipeBackToUser, Goes
<1>4. \A e \in Ends : Holds(e)' = Holds(e) - (IF e = end THEN holds ELSE 0)
  <2> TAKE e \in Ends
  <2>1. /\ Cardinality(Inside(pipePc, e)) \in Nat /\ Cardinality(Inside(pipePc', e)) \in Nat
        /\ Cardinality(Inside(pipePc', e)) = Cardinality(Inside(pipePc, e)) + (IF y = e THEN 1 ELSE 0)
                                                               - (IF pipePc[p] = e THEN 1 ELSE 0)
    BY <1>2, <1>3, InsideMoves
  <2>2. (IF pipePc[p] = e THEN 1 ELSE 0) = IF e = end THEN holds ELSE 0
    BY DEF Ends, Calling
  <2>3. /\ Holds(e) = (IF opened[e] THEN 1 ELSE 0) + Cardinality(Inside(pipePc, e))
        /\ Holds(e)' = (IF opened[e] THEN 1 ELSE 0) + Cardinality(Inside(pipePc', e))
    BY <1>1 DEF Holds
  <2>4. y # e
    BY <1>3 DEF Ends
  <2> QED
    BY <2>1, <2>2, <2>3, <2>4
<1>5. open_count[end] > 0
  <2>1. /\ Cardinality(Inside(pipePc, end)) \in Nat
        /\ pipePc[p] = end => Cardinality(Inside(pipePc, end)) > 0
        /\ open_count[end] = Holds(end)
    BY <1>2, <1>3, InsideMoves, FilesAre
  <2> QED
    BY <2>1 DEF Holds, Calling
<1>6. holds \in {0, 1}
  OBVIOUS
<1> QED
  BY <1>1, <1>2, <1>4, <1>5, <1>6, FilesRelease

\* A sleep: a call that has just begun takes its hold on the file.
LEMMA FilesSleep ==
  ASSUME KPipeAssumption, PipeFiles, PipeThreads, NEW p \in PipeProcs, NEW end \in Ends, NEW n, NEW woken,
         Calling(p, end), Sleep(p, end, n, woken)
  PROVE  PipeFiles'
<1>1. /\ pipePc' = [pipePc EXCEPT ![p] = end]
      /\ open_count' = IF pipePc[p] = "user" THEN [open_count EXCEPT ![end] = @ + 1] ELSE open_count
      /\ opened' = opened /\ ref_count' = ref_count /\ isclosed' = isclosed
  BY DEF Sleep
<1>2. IsFiniteSet(PipeProcs) /\ Goes(pipePc, pipePc', p, end)
  BY <1>1 DEF KPipeAssumption, PipeThreads, Goes
<1>3. /\ opened \in [Ends -> BOOLEAN] /\ open_count \in [Ends -> Nat] /\ isclosed \in BOOLEAN
      /\ ref_count \in 0 .. 2
      /\ ref_count = (IF open_count["read"] > 0 THEN 1 ELSE 0)
                     + (IF open_count["write"] > 0 THEN 1 ELSE 0)
      /\ ref_count < 2 => isclosed
      /\ \A e \in Ends : open_count[e] = Holds(e)
  BY FilesAre
<1>4. "user" \notin Ends
  BY DEF Ends
<1>5. \A e \in Ends : /\ Cardinality(Inside(pipePc, e)) \in Nat
                      /\ Holds(e)' = Holds(e) + (IF e = end /\ pipePc[p] = "user" THEN 1 ELSE 0)
  <2> TAKE e \in Ends
  <2>1. /\ Cardinality(Inside(pipePc, e)) \in Nat /\ Cardinality(Inside(pipePc', e)) \in Nat
        /\ Cardinality(Inside(pipePc', e)) = Cardinality(Inside(pipePc, e)) + (IF end = e THEN 1 ELSE 0)
                                                               - (IF pipePc[p] = e THEN 1 ELSE 0)
    BY <1>1, <1>2, InsideMoves
  <2>2. (IF end = e THEN 1 ELSE 0) = (IF pipePc[p] = e THEN 1 ELSE 0)
                                    + (IF e = end /\ pipePc[p] = "user" THEN 1 ELSE 0)
    BY <1>4 DEF Calling
  <2>3. /\ Holds(e) = (IF opened[e] THEN 1 ELSE 0) + Cardinality(Inside(pipePc, e))
        /\ Holds(e)' = (IF opened[e] THEN 1 ELSE 0) + Cardinality(Inside(pipePc', e))
    BY <1>1 DEF Holds
  <2> QED
    BY <2>1, <2>2, <2>3
<1>6. /\ open_count' \in [Ends -> Nat]
      /\ \A e \in Ends : open_count'[e] = open_count[e]
                                         + (IF e = end /\ pipePc[p] = "user" THEN 1 ELSE 0)
  BY <1>1, <1>3
<1>7. \A e \in Ends : open_count'[e] = Holds(e)' /\ (open_count'[e] > 0 <=> open_count[e] > 0)
  <2>1. pipePc[p] = "user" => open_count[end] > 0
    BY <1>3, <1>4, <1>5 DEF Holds, Calling
  <2> QED
    BY <1>3, <1>5, <1>6, <2>1
<1>8. ref_count = (IF open_count'["read"] > 0 THEN 1 ELSE 0)
                  + (IF open_count'["write"] > 0 THEN 1 ELSE 0)
  BY <1>3, <1>7 DEF Ends
<1> QED
  BY <1>1, <1>3, <1>6, <1>7, <1>8, SMTT(30) DEF PipeFiles, Holds, Inside

-----------------------------------------------------------------------------
\* A pipe is empty when its size is zero, now and after a step.
LEMMA EmptyIs ==
  ASSUME KPipeAssumption
  PROVE  /\ PipeData => (is_empty <=> Size = 0)
         /\ PipeData' => (is_empty' <=> Size' = 0)
<1>1. OffRange \in Int /\ OffRange > 0
  BY DEF KPipeAssumption
<1>2. \A i, j \in 0 .. OffRange - 1 : i = j <=> (j - i) % OffRange = 0
  BY <1>1, SizeIs
<1>3. PipeData => p_rpos \in 0 .. OffRange - 1 /\ p_wpos \in 0 .. OffRange - 1
  BY DEF PipeData
<1>4. PipeData' => p_rpos' \in 0 .. OffRange - 1 /\ p_wpos' \in 0 .. OffRange - 1
  BY DEF PipeData
<1> QED
  BY <1>2, <1>3, <1>4 DEF is_empty, Size

\* A step that leaves the bytes alone.
LEMMA DataStays ==
  ASSUME PipeData, UNCHANGED content
  PROVE  PipeData' /\ Size' = Size /\ (is_empty' <=> is_empty) /\ (is_full' <=> is_full)
BY DEF content, PipeData, Size, Slot, is_empty, is_full

\* A thread that starts a call or is inside one.
LEMMA Caller ==
  ASSUME PipeThreads, NEW p \in PipeProcs, pipePc[p] = "user"
  PROVE  pipe_wait_state[p] = "none"
BY DEF PipeThreads, Ends

\* What a thread that sleeps waits for.
LEMMA Sleepers ==
  ASSUME PipeThreads, NEW q \in PipeProcs, pipe_wait_state[q] = "PIPE"
  PROVE  /\ ~isclosed /\ pipePc[q] \in {"read", "write"}
         /\ pipePc[q] = "read" => is_empty /\ q \in reader_queue
         /\ pipePc[q] = "write" => is_full /\ q \in writer_queue
BY DEF PipeThreads, NobodyLeftAsleep, Ends

\* A return, whatever the call did with the bytes.
LEMMA ReturnKeeps ==
  ASSUME KPipeAssumption, PipeFiles, PipeThreads, NEW p \in PipeProcs, NEW end \in Ends, NEW woken,
         Calling(p, end), pipe_wait_state[p] = "none",
         Return(p, end, woken), pipeExiting' = pipeExiting,
         MaySleepOn(woken)
  PROVE  PipeThreads' /\ PipeFiles'
<1>1. PipeFiles'
  BY FilesReturn
<1>2. PICK holds : Release(p, end, holds, woken)
  BY DEF Return
<1>3. /\ pipePc' = [pipePc EXCEPT ![p] = PipeBackToUser(p)]
      /\ pipeWant' = [pipeWant EXCEPT ![p] = 0]
  BY DEF Return
<1>4. pipeWant' \in [PipeProcs -> 0 .. PipeMaxLen] /\ isclosed \in BOOLEAN
  BY <1>3 DEF PipeThreads, PipeFiles, KPipeAssumption
<1>5. Goes(pipePc, pipePc', p, PipeBackToUser(p))
  BY <1>3 DEF PipeThreads, Goes
<1>6. PipeThreads'
  BY <1>2, <1>4, <1>5, ThreadsRelease
<1> QED
  BY <1>1, <1>6

\* pipe_state_read.
LEMMA ReadKeeps ==
  ASSUME KPipeAssumption, PipeInv, NEW p \in PipeProcs, NEW n \in 0 .. PipeMaxLen,
         Calling(p, "read"), pipe_wait_state[p] = "none",
         TryRead(p, n)
  PROVE  PipeInv'
<1>0. PipeData /\ PipeThreads /\ PipeFiles /\ "read" \in Ends
  BY DEF PipeInv, Ends
<1>1. CASE is_empty /\ isclosed /\ Return(p, "read", {}) /\ UNCHANGED <<content, pipeExiting>>
  <2>1. PipeData'
    BY <1>0, <1>1, DataStays
  <2>2. MaySleepOn({})
    BY <1>0, <1>1, Sleepers, Zenon DEF MaySleepOn
  <2>3. PipeThreads' /\ PipeFiles'
    BY <1>0, <1>1, <2>2, ReturnKeeps
  <2> QED
    BY <2>1, <2>3 DEF PipeInv
<1>2. CASE /\ is_empty /\ ~isclosed /\ Sleep(p, "read", n, {})
           /\ reader_queue' = reader_queue \union {p}
           /\ UNCHANGED <<content, pipeExiting, writer_queue>>
  <2>1. PipeData' /\ (is_empty' <=> is_empty) /\ (is_full' <=> is_full)
    BY <1>0, <1>2, DataStays
  <2>2. PipeFiles'
    BY <1>0, <1>2, FilesSleep
  <2>3. /\ reader_queue' = (reader_queue \ {}) \union (IF "read" = "read" THEN {p} ELSE {})
        /\ writer_queue' = (writer_queue \ {}) \union (IF "read" = "write" THEN {p} ELSE {})
    BY <1>2
  <2>4. MaySleepOn({})
    BY <1>0, <2>1, Sleepers, SMTT(30) DEF MaySleepOn
  <2>5. is_empty' /\ pipePc[p] \in {"user", "read"}
    BY <1>2, <2>1 DEF Calling
  <2>6. PipeThreads'
    BY <1>0, <1>2, <2>3, <2>4, <2>5, ThreadsSleep
  <2> QED
    BY <2>1, <2>2, <2>6 DEF PipeInv
<1>3. CASE /\ ~is_empty /\ PipeTakes(Least(n, Size))
           /\ Return(p, "read", writer_queue) /\ pipeExiting' = pipeExiting
  <2>1. Least(n, Size) \in 0 .. Size
    BY <1>0, PipeNumbers DEF Least
  <2>2. PipeData'
    BY <1>0, <1>3, <2>1, PipeTake, SMTT(30)
  <2>3. MaySleepOn(writer_queue)
    BY <1>0, <1>3, Sleepers DEF MaySleepOn
  <2>4. PipeThreads' /\ PipeFiles'
    BY <1>0, <1>3, <2>3, ReturnKeeps
  <2> QED
    BY <2>2, <2>4 DEF PipeInv
<1> QED
  BY <1>1, <1>2, <1>3 DEF TryRead, PipeTakes

\* pipe_state_write.
LEMMA WriteKeeps ==
  ASSUME KPipeAssumption, PipeInv, NEW p \in PipeProcs, NEW n \in 0 .. PipeMaxLen,
         Calling(p, "write"), pipe_wait_state[p] = "none",
         TryWrite(p, n)
  PROVE  PipeInv'
<1>0. PipeData /\ PipeThreads /\ PipeFiles /\ "write" \in Ends
  BY DEF PipeInv, Ends
<1>1. CASE isclosed /\ Return(p, "write", {}) /\ UNCHANGED <<content, pipeExiting>>
  <2>1. PipeData'
    BY <1>0, <1>1, DataStays, SMTT(30)
  <2>2. MaySleepOn({})
    BY <1>0, <1>1, Sleepers DEF MaySleepOn
  <2>3. PipeThreads' /\ PipeFiles'
    BY <1>0, <1>1, <2>2, ReturnKeeps
  <2> QED
    BY <2>1, <2>3 DEF PipeInv
<1>2. ASSUME ~isclosed, NEW m, m = Least(n, PIPE_BUFSIZE - Size),
             NEW bytes \in [1 .. m -> Bytes], Store(bytes), pipeExiting' = pipeExiting,
             \/ m = n /\ Return(p, "write", IF m = 0 THEN {} ELSE reader_queue)
             \/ /\ m < n /\ Sleep(p, "write", n - m, reader_queue)
                /\ reader_queue' = {} /\ writer_queue' = writer_queue \union {p}
      PROVE  PipeInv'
  <2>1. /\ Size \in Nat /\ Size <= PIPE_BUFSIZE /\ PIPE_BUFSIZE \in Nat /\ n \in Nat /\ PipeMaxLen \in Nat
        /\ n <= PipeMaxLen
    BY <1>0, PipeNumbers DEF KPipeAssumption
  <2>2. m \in 0 .. PIPE_BUFSIZE - Size /\ (m < n => m = PIPE_BUFSIZE - Size)
    BY <1>2, <2>1 DEF Least
  <2>3. PipeData' /\ Size' = Size + m
    BY <1>0, <1>2, <2>2, PipeStore
  <2>4. /\ is_empty <=> Size = 0
        /\ is_empty' <=> Size' = 0
        /\ is_full <=> Size = PIPE_BUFSIZE
        /\ is_full' <=> Size' = PIPE_BUFSIZE
    <3>1. Size' <= PIPE_BUFSIZE /\ Size' \in Nat
      BY <2>1, <2>2, <2>3
    <3>2. (is_empty <=> Size = 0) /\ (is_empty' <=> Size' = 0)
      BY <1>0, <2>3, EmptyIs
    <3> QED
      BY <2>1, <3>1, <3>2 DEF is_full
  <2> DEFINE woken == IF m = 0 THEN {} ELSE reader_queue
  <2>5. MaySleepOn(woken)
    <3> SUFFICES ASSUME NEW q \in PipeProcs, pipe_wait_state[q] = "PIPE", q \notin woken
                 PROVE  (pipePc[q] = "read" => is_empty') /\ (pipePc[q] = "write" => is_full')
      BY SMTT(30) DEF MaySleepOn
    <3>1. /\ pipePc[q] = "read" => Size = 0 /\ q \in reader_queue
          /\ pipePc[q] = "write" => Size = PIPE_BUFSIZE
      BY <1>0, <2>4, Sleepers
    <3>2. pipePc[q] = "read" => m = 0
      BY <3>1
    <3> QED
      BY <2>1, <2>2, <2>3, <2>4, <3>1, <3>2, SMTT(30)
  <2>6. CASE m = n /\ Return(p, "write", woken)
    <3> HIDE DEF woken
    <3>1. PipeThreads' /\ PipeFiles'
      BY <1>0, <1>2, <2>5, <2>6, ReturnKeeps
    <3> QED
      BY <2>3, <3>1 DEF PipeInv
  <2>7. CASE /\ m < n /\ Sleep(p, "write", n - m, reader_queue)
             /\ reader_queue' = {} /\ writer_queue' = writer_queue \union {p}
    <3>1. is_full' /\ n - m \in 0 .. PipeMaxLen
      BY <2>1, <2>2, <2>3, <2>4, <2>7
    <3>2. PipeFiles'
      BY <1>0, <2>7, FilesSleep, SMTT(30)
    <3>3. MaySleepOn(reader_queue)
      BY <1>0, <3>1, Sleepers DEF MaySleepOn
    <3>4. \A q \in writer_queue : q \notin reader_queue
      BY <1>0 DEF PipeThreads
    <3>5. /\ reader_queue' = (reader_queue \ reader_queue) \union (IF "write" = "read" THEN {p} ELSE {})
          /\ writer_queue' = (writer_queue \ reader_queue) \union (IF "write" = "write" THEN {p} ELSE {})
      BY <2>7, <3>4, SMTT(30)
    <3>6. pipePc[p] \in {"user", "write"}
      BY SMTT(30) DEF Calling
    <3>7. PipeThreads'
      BY <1>0, <1>2, <2>7, <3>1, <3>3, <3>5, <3>6, ThreadsSleep, Zenon
    <3> QED
      BY <2>3, <3>2, <3>7 DEF PipeInv
  <2> QED
    BY <1>2, <2>6, <2>7
<1> QED
  BY <1>1, <1>2 DEF TryWrite

\* A wait in a pipe that was interrupted.
LEMMA InterruptedKeeps ==
  ASSUME KPipeAssumption, PipeInv, NEW p \in PipeProcs, pipePc[p] \in Ends, pipe_wait_state[p] = "none",
         Return(p, pipePc[p], {}), UNCHANGED <<content, pipeExiting>>
  PROVE  PipeInv'
<1>0. PipeData /\ PipeThreads /\ PipeFiles
  BY SMTT(30) DEF PipeInv
<1>1. PipeData' /\ (is_empty' <=> is_empty) /\ (is_full' <=> is_full)
  BY <1>0, DataStays, Zenon
<1>2. PICK end \in Ends : end = pipePc[p]
  OBVIOUS
<1>3. MaySleepOn({})
  BY <1>0, <1>1, Sleepers DEF MaySleepOn
<1>4. Return(p, end, {}) /\ Calling(p, end)
  BY <1>2, SMTT(30) DEF Calling
<1>5. PipeThreads' /\ PipeFiles'
  BY <1>0, <1>3, <1>4, ReturnKeeps
<1> QED
  BY <1>1, <1>5, SMTT(30) DEF PipeInv

\* file_close.
LEMMA CloseKeeps ==
  ASSUME KPipeAssumption, PipeInv, NEW p \in PipeProcs, NEW end \in Ends, Close(p, end)
  PROVE  PipeInv'
<1>0. /\ PipeData /\ PipeThreads /\ PipeFiles /\ pipePc[p] = "user" /\ opened[end]
      /\ opened' = [opened EXCEPT ![end] = FALSE]
      /\ Release(p, end, 1, {}) /\ pipePc' = [pipePc EXCEPT ![p] = PipeBackToUser(p)]
      /\ UNCHANGED <<pipeWant, pipeExiting, content>>
  BY DEF PipeInv, Close
<1>1. PipeData' /\ (is_empty' <=> is_empty) /\ (is_full' <=> is_full)
  BY <1>0, DataStays
<1>2. MaySleepOn({})
  BY <1>0, <1>1, Sleepers DEF MaySleepOn
<1>3. pipeWant' \in [PipeProcs -> 0 .. PipeMaxLen] /\ isclosed \in BOOLEAN
  BY <1>0 DEF PipeThreads, PipeFiles
<1>4. pipe_wait_state[p] = "none"
  BY <1>0, Caller
<1>5. PipeThreads'
  <2>1. Goes(pipePc, pipePc', p, PipeBackToUser(p))
    BY <1>0 DEF PipeThreads, Goes
  <2>2. PipeThreads /\ Release(p, end, 1, {}) /\ pipeExiting' = pipeExiting
    BY <1>0
  <2> QED
    BY <1>2, <1>3, <1>4, <2>1, <2>2, ThreadsRelease
<1>6. opened \in [Ends -> BOOLEAN] /\ IsFiniteSet(PipeProcs) /\ DOMAIN pipePc = PipeProcs
  BY <1>0 DEF KPipeAssumption, PipeThreads, PipeFiles
<1>7. PICK y \in {"user", "exited"} : Goes(pipePc, pipePc', p, y)
  BY <1>0, <1>6, Zenon DEF PipeBackToUser, Goes
<1>8. \A e \in Ends : /\ Cardinality(Inside(pipePc, e)) \in Nat
                      /\ Cardinality(Inside(pipePc', e)) = Cardinality(Inside(pipePc, e))
  <2> TAKE e \in Ends
  <2>1. /\ Cardinality(Inside(pipePc, e)) \in Nat /\ Cardinality(Inside(pipePc', e)) \in Nat
        /\ Cardinality(Inside(pipePc', e)) = Cardinality(Inside(pipePc, e)) + (IF y = e THEN 1 ELSE 0)
                                                               - (IF pipePc[p] = e THEN 1 ELSE 0)
    BY <1>6, <1>7, InsideMoves
  <2>2. y # e /\ pipePc[p] # e
    BY <1>0 DEF Ends
  <2> QED
    BY <2>1, <2>2
<1>9. /\ \A e \in Ends : Holds(e)' = Holds(e) - (IF e = end THEN 1 ELSE 0)
      /\ Holds(end) > 0
  <2>1. ASSUME NEW e \in Ends PROVE Holds(e)' = Holds(e) - (IF e = end THEN 1 ELSE 0)
    <3>1. opened'[e] = IF e = end THEN FALSE ELSE opened[e]
      BY <1>0, <1>6, SMTT(30)
    <3>2. /\ Holds(e) = (IF opened[e] THEN 1 ELSE 0) + Cardinality(Inside(pipePc, e))
          /\ Holds(e)' = (IF opened'[e] THEN 1 ELSE 0) + Cardinality(Inside(pipePc', e))
      BY DEF Holds
    <3>3. /\ Cardinality(Inside(pipePc, e)) \in Nat
          /\ Cardinality(Inside(pipePc', e)) = Cardinality(Inside(pipePc, e))
      BY <1>8
    <3> QED
      BY <1>0, <3>1, <3>2, <3>3
  <2>2. Holds(end) > 0
    BY <1>0, <1>8 DEF Holds
  <2> QED
    BY <2>1, <2>2
<1>10. open_count[end] > 0 /\ opened' \in [Ends -> BOOLEAN]
  BY <1>0, <1>6, <1>9, FilesAre
<1>11. PipeFiles'
  BY <1>0, <1>9, <1>10, FilesRelease
<1> QED
  BY <1>1, <1>5, <1>11 DEF PipeInv

\* do_kill.
LEMMA KillKeeps ==
  ASSUME KPipeAssumption, PipeInv, NEW p \in PipeProcs, NEW victim \in PipeProcs, PipeKill(p, victim)
  PROVE  PipeInv'
<1>0. /\ PipeData /\ PipeThreads /\ PipeFiles /\ pipePc[p] = "user"
      /\ pipeExiting' = [pipeExiting EXCEPT ![victim] = TRUE]
      /\ pipe_wait_state' = [pipe_wait_state EXCEPT ![victim] = "none"]
      /\ pipePc' = [pipePc EXCEPT ![p] = PipeBackToUser(p)]
      /\ UNCHANGED <<files, content, pipeWant, pipeFlags, reader_queue, writer_queue>>
  BY DEF PipeInv, PipeKill
<1>1. PipeData' /\ (is_empty' <=> is_empty) /\ (is_full' <=> is_full)
  BY <1>0, DataStays
<1>2. /\ reader_queue \subseteq PipeProcs /\ writer_queue \subseteq PipeProcs
      /\ pipePc \in [PipeProcs -> Ends \union {"user", "exited"}]
      /\ pipeWant \in [PipeProcs -> 0 .. PipeMaxLen]
      /\ pipe_wait_state \in [PipeProcs -> {"none", "PIPE"}]
      /\ pipeFlags \in [PipeProcs -> {"INTERRUPTED", "PIPE"}]
      /\ pipeExiting \in [PipeProcs -> BOOLEAN]
      /\ \A q \in reader_queue : pipePc[q] = "read"
      /\ \A q \in writer_queue : pipePc[q] = "write"
  BY <1>0 DEF PipeThreads
<1>3. PICK y \in {"user", "exited"} : pipePc' = [pipePc EXCEPT ![p] = y]
  BY <1>0, Zenon DEF PipeBackToUser
<1>4. \A q \in PipeProcs : q # p => pipePc'[q] = pipePc[q]
  BY <1>2, <1>3
<1>5. /\ pipePc' \in [PipeProcs -> Ends \union {"user", "exited"}]
      /\ pipe_wait_state' \in [PipeProcs -> {"none", "PIPE"}] /\ pipeExiting' \in [PipeProcs -> BOOLEAN]
      /\ pipeWant' = pipeWant /\ pipeFlags' = pipeFlags
      /\ reader_queue' = reader_queue /\ writer_queue' = writer_queue
  BY <1>0, <1>2, <1>3
<1>6. ASSUME NEW q \in PipeProcs, pipe_wait_state'[q] = "PIPE"
      PROVE  /\ ~isclosed' /\ pipePc'[q] \in Ends
             /\ pipePc'[q] = "read" => is_empty' /\ q \in reader_queue'
             /\ pipePc'[q] = "write" => is_full' /\ q \in writer_queue'
  <2>1. pipe_wait_state[q] = "PIPE"
    BY <1>0, <1>2, <1>6
  <2>2. /\ ~isclosed /\ pipePc[q] \in {"read", "write"}
        /\ pipePc[q] = "read" => is_empty /\ q \in reader_queue
        /\ pipePc[q] = "write" => is_full /\ q \in writer_queue
    BY <1>0, <2>1, Sleepers
  <2>3. pipePc'[q] = pipePc[q] /\ isclosed' = isclosed
    BY <1>0, <1>4, <2>2 DEF files
  <2> QED
    BY <1>1, <1>5, <2>2, <2>3 DEF Ends
<1>7. /\ \A q \in reader_queue' : pipePc'[q] = "read"
      /\ \A q \in writer_queue' : pipePc'[q] = "write"
  BY <1>0, <1>2, <1>4, <1>5
<1>8. PipeThreads'
  BY <1>2, <1>5, <1>6, <1>7 DEF PipeThreads, NobodyLeftAsleep
<1>9. PipeFiles'
  <2>1. \A e \in Ends : {q \in PipeProcs : pipePc'[q] = e} = {q \in PipeProcs : pipePc[q] = e}
    BY <1>0, <1>2, <1>3 DEF Ends
  <2>2. opened' = opened /\ open_count' = open_count /\ ref_count' = ref_count /\ isclosed' = isclosed
    BY <1>0 DEF files
  <2> QED
    BY <1>0, <2>1, <2>2 DEF PipeFiles
<1> QED
  BY <1>1, <1>8, <1>9 DEF PipeInv

\* The pipe that pipe_open makes.
LEMMA PipeStarts == ASSUME KPipeAssumption, KPipeInit PROVE PipeInv
<1>1. PipeData
  <2>1. (0 - 0) % OffRange = 0
    BY SizeIs DEF KPipeAssumption
  <2>2. (CHOOSE x \in Bytes : TRUE) \in Bytes
    BY DEF KPipeAssumption
  <2>3. buf \in [0 .. PIPE_BUFSIZE - 1 -> Bytes]
    BY <2>2 DEF KPipeInit
  <2>4. /\ p_rpos = 0 /\ p_wpos = 0 /\ stream = <<>> /\ pipeIntact = TRUE /\ wrapped = FALSE
        /\ OffRange \in Nat /\ PIPE_BUFSIZE \in Nat /\ OffRange > 0
    BY DEF KPipeInit, KPipeAssumption
  <2>5. Size = 0
    BY <2>1, <2>4 DEF Size
  <2>6. stream \in Seq(Bytes) /\ Len(stream) = 0
    BY <2>4
  <2>7. /\ pipeIntact \in BOOLEAN /\ wrapped \in BOOLEAN
        /\ ~wrapped => /\ pipeIntact /\ p_rpos <= p_wpos
                       /\ \A i \in 1 .. Len(stream) : stream[i] = buf[Slot(p_rpos + i - 1)]
    <3>1. 1 .. Len(stream) = {} /\ p_rpos <= p_wpos
      BY <2>4, <2>6
    <3> QED
      BY <2>4, <3>1, Zenon
  <2> QED
    BY <2>3, <2>4, <2>5, <2>6, <2>7 DEF PipeData
<1>2. PipeThreads
  BY DEF KPipeInit, PipeThreads, NobodyLeftAsleep, KPipeAssumption
<1>3. PipeFiles
  <2>1. \A e \in Ends : {p \in PipeProcs : pipePc[p] = e} = {}
    BY DEF KPipeInit, Ends
  <2>2. Cardinality({}) = 0
    BY FS_EmptySet
  <2>3. /\ opened \in [Ends -> BOOLEAN] /\ open_count \in [Ends -> Nat]
        /\ \A e \in Ends : opened[e] /\ open_count[e] = 1
    BY DEF KPipeInit
  <2>4. ref_count = 2 /\ isclosed = FALSE /\ open_count["read"] = 1 /\ open_count["write"] = 1
    BY <2>3 DEF KPipeInit, Ends
  <2>5. /\ isclosed \in BOOLEAN
        /\ ref_count < 2 => isclosed
        /\ ref_count = (IF open_count["read"] > 0 THEN 1 ELSE 0)
                       + (IF open_count["write"] > 0 THEN 1 ELSE 0)
        /\ \A e \in Ends : open_count[e] = (IF opened[e] THEN 1 ELSE 0)
                                            + Cardinality({p \in PipeProcs : pipePc[p] = e})
    <3>1. isclosed \in BOOLEAN
      BY <2>4, Zenon
    <3>4. ~(ref_count < 2)
      BY <2>4
    <3>2. ref_count = (IF open_count["read"] > 0 THEN 1 ELSE 0)
                      + (IF open_count["write"] > 0 THEN 1 ELSE 0)
      BY <2>4
    <3>3. ASSUME NEW e \in Ends
          PROVE  open_count[e] = (IF opened[e] THEN 1 ELSE 0)
                                 + Cardinality({p \in PipeProcs : pipePc[p] = e})
      <4>1. Cardinality({p \in PipeProcs : pipePc[p] = e}) = 0
        BY <2>1, <2>2, Zenon
      <4> QED
        BY <2>3, <4>1
    <3> QED
      BY <3>1, <3>2, <3>3, <3>4
  <2> QED
    BY <2>3, <2>4, <2>5 DEF PipeFiles
<1> QED
  BY <1>1, <1>2, <1>3 DEF PipeInv

\* Every step.
LEMMA PipeStep == ASSUME KPipeAssumption, PipeInv, [KPipeNext]_kpipeVars PROVE PipeInv'
<1>0. PipeData /\ PipeThreads /\ PipeFiles /\ pipeWant \in [PipeProcs -> 0 .. PipeMaxLen] /\ PipeMaxLen \in Nat
  BY DEF PipeInv, PipeThreads, KPipeAssumption
<1>1. ASSUME NEW p \in PipeProcs, NEW n \in 1 .. PipeMaxLen, Read(p, n) PROVE PipeInv'
  <2>1. Calling(p, "read") /\ pipe_wait_state[p] = "none" /\ n \in 0 .. PipeMaxLen /\ TryRead(p, n)
    BY <1>0, <1>1, Caller DEF Read, Calling
  <2> QED
    BY <2>1, ReadKeeps
<1>2. ASSUME NEW p \in PipeProcs, NEW n \in 1 .. PipeMaxLen, Write(p, n) PROVE PipeInv'
  <2>1. Calling(p, "write") /\ pipe_wait_state[p] = "none" /\ n \in 0 .. PipeMaxLen /\ TryWrite(p, n)
    BY <1>0, <1>2, Caller, SMTT(30) DEF Write, Calling
  <2> QED
    BY <2>1, WriteKeeps
<1>3. ASSUME NEW p \in PipeProcs, PipeResume(p) PROVE PipeInv'
  <2>1. pipeWant[p] \in 0 .. PipeMaxLen /\ pipePc[p] \in Ends /\ pipe_wait_state[p] = "none"
    BY <1>0, <1>3, SMTT(30) DEF PipeResume
  <2>2. CASE Return(p, pipePc[p], {}) /\ UNCHANGED <<content, pipeExiting>>
    BY <2>1, <2>2, InterruptedKeeps
  <2>3. CASE pipePc[p] = "read" /\ TryRead(p, pipeWant[p])
    BY <2>1, <2>3, ReadKeeps DEF Calling
  <2>4. CASE pipePc[p] = "write" /\ TryWrite(p, pipeWant[p])
    BY <2>1, <2>4, WriteKeeps DEF Calling
  <2> QED
    BY <1>3, <2>2, <2>3, <2>4, SMTT(30) DEF PipeResume
<1>4. ASSUME NEW p \in PipeProcs, NEW end \in Ends, Close(p, end) PROVE PipeInv'
  BY <1>4, CloseKeeps
<1>5. ASSUME NEW p \in PipeProcs, NEW victim \in PipeProcs, PipeKill(p, victim) PROVE PipeInv'
  BY <1>5, KillKeeps
<1>6. CASE UNCHANGED kpipeVars
  <2>1. PipeData'
    BY <1>0, <1>6, DataStays, SMTT(30) DEF kpipeVars
  <2>2. PipeThreads'
    BY <1>0, <1>6 DEF kpipeVars, threads, files, content, PipeThreads, NobodyLeftAsleep, is_empty, is_full, Size
  <2>3. PipeFiles'
    BY <1>0, <1>6 DEF kpipeVars, threads, files, PipeFiles
  <2> QED
    BY <2>1, <2>2, <2>3 DEF PipeInv
<1> QED
  BY <1>1, <1>2, <1>3, <1>4, <1>5, <1>6 DEF KPipeNext, PipeCall

\* The invariant is what a pipe promises.
LEMMA PipeCovered == ASSUME KPipeAssumption, PipeInv PROVE KPipeSound
<1>0. PipeData /\ PipeThreads /\ PipeFiles /\ IsFiniteSet(PipeProcs)
  BY DEF PipeInv, KPipeAssumption
<1>1. KPipeTypeOK /\ NobodyLeftAsleep /\ InOrder
  BY <1>0 DEF PipeData, PipeThreads, PipeFiles, KPipeTypeOK, InOrder
<1>2. /\ opened \in [Ends -> BOOLEAN] /\ open_count \in [Ends -> Nat] /\ ref_count \in 0 .. 2
      /\ ref_count = (IF open_count["read"] > 0 THEN 1 ELSE 0)
                     + (IF open_count["write"] > 0 THEN 1 ELSE 0)
      /\ ref_count < 2 => isclosed
      /\ \A e \in Ends : open_count[e] = Holds(e)
  BY <1>0, FilesAre
<1>3. ref_count = Cardinality({e \in Ends : open_count[e] > 0})
  <2> DEFINE T == {e \in Ends : open_count[e] > 0}
  <2>1. T = IF open_count["read"] > 0
            THEN IF open_count["write"] > 0 THEN {"read"} \union {"write"} ELSE {"read"}
            ELSE IF open_count["write"] > 0 THEN {"write"} ELSE {}
    BY DEF Ends
  <2>2. IsFiniteSet({"read"}) /\ Cardinality({"read"}) = 1 /\ Cardinality({"write"}) = 1
    BY FS_Singleton, Zenon
  <2>3. Cardinality({}) = 0
    BY FS_EmptySet
  <2>4. Cardinality({"read"} \union {"write"}) = 2
    <3>1. "write" \notin {"read"}
      OBVIOUS
    <3>2. Cardinality({"read"} \union {"write"}) = Cardinality({"read"}) + 1
      BY <2>2, <3>1, FS_AddElement
    <3> QED
      BY <2>2, <3>2
  <2> QED
    BY <1>2, <2>1, <2>2, <2>3, <2>4
<1>4. ASSUME ref_count = 0 PROVE reader_queue = {} /\ writer_queue = {}
  <2>1. \A e \in Ends : ~(open_count[e] > 0)
    BY <1>2, <1>4 DEF Ends
  <2>2. \A e \in Ends : Inside(pipePc, e) = {}
    <3> TAKE e \in Ends
    <3>1. IsFiniteSet(Inside(pipePc, e))
      BY <1>0, FS_Subset DEF Inside
    <3>2. Cardinality(Inside(pipePc, e)) \in Nat /\ (Cardinality(Inside(pipePc, e)) = 0 => Inside(pipePc, e) = {})
      BY <3>1, FS_CardinalityType, FS_EmptySet
    <3>3. Holds(e) = 0
      BY <1>2, <2>1
    <3>4. Cardinality(Inside(pipePc, e)) = 0
      BY <3>2, <3>3 DEF Holds
    <3> QED
      BY <3>2, <3>4
  <2> QED
    BY <1>0, <2>2 DEF PipeThreads, Inside, Ends
<1> QED
  BY <1>1, <1>2, <1>3, <1>4 DEF KPipeSound, ReleasedAlone, Holds, Inside

\* Whatever the size of the buffer, the range of the positions and the number of
\* threads, and however they read, write, close and kill, pipe_state.c and the two
\* files leave nobody asleep with something to do, keep the bytes in order until the
\* positions wrap, and free the pipe when nobody is inside.
THEOREM KPipeIsSound == ASSUME KPipeAssumption PROVE KPipeSpec => []KPipeSound
<1>1. KPipeInit => PipeInv
  BY PipeStarts
<1>2. PipeInv /\ [KPipeNext]_kpipeVars => PipeInv'
  BY PipeStep
<1>3. PipeInv => KPipeSound
  BY PipeCovered
<1> QED
  BY <1>1, <1>2, <1>3, PTL DEF KPipeSpec
=============================================================================
