-------------------------------- MODULE Vmm ---------------------------------
(***************************************************************************)
(* Address spaces (kern/mm/vmm.c) and the system calls that change them:   *)
(* mmap, munmap, brk, shmem, and fork and exit for the areas they copy and *)
(* drop (kern/process/proc.c).  Each call holds the lock of its address    *)
(* space from before it reads the list of areas until it has changed it,   *)
(* so that each is one step.  Addresses are unsigned and wrap at AddrRange.    *)
(***************************************************************************)
EXTENDS Integers, Sequences, FiniteSets, FiniteSetsExt, SequencesExt

CONSTANTS Mms,       \* the address spaces
          First,     \* the one there is at the start
          Shmems,    \* the shared memory objects there can be
          PGSIZE, USERBASE, USERTOP,
          AddrRange, \* 2^32
          Ptrs,      \* the addresses of the words through which callers pass addresses
          Places,    \* the addresses callers pass
          Lens,      \* the lengths callers pass
          Accesses,  \* the rights they ask for
          MaxCalls   \* a bound on the number of calls

VmmAssumption ==
  /\ First \in Mms /\ MaxCalls \in Nat
  /\ PGSIZE \in Nat \ {0} /\ USERBASE \in Nat \ {0} /\ USERTOP \in Nat /\ AddrRange \in Nat
  /\ USERBASE + 3 * PGSIZE <= USERTOP /\ USERTOP + PGSIZE <= AddrRange
  /\ Accesses \subseteq {"R", "RW"} /\ Ptrs \union Places \subseteq 0 .. AddrRange - 1 /\ Lens \subseteq 1 .. AddrRange - 1
  /\ USERBASE % PGSIZE = 0 /\ USERTOP % PGSIZE = 0 /\ AddrRange % PGSIZE = 0

VARIABLES
  mm,     \* by address space: its areas in mmap_list, mmap_cache (the vm_start of
          \* the area it points to, 0 for NULL), brk, and whether it exists
  ref,    \* shmem_ref, 0 for an object that does not exist
  shlen,  \* shmem->len
  pages,  \* what each page is mapped to, as the calls define it
  calls   \* the number of calls so far

vars == <<mm, ref, shlen, pages, calls>>

NULL == "NULL"
Addrs == 0 .. AddrRange - 1
Pages == {a \in USERBASE .. USERTOP - 1 : a % PGSIZE = 0}
PagesOf(start, end) == {a \in Pages : start <= a /\ a < end}
brk_start == USERBASE + PGSIZE

\* vma_create, without and with VM_SHARE.
Vma(start, end, flags) == [start |-> start, end |-> end, flags |-> flags,
                           share |-> FALSE, shmem |-> NULL, off |-> 0]
SharedVma(start, end, flags, shmem) == [Vma(start, end, flags) EXCEPT !.share = TRUE,
                                                                      !.shmem = shmem]

Unmapped == [flags |-> NULL, shmem |-> NULL, off |-> 0]
Private(flags) == [flags |-> flags, shmem |-> NULL, off |-> 0]
NoMm == [list |-> <<>>, cache |-> 0, brk |-> brk_start, alive |-> FALSE]

\* A program of one page and its stack, as load_icode leaves them.
Init == /\ mm = [x \in Mms |-> IF x # First THEN NoMm ELSE
                   [list |-> <<Vma(USERBASE, brk_start, "R"), Vma(USERTOP - PGSIZE, USERTOP, "RW")>>,
                    cache |-> 0, brk |-> brk_start, alive |-> TRUE]]
        /\ ref = [o \in Shmems |-> 0] /\ shlen = [o \in Shmems |-> 0] /\ calls = 0
        /\ pages = [x \in Mms |-> [a \in Pages |->
                      IF x # First THEN Unmapped ELSE
                      IF a = USERBASE THEN Private("R") ELSE
                      IF a = USERTOP - PGSIZE THEN Private("RW") ELSE Unmapped]]

-----------------------------------------------------------------------------
ROUNDDOWN(a) == a - (a % PGSIZE)
ROUNDUP(a) == ROUNDDOWN((a + PGSIZE - 1) % AddrRange)
USER_ACCESS(start, end) == USERBASE <= start /\ start < end /\ end <= USERTOP

\* find_vma: the place in the list, 0 for NULL; and what it leaves in mmap_cache.
Hits(m, a) == {i \in DOMAIN m.list : /\ m.list[i].start = m.cache
                                     /\ m.list[i].start <= a /\ a < m.list[i].end}
Above(m, a) == {i \in DOMAIN m.list : a < m.list[i].end}
find_vma(m, a) == IF Hits(m, a) # {} THEN Min(Hits(m, a))
                  ELSE IF Above(m, a) # {} THEN Min(Above(m, a)) ELSE 0
Cached(m, a) == LET i == find_vma(m, a) IN
                IF i = 0 THEN m ELSE [m EXCEPT !.cache = m.list[i].start]

\* insert_vma_struct: in front of the first area that starts later.
insert_vma_struct(m, v) ==
  LET later == {i \in DOMAIN m.list : m.list[i].start > v.start}
      i == Min(later \union {Len(m.list) + 1})
  IN  [m EXCEPT !.list = InsertAt(@, i, v)]

vma_resizeKeepsOff(v, start, end) == [v EXCEPT !.start = start, !.end = end]
vma_resize(v, start, end) ==
  [v EXCEPT !.start = start, !.end = end,
            !.off = IF v.share THEN @ + (start - v.start) ELSE @]

\* mm_map of a prepared area; memory says whether vma_create finds some.  The
\* results of the functions that can fail are [ok, mm].
mm_map(m, addr, len, flags, memory) ==
  LET start == ROUNDDOWN(addr)
      end == ROUNDUP((addr + len) % AddrRange)
      i == find_vma(m, start)
  IN  IF ~USER_ACCESS(start, end) THEN [ok |-> FALSE, mm |-> m]
      ELSE IF (i # 0 /\ end > m.list[i].start) \/ ~memory
           THEN [ok |-> FALSE, mm |-> Cached(m, start)]
      ELSE [ok |-> TRUE,
            mm |-> insert_vma_struct(Cached(m, start), Vma(start, end, flags))]

\* mm_unmap, with the areas it destroys.  The split of one area leaves the cache
\* at its upper part, and gives the lower part the flags but not the object.
Split(m, i, start, end) ==
  LET v == m.list[i] IN
  insert_vma_struct([m EXCEPT !.list[i] = vma_resize(v, end, v.end), !.cache = end],
                    [Vma(v.start, start, v.flags) EXCEPT !.share = v.share])

Cut(m, hit, start, end) ==
  LET areas == {m.list[j] : j \in hit}
      below == {vma_resize(v, v.start, start) : v \in {w \in areas : w.start < start}}
      above == {vma_resize(v, end, v.end) : v \in {w \in areas : start <= w.start /\ end < w.end}}
      rest == SelectSeq(m.list, LAMBDA v : v \notin areas)
      Put(v, n) == insert_vma_struct(n, v)
  IN  FoldSet(Put, [m EXCEPT !.list = rest,
                             !.cache = IF \E v \in areas : v.start = @ THEN 0 ELSE @],
              below \union above)

mm_unmap(m, addr, len, memory) ==
  LET start == ROUNDDOWN(addr)
      end == ROUNDUP((addr + len) % AddrRange)
      i == find_vma(m, start)
      n == Cached(m, start)
      hit == {j \in DOMAIN m.list : i <= j /\ m.list[j].start < end}
  IN  IF ~USER_ACCESS(start, end) THEN [ok |-> FALSE, mm |-> m, dead |-> {}]
      ELSE IF i = 0 \/ hit = {} THEN [ok |-> TRUE, mm |-> n, dead |-> {}]
      ELSE IF m.list[i].start < start /\ end < m.list[i].end
           THEN IF memory THEN [ok |-> TRUE, mm |-> Split(n, i, start, end), dead |-> {}]
                ELSE [ok |-> FALSE, mm |-> n, dead |-> {}]
      ELSE [ok |-> TRUE, mm |-> Cut(n, hit, start, end),
            dead |-> {v \in {m.list[j] : j \in hit} : start <= v.start /\ v.end <= end}]

\* mm_brk: extends the area that ends at start when it may be written, or adds one.
mm_brk(m, addr, len, memory) ==
  LET start == ROUNDDOWN(addr)
      end == ROUNDUP((addr + len) % AddrRange)
      u == mm_unmap(m, start, (end - start) % AddrRange, memory)
      i == find_vma(u.mm, (start - 1) % AddrRange)
      n == Cached(u.mm, (start - 1) % AddrRange)
      v == n.list[i]
  IN  IF ~USER_ACCESS(start, end) THEN [ok |-> FALSE, mm |-> m, dead |-> {}]
      ELSE IF ~u.ok THEN u
      ELSE IF i # 0 /\ v.end = start /\ v.flags = "RW" /\ ~v.share
           THEN [u EXCEPT !.mm = [n EXCEPT !.list[i].end = end]]
      ELSE IF memory THEN [u EXCEPT !.mm = insert_vma_struct(n, Vma(start, end, "RW"))]
      ELSE [u EXCEPT !.ok = FALSE, !.mm = n]

-----------------------------------------------------------------------------
\* get_unmapped_area: down from USERTOP, from the last area to the first.
get_unmapped_area(m, len) ==
  LET n == Len(m.list)
      walk[k \in 0 .. n] ==  \* start once the k last areas are passed; stop: returned
        IF k = 0 THEN [start |-> USERTOP - len, stop |-> FALSE]
        ELSE LET w == walk[k - 1]
                 v == m.list[n - k + 1]
             IN  IF w.stop \/ w.start >= v.end THEN [w EXCEPT !.stop = TRUE]
                 ELSE IF w.start + len <= v.start THEN w
                 ELSE IF len >= v.start THEN [start |-> 0, stop |-> TRUE]
                 ELSE [start |-> v.start - len, stop |-> FALSE]
  IN  IF len = 0 \/ len > USERTOP THEN 0
      ELSE IF walk[n].stop \/ walk[n].start >= USERBASE THEN walk[n].start ELSE 0

\* get_unmapped_area_with_hint: behind the first area from addr on that has room
\* behind it, unless one before it comes too close to USERTOP.
get_unmapped_area_with_hint(m, addr, len) ==
  LET i == find_vma(m, addr)
      Sum(j) == (m.list[j].end + len) % AddrRange
      stop == {j \in DOMAIN m.list : /\ i <= j
                                     /\ \/ Sum(j) > USERTOP
                                        \/ j = Len(m.list)
                                        \/ Sum(j) <= m.list[j + 1].start}
  IN  IF len = 0 \/ len > USERTOP \/ i = 0 \/ stop = {} THEN 0
      ELSE IF Sum(Min(stop)) > USERTOP THEN 0 ELSE m.list[Min(stop)].end

\* copy_from_user of a word at ptr, through user_mem_check.
copy_from_user(m, ptr) ==
  LET i == find_vma(m, ptr)
  IN  i # 0 /\ m.list[i].start <= ptr /\ m.list[i].flags = "RW"

-----------------------------------------------------------------------------
\* The effect of a call on the pages, and on the objects whose areas went.
Mapping(x, start, end, what) ==
  pages' = [pages EXCEPT ![x] = [a \in Pages |-> IF a \in PagesOf(start, end) THEN what ELSE @[a]]]
Dropped(dead) == [o \in Shmems |-> ref[o] - Cardinality({v \in dead : v.shmem = o})]

\* do_mmap: where the caller asks, else where there is room; when it cannot be
\* there, behind it.
do_mmap(x, ptr, addr, len, flags, memory1, memory2) ==
  LET m == Cached(mm[x], ptr)
      start == ROUNDDOWN(addr)
      size == (ROUNDUP((addr + len) % AddrRange) - start) % AddrRange
      at == IF start = 0 THEN get_unmapped_area(m, size) ELSE start
      one == mm_map(m, at, size, flags, memory1)
      hint == get_unmapped_area_with_hint(one.mm, start, size)
      hinted == IF size = 0 \/ size > USERTOP THEN one.mm ELSE Cached(one.mm, start)
      two == mm_map(hinted, hint, size, flags, memory2)
  IN  /\ mm[x].alive /\ len > 0
      /\ UNCHANGED <<ref, shlen>>
      /\ IF ~copy_from_user(mm[x], ptr) \/ at = 0
         THEN mm' = [mm EXCEPT ![x] = m] /\ UNCHANGED pages
         ELSE IF one.ok
         THEN mm' = [mm EXCEPT ![x] = one.mm] /\ Mapping(x, at, at + size, Private(flags))
         ELSE /\ mm' = [mm EXCEPT ![x] = two.mm]
              /\ IF two.ok THEN Mapping(x, hint, hint + size, Private(flags)) ELSE UNCHANGED pages

do_munmap(x, addr, len, memory) ==
  LET u == mm_unmap(mm[x], addr, len, memory) IN
  /\ mm[x].alive /\ len > 0
  /\ mm' = [mm EXCEPT ![x] = u.mm]
  /\ ref' = Dropped(u.dead)
  /\ IF u.ok THEN Mapping(x, ROUNDDOWN(addr), ROUNDUP((addr + len) % AddrRange), Unmapped)
     ELSE UNCHANGED pages
  /\ UNCHANGED shlen

do_brk(x, ptr, brk, memory) ==
  LET m == Cached(mm[x], ptr)
      newbrk == ROUNDUP(brk)
      oldbrk == m.brk
      n == Cached(m, oldbrk)
      i == find_vma(m, oldbrk)
      near == i # 0 /\ (newbrk + PGSIZE) % AddrRange > m.list[i].start
      less == mm_unmap(m, newbrk, oldbrk - newbrk, memory)
      more == mm_brk(n, oldbrk, newbrk - oldbrk, memory)
      Done(r) == [r.mm EXCEPT !.brk = IF r.ok THEN newbrk ELSE @]
  IN  /\ mm[x].alive
      /\ UNCHANGED shlen
      /\ IF ~copy_from_user(mm[x], ptr) \/ brk < brk_start \/ newbrk = oldbrk
         THEN mm' = [mm EXCEPT ![x] = m] /\ UNCHANGED <<ref, pages>>
         ELSE IF newbrk < oldbrk
         THEN /\ mm' = [mm EXCEPT ![x] = Done(less)]
              /\ ref' = Dropped(less.dead)
              /\ IF less.ok THEN Mapping(x, newbrk, oldbrk, Unmapped) ELSE UNCHANGED pages
         ELSE IF near
         THEN mm' = [mm EXCEPT ![x] = n] /\ UNCHANGED <<ref, pages>>
         ELSE /\ mm' = [mm EXCEPT ![x] = Done(more)]
              /\ ref' = Dropped(more.dead)
              /\ IF more.ok THEN Mapping(x, oldbrk, newbrk, Private("RW")) ELSE UNCHANGED pages

\* do_shmem: a new object of len, mapped by mm_map_shmem, or destroyed again.
\* memory is the number of allocations that succeed.
do_shmem(x, ptr, addr, len, flags, memory, o) ==
  LET m == Cached(mm[x], ptr)
      start == ROUNDDOWN(addr)
      size == (ROUNDUP((addr + len) % AddrRange) - start) % AddrRange
      at == IF start = 0 THEN get_unmapped_area(m, size) ELSE start
      one == mm_map(m, at, size, flags, memory > 1)
      Share(v) == IF v.start = at THEN SharedVma(v.start, v.end, v.flags, o) ELSE v
  IN  /\ mm[x].alive /\ len > 0 /\ ref[o] = 0
      /\ IF ~copy_from_user(mm[x], ptr) \/ at = 0 \/ memory = 0
         THEN mm' = [mm EXCEPT ![x] = m] /\ UNCHANGED <<ref, shlen, pages>>
         ELSE IF ~one.ok
         THEN mm' = [mm EXCEPT ![x] = one.mm] /\ UNCHANGED <<ref, shlen, pages>>
         ELSE /\ mm' = [mm EXCEPT ![x] = [one.mm EXCEPT
                          !.list = [i \in DOMAIN @ |-> Share(@[i])]]]
              /\ ref' = [ref EXCEPT ![o] = 1] /\ shlen' = [shlen EXCEPT ![o] = size]
              /\ pages' = [pages EXCEPT ![x] = [a \in Pages |->
                   IF a \in PagesOf(at, at + size)
                   THEN [flags |-> flags, shmem |-> o, off |-> a - at] ELSE @[a]]]

\* copy_mm and dup_mmap.  When memory runs out, mm_destroy drops what was copied
\* and nothing has changed.
copy_mm(x, y) ==
  /\ mm[x].alive /\ ~mm[y].alive
  /\ mm' = [mm EXCEPT ![y] = [mm[x] EXCEPT !.cache = 0]]
  /\ ref' = [o \in Shmems |-> ref[o] + Cardinality({i \in DOMAIN mm[x].list : mm[x].list[i].shmem = o})]
  /\ pages' = [pages EXCEPT ![y] = pages[x]]
  /\ UNCHANGED shlen

\* do_exit of the last thread: exit_mmap and mm_destroy.
exit_mm(x) ==
  /\ mm[x].alive
  /\ mm' = [mm EXCEPT ![x] = NoMm]
  /\ ref' = Dropped(ToSet(mm[x].list))
  /\ pages' = [pages EXCEPT ![x] = [a \in Pages |-> Unmapped]]
  /\ UNCHANGED shlen

\* A shared area that was split has lost its object; what the kernel does with such
\* an area next is not followed.
Torn == \E x \in Mms : \E i \in DOMAIN mm[x].list :
          mm[x].list[i].share /\ mm[x].list[i].shmem = NULL

Next ==
  /\ ~Torn /\ calls < MaxCalls /\ calls' = calls + 1
  /\ \E x \in Mms :
       \/ \E ptr \in Ptrs, addr \in Places, flags \in Accesses, memory1, memory2 \in BOOLEAN :
            \E len \in Lens : do_mmap(x, ptr, addr, len, flags, memory1, memory2)
       \/ \E addr \in Places, memory \in BOOLEAN :
            \E len \in Lens : do_munmap(x, addr, len, memory)
       \/ \E ptr \in Ptrs, brk \in Places, memory \in BOOLEAN : do_brk(x, ptr, brk, memory)
       \/ \E ptr \in Ptrs, addr \in Places, flags \in Accesses, memory \in 0 .. 2, o \in Shmems :
            \E len \in Lens : do_shmem(x, ptr, addr, len, flags, memory, o)
       \/ \E y \in Mms : copy_mm(x, y)
       \/ exit_mm(x)

Spec == Init /\ [][Next]_vars
-----------------------------------------------------------------------------
\* Type correctness.
TypeOK ==
  /\ \A x \in Mms :
       /\ mm[x].cache \in Addrs /\ mm[x].brk \in Addrs /\ mm[x].alive \in BOOLEAN
       /\ \A i \in DOMAIN mm[x].list :
            LET v == mm[x].list[i] IN
            /\ v.start \in Addrs /\ v.end \in Addrs /\ v.off \in Addrs
            /\ v.flags \in {"R", "RW"} /\ v.share \in BOOLEAN
            /\ v.shmem \in Shmems \union {NULL}
  /\ calls \in 0 .. MaxCalls /\ ref \in [Shmems -> Nat] /\ shlen \in [Shmems -> Addrs]

\* The asserts of check_vma_overlap and vma_resize hold, the list is in order and
\* on page boundaries, and mmap_cache points into it or nowhere, after any splits,
\* cuts, extensions and moves.
AreasApart ==
  \A x \in Mms :
    LET list == mm[x].list IN
    /\ \A i \in DOMAIN list : /\ USER_ACCESS(list[i].start, list[i].end)
                              /\ list[i].start % PGSIZE = 0 /\ list[i].end % PGSIZE = 0
    /\ \A i \in 1 .. Len(list) - 1 : list[i].end <= list[i + 1].start
    /\ mm[x].cache # 0 => \E i \in DOMAIN list : list[i].start = mm[x].cache

\* Each page is mapped as the calls said, last one first: with the access they
\* gave, to the object they gave and at the right place in it.
Shown(x, a) == LET i == Above(mm[x], a) IN
  IF i = {} \/ mm[x].list[Min(i)].start > a THEN Unmapped
  ELSE LET v == mm[x].list[Min(i)] IN
       [flags |-> v.flags, shmem |-> v.shmem, off |-> IF v.share THEN v.off + (a - v.start) ELSE 0]
PagesAsAsked == ~Torn => \A x \in Mms, a \in Pages : Shown(x, a) = pages[x][a]

\* A shared object lives exactly as long as a page of some address space shows it,
\* and every page shown lies inside it (shmem_get_entry's assert).
ObjectsLive ==
  ~Torn => \A o \in Shmems :
             /\ ref[o] > 0 <=> \E x \in Mms, a \in Pages : pages[x][a].shmem = o
             /\ \A x \in Mms, a \in Pages : pages[x][a].shmem = o => pages[x][a].off < shlen[o]

\* get_unmapped_area finds a gap whenever there is one, and the highest.
Gaps(x, len) == {a \in Pages : /\ a + len <= USERTOP
                               /\ \A b \in PagesOf(a, a + len) : pages[x][b] = Unmapped}
HighestGap ==
  \A x \in Mms : \A len \in {l \in 1 .. USERTOP : l % PGSIZE = 0} :
    get_unmapped_area(mm[x], len) = IF Gaps(x, len) = {} THEN 0 ELSE Max(Gaps(x, len))

\* An address space is a map from pages, kept as a sorted list with a cache.
VmmSound == TypeOK /\ AreasApart /\ PagesAsAsked /\ ObjectsLive /\ HighestGap
=============================================================================
