------------------------------- MODULE Buddy --------------------------------
(***************************************************************************)
(* The buddy allocator of page frames (kern/mm/buddy_pmm.c).  Memory is a  *)
(* number of zones, with reserved pages around them; a free block of       *)
(* 2^order pages stands in the list of its order and its first page says   *)
(* so.  alloc_pages and free_pages run with interrupts off, so that each   *)
(* is one step.                                                            *)
(***************************************************************************)
EXTENDS Integers, Sequences, FiniteSets, SequencesExt

CONSTANTS Zones,      \* the calls of init_memmap: a sequence of [base, n]
          npage,      \* the number of pages, reserved ones included
          MAX_ORDER   \* the order of the largest blocks

Orders == 0 .. MAX_ORDER
Pages == 0 .. npage - 1
NoOrder == -1
ZonePages(z) == Zones[z].base .. Zones[z].base + Zones[z].n - 1

BuddyAssumption ==
  /\ npage \in Nat /\ MAX_ORDER \in Nat
  /\ \A z \in DOMAIN Zones : Zones[z].n > 0 /\ ZonePages(z) \subseteq Pages
  /\ \A y, z \in DOMAIN Zones : y # z => ZonePages(y) \cap ZonePages(z) = {}

VARIABLES
  mem,   \* free_list and nr_free by order; by page, the order of the free block
         \* it is the first of (property, with PageProperty set) or NoOrder;
         \* whether every assert has held
  used   \* the blocks given out and not yet freed, as [base, n]

vars == <<mem, used>>

-----------------------------------------------------------------------------
\* The zone of a page; a reserved page's zone_num is 0, the first zone's.
Reserved(p) == \A z \in DOMAIN Zones : p \notin ZonePages(z)
zone_num(p) == IF Reserved(p) THEN 1 ELSE CHOOSE z \in DOMAIN Zones : p \in ZonePages(z)
page2idx(p) == p - Zones[zone_num(p)].base
idx2page(z, idx) == Zones[z].base + idx

Block(p, order) == p .. p + 2^order - 1

\* SetPageProperty, nr_free ++ and list_add; ClearPageProperty, nr_free -- and list_del.
Put(m, p, order) == [m EXCEPT !.free_list[order] = <<p>> \o @,
                              !.nr_free[order] = @ + 1,
                              !.property[p] = order]
Take(m, p, order) == [m EXCEPT !.free_list[order] = SelectSeq(@, LAMBDA q : q # p),
                               !.nr_free[order] = @ - 1,
                               !.property[p] = NoOrder]

\* buddy_init_memmap: the n pages from p on, cut from the largest order down.
RECURSIVE InitBlocks(_, _, _, _)
InitBlocks(m, p, n, order) ==
  IF n = 0 THEN m
  ELSE IF n >= 2^order THEN InitBlocks(Put(m, p, order), p + 2^order, n - 2^order, order)
  ELSE InitBlocks(m, p, n, order - 1)

buddy_init_memmap(m, zone) == InitBlocks(m, zone.base, zone.n, MAX_ORDER)

buddy_init == [free_list |-> [o \in Orders |-> <<>>],
               nr_free |-> [o \in Orders |-> 0],
               property |-> [p \in Pages |-> NoOrder],
               asserted |-> TRUE]

Init == mem = FoldLeft(buddy_init_memmap, buddy_init, Zones) /\ used = {}

-----------------------------------------------------------------------------
page_is_buddyOfAnyZone(m, p, order, z) ==
  p < npage /\ ~Reserved(p) /\ m.property[p] = order

page_is_buddy(m, p, order, z) ==
  p < npage /\ zone_num(p) = z /\ ~Reserved(p) /\ m.property[p] = order

\* page_idx ^ (1 << order)
buddy_idx(idx, order) ==
  IF (idx \div 2^order) % 2 = 0 THEN idx + 2^order ELSE idx - 2^order

RECURSIVE Merge(_, _, _, _)
Merge(m, z, idx, order) ==
  LET b == buddy_idx(idx, order)
      buddy == idx2page(z, b)
  IN  IF order < MAX_ORDER /\ page_is_buddy(m, buddy, order, z)
      THEN Merge(Take(m, buddy, order), z, IF b < idx THEN b ELSE idx, order + 1)
      ELSE Put(m, idx2page(z, idx), order)

buddy_free_pages_sub(m, base, order) ==
  LET idx == page2idx(base)
      fine == idx % 2^order = 0 /\ \A p \in Block(base, order) : ~Reserved(p) /\ m.property[p] = NoOrder
  IN  Merge([m EXCEPT !.asserted = @ /\ fine], zone_num(base), idx, order)

\* buddy_free_pages: blocks of growing order until base has the alignment of the
\* largest that is left, then of falling order.
RECURSIVE FreeDown(_, _, _, _)
FreeDown(m, base, n, order) ==
  IF n = 0 THEN m
  ELSE IF n < 2^order THEN FreeDown(m, base, n, order - 1)
  ELSE FreeDown(buddy_free_pages_sub(m, base, order), base + 2^order, n - 2^order, order)

RECURSIVE FreeUp(_, _, _, _)
FreeUp(m, base, n, order) ==
  IF n < 2^order THEN FreeDown(m, base, n, order)
  ELSE LET checked == [m EXCEPT !.asserted = @ /\ order <= MAX_ORDER]
       IN  IF (page2idx(base) \div 2^order) % 2 = 1
           THEN FreeUp(buddy_free_pages_sub(checked, base, order), base + 2^order,
                       n - 2^order, order + 1)
           ELSE FreeUp(checked, base, n, order + 1)

buddy_free_pages(m, base, n) ==
  IF n = 1 THEN buddy_free_pages_sub(m, base, 0) ELSE FreeUp(m, base, n, 0)

-----------------------------------------------------------------------------
getorder(n) == CHOOSE o \in Orders : n <= 2^o /\ \A k \in Orders : n <= 2^k => o <= k

\* buddy_alloc_pages_sub: the first block of the least order that has one; what is
\* not needed goes back by halves.
LargeEnough(order) == {o \in order .. MAX_ORDER : mem.free_list[o] # <<>>}
buddy_alloc_pages_sub(order, cur) ==
  LET page == Head(mem.free_list[cur])
      PutHalf(m, k) == Put(m, page + 2^(cur - k), cur - k)
  IN  FoldLeft(PutHalf, Take(mem, page, cur), [k \in 1 .. cur - order |-> k])

\* buddy_alloc_pages: NULL when there is no block; else the pages after the n-th
\* are freed again.
alloc_pages(n) ==
  LET order == getorder(n) IN
  \E cur \in LargeEnough(order) :
    LET page == Head(mem.free_list[cur])
        taken == buddy_alloc_pages_sub(order, cur)
    IN  /\ \A o \in LargeEnough(order) : cur <= o
        /\ mem' = IF n = 2^order THEN taken
                  ELSE buddy_free_pages(taken, page + n, 2^order - n)
        /\ used' = used \union {[base |-> page, n |-> n]}

\* free_pages of a block, or of a part of one.
free_pages(block, base, n) ==
  LET left == base - block.base
      right == block.n - left - n
  IN  /\ left >= 0 /\ right >= 0
      /\ mem' = buddy_free_pages(mem, base, n)
      /\ used' = (used \ {block})
                   \union (IF left > 0 THEN {[base |-> block.base, n |-> left]} ELSE {})
                   \union (IF right > 0 THEN {[base |-> base + n, n |-> right]} ELSE {})

Next == \/ \E n \in 1 .. 2^MAX_ORDER : alloc_pages(n)
        \/ \E block \in used : \E n \in 1 .. block.n :
             \E base \in block.base .. block.base + block.n - 1 : free_pages(block, base, n)

Spec == Init /\ [][Next]_vars

-----------------------------------------------------------------------------
\* Type correctness.
TypeOK ==
  /\ mem.free_list \in [Orders -> Seq(Pages)]
  /\ mem.nr_free \in [Orders -> 0 .. npage]
  /\ mem.property \in [Pages -> Orders \union {NoOrder}]
  /\ mem.asserted \in BOOLEAN
  /\ \A block \in used : block.base \in Pages /\ block.n \in 1 .. 2^MAX_ORDER

FreeHeads(o) == {p \in Pages : mem.property[p] = o}
FreePages == UNION {Block(p, o) : <<p, o>> \in {<<q, k>> \in Pages \X Orders : mem.property[q] = k}}

\* Lists, counters and page flags tell the same: a page is once in the list of
\* order o exactly when it is marked as the first of such a block.
ListsAgree ==
  \A o \in Orders : /\ ToSet(mem.free_list[o]) = FreeHeads(o)
                    /\ Len(mem.free_list[o]) = Cardinality(FreeHeads(o))
                    /\ mem.nr_free[o] = Cardinality(FreeHeads(o))

\* Every page of a zone is in one free block or in one block given out, never in
\* two and never in none, after any sequence of partial frees and merges.
PagesPartitioned ==
  \A p \in Pages :
    Cardinality({q \in Pages : mem.property[q] # NoOrder /\ p \in Block(q, mem.property[q])})
    + Cardinality({b \in used : p \in b.base .. b.base + b.n - 1})
    = IF Reserved(p) THEN 0 ELSE 1

\* A free block lies in one zone, at a multiple of its size from the zone's base.
BlocksAligned ==
  \A p \in Pages : mem.property[p] # NoOrder =>
    /\ Block(p, mem.property[p]) \subseteq ZonePages(zone_num(p))
    /\ page2idx(p) % 2^mem.property[p] = 0

\* alloc_pages fails only when it must: while some aligned run of 2^order pages of a
\* zone is free, a block of that order or a larger one is in a list.
NoFalseNull ==
  \A o \in Orders, z \in DOMAIN Zones, p \in Pages :
    /\ p \in ZonePages(z) /\ Block(p, o) \subseteq ZonePages(z)
    /\ page2idx(p) % 2^o = 0 /\ Block(p, o) \subseteq FreePages
    => LargeEnough(o) # {}

\* The allocator gives no page to two callers, loses none, keeps its asserts, and
\* finds a block whenever an aligned one is free.
BuddySound == /\ TypeOK /\ mem.asserted
              /\ ListsAgree /\ PagesPartitioned /\ BlocksAligned /\ NoFalseNull
=============================================================================
