-------------------------------- MODULE Buddy --------------------------------
(***************************************************************************)
(* The physical page allocator (mm/allocator/buddy.rs), a buddy system     *)
(* under the lock of LockedFrameAllocator: a call is a step.               *)
(*                                                                         *)
(* Addresses are page numbers and orders count from 0.  free_area[k] is    *)
(* the list of the free blocks of order k.  It is a chain of pages, each   *)
(* with room for BUDDY_ENTRIES blocks, the head first; the first page of   *)
(* each order is given at boot, the others are taken from the allocator    *)
(* itself, and go back to it, in the middle of a call.  So freeing a block *)
(* may allocate a page, which may split a block, which frees its halves.   *)
(***************************************************************************)
EXTENDS Naturals, Sequences, FiniteSetsExt, SequencesExt

CONSTANTS
    Areas,           \* the memory at boot: pairs of a first page and a number of pages
    ORDERS,          \* MAX_ORDER - MIN_ORDER
    BUDDY_ENTRIES

VARIABLES
    heap,   \* the allocator: its lists, and the assertion it has failed
    used,   \* the blocks that are allocated: pairs of a page and an order
    failed  \* the order of the last call, if it was an allocation that returned None

vars == <<heap, used, failed>>

Pages == UNION {a[1] .. a[1] + a[2] - 1 : a \in Areas}

Orders == 0 .. ORDERS - 1

\* no page: PhysAddr 0, which is never free
null == 0

Block(b) == b[1] .. b[1] + 2^b[2] - 1

\* what a failed assertion leaves
Panic(h, why) == [h EXCEPT !.panic = why]

Panicked(h) == h.panic # "no"

BuddyOf(base, k) == IF (base \div 2^k) % 2 = 0 THEN base + 2^k ELSE base - 2^k

\* An entry is deleted from a chain: the last entry of the first page that has one
\* takes its place.
Delete(chain, base) ==
    LET i == CHOOSE i \in DOMAIN chain : base \in Range(chain[i].entries)
        j == CHOOSE j \in DOMAIN chain[i].entries : chain[i].entries[j] = base
        f == Min({x \in DOMAIN chain : chain[x].entries # <<>>})
        moved == [chain EXCEPT ![i].entries[j] = Last(chain[f].entries)]
    IN [moved EXCEPT ![f].entries = Front(@)]

\* the block goes to the second page of the chain if there is one, which must then have
\* one place left, and else to the first
Put(h, base, k) ==
    LET at == IF Len(h.free_area[k]) > 1 THEN 2 ELSE 1
        n == Len(h.free_area[k][at].entries)
    IN IF at = 2 /\ n # BUDDY_ENTRIES - 1 THEN Panic(h, "second")
       ELSE IF n >= BUDDY_ENTRIES THEN Panic(h, "full")
       ELSE [h EXCEPT !.free_area[k][at].entries = Append(@, base)]

(***************************************************************************)
(* buddy_free and pop_front call each other.  A call c in progress is the  *)
(* heap, what is still to be done, innermost first, and the page that the  *)
(* last allocation gave.  The first thing to do gives way to others.       *)
(***************************************************************************)
Then(c, h, todo) == [c EXCEPT !.heap = h, !.todo = todo \o Tail(@)]

\* buddy_free: merge with the buddy, or put the block into a list, which may have to grow:
\* by the block itself at order 0, else by a page from the allocator
Free(c, base, k) ==
    LET h == c.heap
        chain == h.free_area[k]
        buddy == BuddyOf(base, k)
    IN IF k # ORDERS - 1 /\ \E i \in DOMAIN chain : buddy \in Range(chain[i].entries)
         THEN Then(c, [h EXCEPT !.free_area[k] = Delete(chain, buddy)],
                   <<<<"free", Min({base, buddy}), k + 1>>>>)
       ELSE IF Len(chain[1].entries) < BUDDY_ENTRIES THEN Then(c, Put(h, base, k), <<>>)
       ELSE LET grow == <<"grow", base, k, chain[1].page>>
            IN IF k = 0 THEN Then([c EXCEPT !.page = base], h, <<grow>>)
               ELSE Then(c, h, <<<<"pop", 0, 0>>, grow>>)

\* the new page goes in front of the chain, whose first page is still first and was full;
\* 2^k pages are cleared from there
Grow(c, base, k, first) ==
    LET h == c.heap
        grown == [h EXCEPT !.free_area[k] = <<[page |-> c.page, entries |-> <<>>]>> \o @,
                           !.cleared = @ \cup (Block(<<c.page, k>>) \ {c.page})]
    IN Then(c, IF c.page = null THEN Panic(h, "memory")
               ELSE IF h.free_area[k][1].page # first THEN Panic(h, "first")
               ELSE Put(grown, base, k), <<>>)

\* Fault: only the list of the order itself is looked at.
PopExact(c, j, k) ==
    IF j = k /\ c.heap.free_area[j][1].entries # <<>>
      THEN LET page == Last(c.heap.free_area[j][1].entries)
           IN Then(c, [c.heap EXCEPT !.free_area[j][1].entries = Front(@)],
                   <<<<"split", page, j, k>>>>)
      ELSE Then([c EXCEPT !.page = null], c.heap, <<>>)

\* pop_front of a block of order k, with alloc_in_specific_order of order j: pages of the
\* chain that are or become empty are freed; an order without a block leads to the next
Pop(c, j, k) ==
    LET h == c.heap
        chain == h.free_area[j]
        head == chain[1]
        unlinked == [h EXCEPT !.free_area[j] = Tail(@)]
    IN IF j = ORDERS THEN Then([c EXCEPT !.page = null], h, <<>>)
       ELSE IF head.entries = <<>> /\ Len(chain) = 1 THEN Then(c, h, <<<<"pop", j + 1, k>>>>)
       ELSE IF head.entries = <<>>
         THEN Then(c, unlinked, <<<<"free", head.page, 0>>, <<"again", j, k, Len(chain)>>>>)
       ELSE LET split == <<"split", Last(head.entries), j, k>>
            IN IF Len(head.entries) = 1 /\ Len(chain) > 1
                 THEN Then(c, unlinked, <<<<"free", head.page, 0>>, split>>)
                 ELSE Then(c, [h EXCEPT !.free_area[j][1].entries = Front(@)], <<split>>)

\* When freeing an empty page makes the chain grow again there is another to be freed,
\* without end.
Again(c, j, k, n) ==
    IF Len(c.heap.free_area[j]) < n THEN Then(c, c.heap, <<<<"pop", j, k>>>>)
    ELSE Then(c, Panic(c.heap, "endless"), <<>>)

\* Fault: of a block that is too large the second half is used, and freed as well.
SplitUpper(c, x, j, k) ==
    IF j = k THEN Then([c EXCEPT !.page = x], c.heap, <<>>)
    ELSE Then(c, c.heap, <<<<"free", x + 2^(j-1), j - 1>>, <<"split", x + 2^(j-1), j - 1, k>>>>)

\* the halves that are not needed are freed, from order j down to k
Split(c, x, j, k) ==
    IF j = k THEN Then([c EXCEPT !.page = x], c.heap, <<>>)
    ELSE Then(c, c.heap, <<<<"free", x + 2^(j-1), j - 1>>, <<"split", x, j - 1, k>>>>)

RECURSIVE Run(_)

\* the call runs to its end, or to an assertion that fails
Run(c) ==
    IF c.todo = <<>> \/ Panicked(c.heap) THEN c
    ELSE LET t == c.todo[1]
         IN Run(CASE t[1] = "free" -> Free(c, t[2], t[3])
                  [] t[1] = "grow" -> Grow(c, t[2], t[3], t[4])
                  [] t[1] = "pop" -> Pop(c, t[2], t[3])
                  [] t[1] = "again" -> Again(c, t[2], t[3], t[4])
                  [] t[1] = "split" -> Split(c, t[2], t[3], t[4]))

Call(h, task) == Run([heap |-> h, todo |-> <<task>>, page |-> null])

buddy_free(h, base, k) == Call(h, <<"free", base, k>>).heap

\* the page is null if there is none
buddy_alloc(h, k) == Call(h, <<"pop", k, k>>)

------------------------------------------------------------------------------
(* BuddyAllocator::new gives an area to the lists: upwards, as the          *)
(* alignment of its start allows, then downwards.                           *)

RECURSIVE Fill(_, _, _, _), FillDown(_, _, _, _), FillAll(_, _)

FillDown(h, p, n, k) ==
    IF n = 0 THEN h
    ELSE IF n >= 2^k THEN FillDown(buddy_free(h, p, k), p + 2^k, n - 2^k, k)
    ELSE FillDown(h, p, n, k - 1)

Fill(h, p, n, k) ==
    IF k = ORDERS - 1 \/ n < 2^k THEN FillDown(h, p, n, k)
    ELSE IF (p \div 2^k) % 2 = 1 THEN Fill(buddy_free(h, p, k), p + 2^k, n - 2^k, k + 1)
    ELSE Fill(h, p, n, k + 1)

FillAll(h, areas) ==
    IF areas = {} THEN h
    ELSE LET a == CHOOSE a \in areas : \A b \in areas : a[1] <= b[1]
         IN FillAll(Fill(h, a[1], a[2], 0), areas \ {a})

\* the pages of the lists at boot come from the bump allocator: they have no number
Boot(k) == 1000 + k

Init ==
    /\ heap = FillAll([free_area |-> [k \in Orders |-> <<[page |-> Boot(k), entries |-> <<>>]>>],
                       panic |-> "no", cleared |-> {}], Areas)
    /\ used = {} /\ failed = ORDERS

\* LockedFrameAllocator.allocate of 2^k pages
allocate(k) ==
    /\ ~Panicked(heap)
    /\ LET r == buddy_alloc([heap EXCEPT !.cleared = {}], k)
       IN /\ heap' = r.heap
          /\ IF r.page = null \/ Panicked(r.heap)
               THEN failed' = k /\ UNCHANGED used
               ELSE failed' = ORDERS /\ used' = used \cup {<<r.page, k>>}

\* LockedFrameAllocator.free
free(b) ==
    /\ ~Panicked(heap) /\ b \in used
    /\ heap' = buddy_free([heap EXCEPT !.cleared = {}], b[1], b[2])
    /\ used' = used \ {b} /\ failed' = ORDERS

\* the owner of a block goes on with its halves: pages are freed one by one when they
\* are dropped (InnerPage, mm/page.rs)
halve(b) ==
    /\ ~Panicked(heap) /\ b \in used /\ b[2] > 0
    /\ used' = (used \ {b}) \cup {<<b[1], b[2] - 1>>, <<b[1] + 2^(b[2]-1), b[2] - 1>>}
    /\ heap' = [heap EXCEPT !.cleared = {}] /\ failed' = ORDERS

Next ==
    \/ \E k \in Orders : allocate(k)
    \/ \E b \in Pages \X Orders : free(b) \/ halve(b)

Spec == Init /\ [][Next]_vars

------------------------------------------------------------------------------
(* Properties.                                                              *)

Chain(k) == heap.free_area[k]

FreeBlocks == {b \in Pages \X Orders : \E i \in DOMAIN Chain(b[2]) : b[1] \in Range(Chain(b[2])[i].entries)}

ListPages == UNION {{Chain(k)[i].page : i \in DOMAIN Chain(k)} : k \in Orders}

\* Everything has its type.
TypeOK ==
    /\ heap.free_area \in [Orders -> Seq([page : Pages \cup {Boot(k) : k \in Orders},
                                          entries : Seq(Pages)])]
    /\ heap.panic \in {"no", "second", "full", "memory", "first", "endless"}
    /\ used \subseteq Pages \X Orders /\ failed \in 0..ORDERS

\* Every page has one owner: the blocks in the lists, the blocks that are allocated and
\* the pages that hold the lists are disjoint, aligned, and together the memory there is,
\* through any number of splits and merges and however the lists grow and shrink in the
\* middle of them.  No two buddies are both free, in whatever page of the chain they are,
\* and the 2^k pages that are cleared when the list of order k grows are free but for the
\* one it takes.
PagesOwnedOnce ==
    ~Panicked(heap) =>
        LET free_blocks == FreeBlocks
            list_pages == ListPages
            owned == free_blocks \cup used \cup {<<p, 0>> : p \in list_pages \cap Pages}
            Size(B) == MapThenSumSet(LAMBDA b : 2^b[2], B)
        IN /\ UNION {Block(b) : b \in owned} = Pages
           /\ Size(free_blocks) + Size(used) + Cardinality(list_pages \cap Pages) = Cardinality(Pages)
           /\ \A b \in owned : b[1] % 2^b[2] = 0
           /\ \A b \in free_blocks :
                b[2] < ORDERS - 1 => <<BuddyOf(b[1], b[2]), b[2]>> \notin free_blocks
           /\ heap.cleared \cap (UNION {Block(b) : b \in used} \cup list_pages) = {}

\* An allocation fails only if no free block is large enough, however the blocks and the
\* empty pages are spread over the chains.
FailsOnlyWhenFull ==
    [][failed' # ORDERS /\ ~Panicked(heap') => \A b \in FreeBlocks : b[2] < failed']_vars

\* "the second page_list has one place left": the assertions of buddy_free hold.
BuddyAssertsHold == ~Panicked(heap)
=============================================================================
