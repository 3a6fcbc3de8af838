------------------------------ MODULE Memblock ------------------------------
(***************************************************************************)
(* Physical memory while the kernel boots: the table of memory areas that  *)
(* the firmware's descriptions are entered in (mm/memblock.rs), and the    *)
(* linear allocator that takes pages from it until the buddy allocator     *)
(* gets the rest (mm/allocator/bump.rs).  Areas are kept in an array:      *)
(* every operation is a scan that shifts the array while it goes on.       *)
(* There is one CPU and no interrupt; a call is one step.                  *)
(***************************************************************************)
EXTENDS Naturals, FiniteSets, FiniteSetsExt, SequencesExt

CONSTANTS
    Top,             \* bound: addresses are 0 .. Top - 1
    PageSize,        \* the addresses of a page
    MaxRegions,      \* INITIAL_MEMORY_REGIONS_NUM
    Attrs,           \* MemoryAreaAttr, with
    NOMAP, RESERVED,
    None

VARIABLES
    regions,         \* initial_memory_regions, up to initial_memory_regions_num
    panic,           \* why the kernel has stopped, or "no"
    offset,          \* of the linear allocator
    granted,         \* history: the addresses that it gave out
    told             \* history: the attributes of each address, as the calls gave them, or None

vars == <<regions, panic, offset, granted, told>>
PhysAddrs == 0 .. Top - 1
Ranges == {r \in PhysAddrs \X (1 .. Top) : r[1] < r[2]}

TypeOK ==
    /\ \A i \in 1 .. Len(regions) :
         regions[i].base \in PhysAddrs /\ regions[i].end \in 1 .. Top /\ regions[i].flags \subseteq Attrs
    /\ panic \in {"no", "full", "overlap"} /\ offset \in 0 .. Top /\ granted \subseteq PhysAddrs
    /\ \A a \in PhysAddrs : told[a] = None \/ told[a] \subseteq Attrs

Init ==
    /\ regions = <<>> /\ panic = "no" /\ offset = 0 /\ granted = {}
    /\ told = [a \in PhysAddrs |-> None]

------------------------------------------------------------------------------
(* The scans.  Indices count from 1.                                        *)

PageUp(a) == ((a + PageSize - 1) \div PageSize) * PageSize
PageDown(a) == (a \div PageSize) * PageSize

Area(base, end, flags) == [base |-> base, end |-> end, flags |-> flags]

\* do_add_block: the areas for what lies between the areas already there, and where they are
RECURSIVE do_add_block(_, _, _, _, _)
do_add_block(rs, i, base, end, at) ==
    IF i > Len(rs) \/ rs[i].base >= end
      THEN IF base < end THEN [regions |-> InsertAt(rs, i, Area(base, end, {})), at |-> at \cup {i}]
           ELSE [regions |-> rs, at |-> at]
    ELSE IF rs[i].end <= base THEN do_add_block(rs, i + 1, base, end, at)
    ELSE IF rs[i].base > base
      THEN do_add_block(InsertAt(rs, i, Area(base, rs[i].base, {})), i + 2,
                        Min({rs[i].end, end}), end, at \cup {i})
      ELSE do_add_block(rs, i + 1, Min({rs[i].end, end}), end, at)

\* Fault: neighbours are merged whatever their attributes.
RECURSIVE MergeAny(_, _, _)
MergeAny(rs, i, end) ==
    IF i >= end THEN rs
    ELSE IF rs[i].end # rs[i + 1].base THEN MergeAny(rs, i + 1, end)
    ELSE MergeAny(RemoveAt([rs EXCEPT ![i].end = rs[i + 1].end], i + 1), i, end - 1)

\* the loop of do_merge_blocks
RECURSIVE Merge(_, _, _)
Merge(rs, i, end) ==
    IF i >= end THEN rs
    ELSE IF rs[i].end # rs[i + 1].base \/ rs[i].flags # rs[i + 1].flags THEN Merge(rs, i + 1, end)
    ELSE Merge(RemoveAt([rs EXCEPT ![i].end = rs[i + 1].end], i + 1), i, end - 1)

do_merge_blocks(rs, start_index, end_index) ==
    Merge(rs, Max({start_index - 1, 1}), Min({end_index, Len(rs)}))

\* areas that reach over the ends of the range are cut in two; which ones lie within it
RECURSIVE isolate_range(_, _, _, _, _)
isolate_range(rs, i, base, end, within) ==
    IF i > Len(rs) \/ rs[i].base >= end THEN [regions |-> rs, within |-> within]
    ELSE IF rs[i].end <= base THEN isolate_range(rs, i + 1, base, end, within)
    ELSE IF rs[i].base < base
      THEN isolate_range(InsertAt([rs EXCEPT ![i].base = base], i, Area(rs[i].base, base, rs[i].flags)),
                         i + 1, base, end, within)
    ELSE IF rs[i].end > end
      THEN isolate_range(InsertAt([rs EXCEPT ![i].base = end], i, Area(rs[i].base, end, rs[i].flags)),
                         i, base, end, within)
      ELSE isolate_range(rs, i + 1, base, end, within \cup {i})

do_is_overlapped(base, end, require_reserved) ==
    \E i \in 1 .. Len(regions) :
        /\ require_reserved => RESERVED \in regions[i].flags
        /\ \/ base >= regions[i].base /\ base < regions[i].end
           \/ end > regions[i].base /\ end <= regions[i].end
           \/ base <= regions[i].base /\ end >= regions[i].end

Become(rs) ==
    /\ regions' = rs
    /\ panic' = IF \E i \in 1 .. Len(rs) - 1 : rs[i].end > rs[i + 1].base THEN "overlap" ELSE "no"

\* do_insert_area has no room left in the array
Full == panic' = "full" /\ UNCHANGED <<regions, told>>

\* what a call is to do to each address of a range
Tell(base, end, Op(_)) ==
    told' = [a \in PhysAddrs |-> IF a \in base .. end - 1 THEN Op(told[a]) ELSE told[a]]

------------------------------------------------------------------------------
(* What the firmware drivers call, before the first page is given out.      *)

Describing == panic = "no" /\ offset = 0 /\ UNCHANGED <<offset, granted>>

\* without room for all the areas it is ENOMEM, and nothing changes
add_block(base, end) ==
    LET found == do_add_block(regions, 1, base, end, {})
    IN  /\ Describing
        /\ \/ Len(regions) >= MaxRegions /\ Full
           \/ /\ Len(regions) < MaxRegions
              /\ Len(regions) + Cardinality(found.at) <= MaxRegions
              /\ Become(IF found.at = {} THEN regions
                        ELSE do_merge_blocks(found.regions, Min(found.at), Max(found.at) + 1))
              /\ Tell(base, end, LAMBDA old : IF old = None THEN {} ELSE old)

remove_block(base, end) ==
    LET cut == isolate_range(regions, 1, base, end, {})
    IN  /\ Describing
        /\ \/ Len(cut.regions) > MaxRegions /\ Full
           \/ /\ Len(cut.regions) <= MaxRegions
              /\ Become(FoldLeft(RemoveAt, cut.regions, Reverse(SetToSortSeq(cut.within, <))))
              /\ Tell(base, end, LAMBDA old : None)

\* mark_nomap, mark_mirror, reserve_block: of every page that the range touches
set_flags(base, end, flag) ==
    LET lo == PageDown(base)
        hi == lo + PageUp(end - lo)
        cut == isolate_range(regions, 1, lo, hi, {})
        marked == [i \in 1 .. Len(cut.regions) |->
                     IF i \in cut.within THEN [cut.regions[i] EXCEPT !.flags = @ \cup {flag}]
                     ELSE cut.regions[i]]
    IN  /\ Describing
        /\ \/ Len(cut.regions) > MaxRegions /\ Full
           \/ /\ Len(cut.regions) <= MaxRegions
              /\ Become(do_merge_blocks(marked, 1, Len(marked)))
              /\ Tell(lo, hi, LAMBDA old : IF old = None THEN None ELSE old \cup {flag})

\* a device tree may not unmap what is reserved: EBUSY.  Without nomap this is reserve_block,
\* which the other drivers call by itself
early_init_dt_reserve_memory(base, end, nomap) ==
    \/ /\ nomap /\ ~(do_is_overlapped(base, end, FALSE) /\ do_is_overlapped(base, end, TRUE))
       /\ set_flags(base, end, NOMAP)
    \/ ~nomap /\ set_flags(base, end, RESERVED)

------------------------------------------------------------------------------
(* BumpAllocator.                                                           *)

\* Fault: the first page of an area may begin before it.
AreaBaseDown(area) == PageDown(area.base)

area_base_aligned(area) == PageUp(area.base)
area_end_aligned(area) == PageDown(area.end)

\* to_iter_available
Available == SelectSeq(regions, LAMBDA area : area.flags = {})

\* where n pages are found from off on
RECURSIVE Fit(_, _, _)
Fit(areas, off, n) ==
    IF areas = <<>> THEN {}
    ELSE LET hi == area_end_aligned(Head(areas))
             at == IF off < area_base_aligned(Head(areas)) THEN area_base_aligned(Head(areas)) ELSE PageUp(off)
         IN  IF off >= hi THEN Fit(Tail(areas), off, n)
             ELSE IF at + n * PageSize <= hi THEN {at}
             ELSE Fit(Tail(areas), at, n)

allocate(n) ==
    /\ panic = "no"
    /\ \E a \in Fit(Available, offset, n) :
         /\ offset' = a + n * PageSize
         /\ granted' = granted \cup (a .. a + n * PageSize - 1)
    /\ UNCHANGED <<regions, panic, told>>

\* the addresses that remain_areas leaves to the buddy allocator; the memory below the kernel
\* image that arch_remain_areas adds on x86_64 is left out
RECURSIVE remain_areas(_, _, _)
remain_areas(areas, off, found_start) ==
    IF areas = <<>> THEN {}
    ELSE LET lo == area_base_aligned(Head(areas))
             hi == area_end_aligned(Head(areas))
             at == IF off < lo THEN lo ELSE PageUp(off)
         IN  IF found_start THEN (lo .. hi - 1) \cup remain_areas(Tail(areas), off, TRUE)
             ELSE IF off >= hi THEN remain_areas(Tail(areas), off, FALSE)
             ELSE IF at + PageSize <= hi THEN (at .. hi - 1) \cup remain_areas(Tail(areas), at, TRUE)
             ELSE remain_areas(Tail(areas), at, FALSE)

Next ==
    \/ \E r \in Ranges : add_block(r[1], r[2]) \/ remove_block(r[1], r[2])
    \/ \E r \in Ranges, flag \in Attrs \ {RESERVED} : set_flags(r[1], r[2], flag)
    \/ \E r \in Ranges, nomap \in BOOLEAN : early_init_dt_reserve_memory(r[1], r[2], nomap)
    \/ \E n \in 1 .. Top \div PageSize : allocate(n)

Spec == Init /\ [][Next]_vars

------------------------------------------------------------------------------
\* The table says of every address what the calls said of it, in ascending areas without
\* overlap and without two neighbours that could be one, and is_overlapped answers from it.
\* do_merge_blocks never meets areas that overlap.
MemblockExact ==
    /\ panic # "overlap"
    /\ panic = "no" =>
         /\ \A i \in 1 .. Len(regions) - 1 :
              \/ regions[i].end < regions[i + 1].base
              \/ regions[i].end = regions[i + 1].base /\ regions[i].flags # regions[i + 1].flags
         /\ \A a \in PhysAddrs : told[a] =
              LET in == {i \in 1 .. Len(regions) : regions[i].base <= a /\ a < regions[i].end}
              IN  IF in = {} THEN None ELSE regions[Min(in)].flags
         /\ \A r \in Ranges : do_is_overlapped(r[1], r[2], TRUE) <=>
              \E a \in r[1] .. r[2] - 1 : told[a] # None /\ RESERVED \in told[a]

\* The linear allocator and the buddy allocator share the memory out: pages given out are
\* whole pages of unmarked memory, and what remain_areas hands over is every such page from
\* the offset on.
BumpHandsOver ==
    LET usable == {a \in PhysAddrs : \A b \in PageDown(a) .. PageDown(a) + PageSize - 1 : told[b] = {}}
    IN  panic = "no" =>
          /\ granted \subseteq {a \in usable : a < offset}
          /\ remain_areas(Available, offset, FALSE) = {a \in usable : a >= offset}
=============================================================================
