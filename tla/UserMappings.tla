---------------------------- MODULE UserMappings ----------------------------
(***************************************************************************)
(* The virtual side of an address space (mm/ucontext.rs): the regions of   *)
(* its VMAs and the map of the holes between them, as mmap, munmap,        *)
(* mprotect and madvise insert, remove and split VMAs.  Every call holds   *)
(* the write lock of the address space.  Addresses are page numbers.  What *)
(* the pages hold is the subject of module AddressSpace.                   *)
(***************************************************************************)
EXTENDS Naturals, FiniteSets, FiniteSetsExt, SequencesExt

CONSTANTS
    Top,             \* USER_END_VADDR
    MmapMin,         \* DEFAULT_MMAP_MIN_ADDR
    MaxLen           \* bound: the pages of one mmap

VARIABLES
    vmas,            \* the regions of the VMAs, each [lo, hi)
    vm_holes,        \* where a hole starts |-> its size
    panic            \* an assert has failed

vars == <<vmas, vm_holes, panic>>
Pages == 0 .. Top - 1
Regions == {r \in [lo : Pages, hi : 1 .. Top] : r.lo < r.hi}

TypeOK ==
    /\ vmas \subseteq Regions /\ panic \in BOOLEAN
    /\ \A a \in DOMAIN vm_holes : a \in 0 .. Top /\ vm_holes[a] \in 0 .. Top

Init == vmas = {} /\ vm_holes = [a \in {0} |-> Top] /\ panic = FALSE

------------------------------------------------------------------------------
(* VirtRegion and UserMappings; s is [vmas, holes, panic].                  *)

collide(r, q) == r.lo < q.hi /\ q.lo < r.hi
intersect(r, q) == [lo |-> Max({r.lo, q.lo}), hi |-> Min({r.hi, q.hi})]
conflicts(s, r) == {v \in s.vmas : collide(v, r)}

\* BTreeMap::insert
Put(h, a, size) == [x \in DOMAIN h \cup {a} |-> IF x = a THEN size ELSE h[x]]

\* Fault: a region that starts where the hole starts leaves no hole behind it.
reserve_hole_whole(h, r) ==
    LET prev == {a \in DOMAIN h : a <= r.lo}
        a == Max(prev)
        end == a + h[a]
        cut == IF end > r.lo THEN Put(h, a, r.lo - a) ELSE h
    IN  IF prev = {} THEN h
        ELSE IF end > r.hi /\ a < r.lo THEN Put(cut, r.hi, end - r.hi) ELSE cut

\* the last hole that starts at or before the region is cut off, to size 0 if it starts
\* with the region; what it has after the region is a hole of its own
reserve_hole(h, r) ==
    LET prev == {a \in DOMAIN h : a <= r.lo}
        a == Max(prev)
        end == a + h[a]
        cut == IF end > r.lo THEN Put(h, a, r.lo - a) ELSE h
    IN  IF prev = {} THEN h
        ELSE IF end > r.hi THEN Put(cut, r.hi, end - r.hi) ELSE cut

\* the hole after the region is merged, and the one before if it ends at the region
unreserve_hole(h, r) ==
    LET next == IF r.hi \in DOMAIN h THEN h[r.hi] ELSE 0
        rest == [a \in DOMAIN h \ {r.hi} |-> h[a]]
        below == {a \in DOMAIN rest : a < r.lo}
        size == r.hi - r.lo + next
    IN  IF below # {} /\ Max(below) + rest[Max(below)] = r.lo
          THEN [rest EXCEPT ![Max(below)] = @ + size]
          ELSE Put(rest, r.lo, size)

\* where the first hole with room for n pages above MmapMin begins, if there is one
find_free(h, n) ==
    LET room(a) == IF a <= MmapMin /\ MmapMin <= a + h[a] THEN h[a] - (MmapMin - a) ELSE h[a]
        fits == {a \in DOMAIN h : a + h[a] > MmapMin /\ n <= room(a)}
    IN  IF fits = {} THEN {} ELSE {Max({Min(fits), MmapMin})}

\* with its assert that no VMA is in the way
insert_vma(s, r) ==
    [vmas |-> s.vmas \cup {r}, holes |-> reserve_hole(s.holes, r),
     panic |-> s.panic \/ conflicts(s, r) # {}]

remove_vma(s, r) ==
    [s EXCEPT !.vmas = @ \ {r}, !.holes = unreserve_hole(@, r)]

\* remove_vma, LockedVMA::extract, and the parts of v outside r are put back
Carve(s, v, r) ==
    LET before == [lo |-> v.lo, hi |-> r.lo]
        after == [lo |-> r.hi, hi |-> v.hi]
        left == IF v.lo < r.lo THEN insert_vma(remove_vma(s, v), before) ELSE remove_vma(s, v)
    IN  IF r.hi < v.hi THEN insert_vma(left, after) ELSE left

State == [vmas |-> vmas, holes |-> vm_holes, panic |-> panic]
Become(s) == vmas' = s.vmas /\ vm_holes' = s.holes /\ panic' = s.panic

\* what the loops do, over the VMAs in the way, in the order of a hash set
InAnyOrder(r, Body(_, _)) ==
    \E order \in SetToSeqs(conflicts(State, r)) : Become(FoldLeft(Body, State, order))

------------------------------------------------------------------------------
(* The system calls; after a failed assert there are none.                  *)

munmap(r) == ~panic /\ InAnyOrder(r, LAMBDA s, v : Carve(s, v, r))

\* mprotect, madvise: the middle part is put back, after the other two
resplit(r) ==
    ~panic /\ InAnyOrder(r, LAMBDA s, v : insert_vma(Carve(s, v, r), intersect(v, r)))

\* mmap where the caller leaves it to the kernel, or where something is in the way and the
\* address was only a hint
MmapAnywhere(n) ==
    /\ ~panic
    /\ \E a \in find_free(vm_holes, n) : Become(insert_vma(State, [lo |-> a, hi |-> a + n]))

\* find_free_at: nothing is in the way
MmapAt(r) ==
    /\ ~panic /\ r.hi < Top /\ conflicts(State, r) = {}
    /\ Become(insert_vma(State, r))

\* MAP_FIXED: munmap of what the first VMA in the way has in common with the region
MmapFixed(r) ==
    /\ ~panic /\ r.lo >= MmapMin /\ r.hi < Top
    /\ \E v \in conflicts(State, r) : Become(insert_vma(Carve(State, v, intersect(v, r)), r))

Next ==
    \/ \E n \in 1 .. MaxLen : MmapAnywhere(n)
    \/ \E r \in Regions : r.lo >= MmapMin /\ r.hi - r.lo <= MaxLen /\ (MmapAt(r) \/ MmapFixed(r))
    \/ \E r \in Regions : r.lo >= MmapMin /\ (munmap(r) \/ resplit(r))

Spec == Init /\ [][Next]_vars

------------------------------------------------------------------------------
\* vm_holes is what the VMAs leave free: every page lies in one VMA and no hole, or in no
\* VMA and one hole, whatever was split and merged before.
HolesExact ==
    ~panic => \A p \in Pages :
        Cardinality({a \in DOMAIN vm_holes : a <= p /\ p < a + vm_holes[a]})
          + Cardinality({v \in vmas : v.lo <= p /\ p < v.hi}) = 1

\* insert_vma (mm/ucontext.rs): "assert!(self.conflicts(region).next().is_none())".
InsertAssertHolds == ~panic
=============================================================================
