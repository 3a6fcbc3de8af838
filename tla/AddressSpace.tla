---------------------------- MODULE AddressSpace ----------------------------
(***************************************************************************)
(* User address spaces (mm/ucontext.rs): the VMAs, the page table and, for *)
(* each physical page, the set of VMAs that map it (mm/page.rs); mmap,     *)
(* munmap, mprotect, madvise, fork, exit and the page faults on anonymous  *)
(* memory (mm/fault.rs).  Where mmap may put a VMA is the subject of       *)
(* module UserMappings: here it takes any pages no VMA has.                *)
(*                                                                         *)
(* Each call holds its address space's write lock, so two calls interleave *)
(* only where they share physical pages: do_wp_page counts the VMAs of a   *)
(* page, gives up the page manager's lock and acts on the count later.     *)
(* Addresses are page numbers.  The user stack never grows: it is created  *)
(* with its maximal size.                                                  *)
(***************************************************************************)
EXTENDS Naturals, FiniteSets, FiniteSetsExt, SequencesExt

CONSTANTS
    Spaces, First,   \* address spaces; the one that exists at the start
    Top,             \* bound: the pages of an address space
    MaxVmas,         \* bound: the VMAs alive at a time
    MaxCalls,        \* bound: system calls, faults and exits not counted
    Frames,          \* physical pages
    Prots,           \* the protections asked for: writing allowed or not
    None

VARIABLES
    live,            \* the address spaces that exist
    mm,              \* what the calls change: see TypeOK
    wp,              \* each space's do_wp_page after its first half, or None
    opened,          \* history: frames mprotect made writable while several VMAs mapped them
    calls            \* the system calls so far

vars == <<live, mm, wp, opened, calls>>
Pages == 0 .. Top - 1
Ids == 1 .. MaxVmas

TypeOK ==
    /\ live \subseteq Spaces /\ opened \subseteq Frames /\ calls \in 0 .. MaxCalls
    /\ \A i \in Ids : mm.vma[i] # None =>
         /\ mm.vma[i].lo \in Pages /\ mm.vma[i].hi \in 1 .. Top
         /\ mm.vma[i].sp \in Spaces /\ {mm.vma[i].shared, mm.vma[i].w, mm.vma[i].mapped} \subseteq BOOLEAN
    /\ \A s \in Spaces, p \in Pages : mm.table[s][p] # None =>
         mm.table[s][p].frame \in Frames /\ mm.table[s][p].w \in BOOLEAN
    /\ \A f \in Frames : mm.rmap[f] = None \/ mm.rmap[f] \subseteq Ids
    /\ \A s \in Spaces : wp[s] = None \/ (wp[s].page \in Pages /\ wp[s].count \in 0 .. MaxVmas)

Init ==
    /\ live = {First} /\ opened = {} /\ calls = 0
    /\ mm = [vma |-> [i \in Ids |-> None],
             table |-> [s \in Spaces |-> [p \in Pages |-> None]],
             rmap |-> [f \in Frames |-> None]]
    /\ wp = [s \in Spaces |-> None]

------------------------------------------------------------------------------
(* UserMappings and LockedVMA.                                              *)

Vmas(m, s) == {i \in Ids : m.vma[i] # None /\ m.vma[i].sp = s}

conflicts(m, s, lo, hi) ==
    {i \in Vmas(m, s) : m.vma[i].lo < hi /\ lo < m.vma[i].hi}

insert_vma(m, i, v) == [m EXCEPT !.vma[i] = v]
remove_vma(m, i) == [m EXCEPT !.vma[i] = None]

\* ids in use: by a VMA of some space, or by one that a page still refers to
Used(m) ==
    {i \in Ids : m.vma[i] # None} \cup UNION {m.rmap[f] : f \in {g \in Frames : m.rmap[g] # None}}

\* the entries of a VMA's pages, and the frames they name
Mapped(m, v) == {p \in v.lo .. v.hi - 1 : m.table[v.sp][p] # None}
FramesOf(m, v) == {m.table[v.sp][p].frame : p \in Mapped(m, v)}

\* Fault: the pages of the new VMA still name the old one too.
SplitKeepingOld(m, i, j, v) ==
    LET fs == FramesOf(m, v)
    IN  insert_vma([m EXCEPT !.rmap =
                      [f \in Frames |-> IF f \in fs THEN @[f] \cup {j} ELSE @[f]]],
                   j, [v EXCEPT !.mapped = fs # {}])

\* extract's VMA before or after the region, j, takes its pages over from VMA i
Split(m, i, j, v) ==
    LET fs == FramesOf(m, v)
    IN  insert_vma([m EXCEPT !.rmap =
                      [f \in Frames |-> IF f \in fs THEN (@[f] \cup {j}) \ {i} ELSE @[f]]],
                   j, [v EXCEPT !.mapped = fs # {}])

\* the part of a VMA that lies in [lo, hi)
Middle(v, lo, hi) == [v EXCEPT !.lo = Max({@, lo}), !.hi = Min({@, hi})]

\* remove_vma, extract and the insertion of what lies before and after [lo, hi)
Carve(m, i, lo, hi) ==
    LET v == m.vma[i]
        mid == Middle(v, lo, hi)
        before == Min(Ids \ Used(m))
        after == Min(Ids \ (Used(m) \cup {before}))
        left == IF v.lo < mid.lo THEN Split(remove_vma(m, i), i, before, [v EXCEPT !.hi = mid.lo])
                ELSE remove_vma(m, i)
        right == IF v.lo < mid.lo THEN after ELSE before
    IN  IF mid.hi < v.hi THEN Split(left, i, right, [v EXCEPT !.lo = mid.hi]) ELSE left

unmap(m, i, v) ==
    LET fs == FramesOf(m, v)
    IN  [m EXCEPT !.table[v.sp] = [p \in Pages |-> IF p \in Mapped(m, v) THEN None ELSE @[p]],
                  !.rmap = [f \in Frames |->
                              IF f \notin fs THEN @[f]
                              ELSE IF @[f] \subseteq {i} THEN None ELSE @[f] \ {i}]]

------------------------------------------------------------------------------
(* The system calls of a process that lives in address space s.             *)

\* the write lock is free, and the bound on VMAs leaves room for n more
Ready(s, n) ==
    /\ s \in live /\ wp[s] = None
    /\ Cardinality(Ids \ Used(mm)) >= n

Call(s, n) == calls < MaxCalls /\ Ready(s, n) /\ calls' = calls + 1

\* the VMAs that a call on [lo, hi) splits off
Pieces(s, lo, hi) ==
    LET inway == conflicts(mm, s, lo, hi)
    IN  Cardinality({i \in inway : mm.vma[i].lo < lo}) + Cardinality({i \in inway : hi < mm.vma[i].hi})

\* the frames that are written to through mprotect alone, as long as they are in use
Recall(m, fs) == opened' = {f \in opened \cup fs : m.rmap[f] # None}

Set(m) == mm' = m /\ Recall(m, {}) /\ UNCHANGED wp

\* the VMAs in the way, one after the other in the order of the hash set
Munmap(s, lo, hi) ==
    /\ Call(s, Pieces(s, lo, hi))
    /\ \E order \in SetToSeqs(conflicts(mm, s, lo, hi)) :
         Set(FoldLeft(LAMBDA m, i : unmap(Carve(m, i, lo, hi), i, Middle(m.vma[i], lo, hi)),
                      mm, order))
    /\ UNCHANGED live

\* map_anonymous without MAP_POPULATE: the pages come with the faults
Mmap(s, lo, hi, shared, w) ==
    /\ Call(s, 1) /\ conflicts(mm, s, lo, hi) = {}
    /\ Set(insert_vma(mm, Min(Ids \ Used(mm)),
              [sp |-> s, lo |-> lo, hi |-> hi, shared |-> shared, w |-> w, mapped |-> FALSE]))
    /\ UNCHANGED live

\* mprotect forgets VM_SHARED with the other flags, and rewrites the entries of every page
Protected(m, i, lo, hi, w) ==
    LET v == Middle(m.vma[i], lo, hi)
        c == Carve(m, i, lo, hi)
    IN  insert_vma([c EXCEPT !.table[v.sp] =
                      [p \in Pages |-> IF p \in Mapped(m, v) THEN [@[p] EXCEPT !.w = w] ELSE @[p]]],
                   i, [v EXCEPT !.w = w, !.shared = FALSE])

Mprotect(s, lo, hi, w) ==
    /\ Call(s, Pieces(s, lo, hi))
    /\ \E order \in SetToSeqs(conflicts(mm, s, lo, hi)) :
         mm' = FoldLeft(LAMBDA m, i : Protected(m, i, lo, hi, w), mm, order)
    /\ Recall(mm, IF w THEN {f \in Frames : \E p \in lo .. hi - 1 :
                               mm.table[s][p] # None /\ mm.table[s][p].frame = f
                               /\ Cardinality(mm.rmap[f]) > 1} ELSE {})
    /\ UNCHANGED <<live, wp>>

\* the advice is kept in flags that nothing here reads; the VMAs are split all the same
Madvise(s, lo, hi) ==
    /\ Call(s, Pieces(s, lo, hi))
    /\ \E order \in SetToSeqs(conflicts(mm, s, lo, hi)) :
         Set(FoldLeft(LAMBDA m, i : insert_vma(Carve(m, i, lo, hi), i, Middle(m.vma[i], lo, hi)),
                      mm, order))
    /\ UNCHANGED live

\* PageTable::clone with copy_on_write: the entries of the child ...
ReadOnly(t) == [p \in Pages |-> IF t[p] = None THEN None ELSE [t[p] EXCEPT !.w = FALSE]]

\* Fault: the parent's entries stay writable.
ForkedAsIs(t) == t

\* ... and those of the parent, which may not write any more either
Forked(t) == ReadOnly(t)

\* try_clone
Fork(s, c) ==
    /\ Call(s, Cardinality(Vmas(mm, s))) /\ c \notin live
    /\ LET old == Vmas(mm, s)
           free == Ids \ Used(mm)
           new == CHOOSE g \in [old -> free] : \A i, j \in old : i # j => g[i] # g[j]
           names(f) == {new[i] : i \in {j \in old : f \in FramesOf(mm, mm.vma[j])}}
       IN  Set([mm EXCEPT !.vma = [j \in Ids |-> IF \E i \in old : new[i] = j
                                                  THEN [mm.vma[CHOOSE i \in old : new[i] = j] EXCEPT !.sp = c]
                                                  ELSE @[j]],
                          !.table[s] = Forked(mm.table[s]), !.table[c] = ReadOnly(mm.table[s]),
                          !.rmap = [f \in Frames |-> IF names(f) = {} THEN @[f] ELSE @[f] \cup names(f)]])
    /\ live' = live \cup {c}

\* the last reference to the address space: unmap_all, and the mappings are dropped
Exit(s) ==
    /\ Ready(s, 0)
    /\ LET all == SetToSeq({i \in Vmas(mm, s) : mm.vma[i].mapped})
           m == FoldLeft(LAMBDA x, i : unmap(x, i, x.vma[i]), mm, all)
       IN  Set([m EXCEPT !.vma = [i \in Ids |-> IF i \in Vmas(mm, s) THEN None ELSE @[i]],
                         !.table[s] = [p \in Pages |-> None]])
    /\ live' = live \ {s}
    /\ UNCHANGED calls

------------------------------------------------------------------------------
(* Page faults on anonymous memory.  A write that the VMA does not allow    *)
(* sends SIGSEGV and is then handled like any other.                        *)

At(s, p) == {i \in Vmas(mm, s) : p \in mm.vma[i].lo .. mm.vma[i].hi - 1}
FreeFrames == {f \in Frames : mm.rmap[f] = None}

\* do_anonymous_page; out of memory is not reported, the fault comes again
FaultAnonymous(s, p) ==
    /\ Ready(s, 0) /\ mm.table[s][p] = None
    /\ \E i \in At(s, p) :
         LET m == [mm EXCEPT !.vma[i].mapped = TRUE]
         IN  IF FreeFrames = {} THEN Set(m)
             ELSE LET f == CHOOSE x \in FreeFrames : TRUE
                  IN  Set([m EXCEPT !.table[s][p] = [frame |-> f, w |-> mm.vma[i].w],
                                    !.rmap[f] = {i}])
    /\ UNCHANGED <<live, calls>>

\* do_wp_page up to drop(page_manager): a write to a page that is mapped read-only
FaultWrite(s, p) ==
    /\ Ready(s, 0) /\ mm.table[s][p] # None /\ ~mm.table[s][p].w
    /\ \E i \in At(s, p) :
         wp' = [wp EXCEPT ![s] = [page |-> p, id |-> i,
                                  count |-> Cardinality(mm.rmap[mm.table[s][p].frame])]]
    /\ UNCHANGED <<live, mm, opened, calls>>

\* the rest of do_wp_page: write to the page, or to a copy of it
WriteOrCopy(s) ==
    /\ wp[s] # None
    /\ LET p == wp[s].page
           i == wp[s].id
           old == mm.table[s][p].frame
           m == [mm EXCEPT !.vma[i].mapped = TRUE]
       IN  mm' = CASE mm.vma[i].shared \/ wp[s].count = 1 -> [m EXCEPT !.table[s][p].w = TRUE]
                   [] ~mm.vma[i].shared /\ wp[s].count # 1 /\ FreeFrames = {} -> m
                   [] ~mm.vma[i].shared /\ wp[s].count # 1 /\ FreeFrames # {} ->
                        LET f == CHOOSE x \in FreeFrames : TRUE
                        IN  [m EXCEPT !.table[s][p] = [frame |-> f, w |-> TRUE],
                                      !.rmap[old] = @ \ {i}, !.rmap[f] = {i}]
    /\ wp' = [wp EXCEPT ![s] = None]
    /\ UNCHANGED <<live, opened, calls>>

Regions == {r \in Pages \X (1 .. Top) : r[1] < r[2]}

Step(s) ==
    \/ \E r \in Regions, shared \in BOOLEAN, w \in Prots : Mmap(s, r[1], r[2], shared, w)
    \/ \E r \in Regions : Munmap(s, r[1], r[2]) \/ Madvise(s, r[1], r[2])
    \/ \E r \in Regions, w \in Prots : Mprotect(s, r[1], r[2], w)
    \/ \E c \in Spaces : Fork(s, c)
    \/ \E p \in Pages : FaultAnonymous(s, p) \/ FaultWrite(s, p)
    \/ WriteOrCopy(s) \/ Exit(s)

Next == \E s \in live : Step(s)
Spec == Init /\ [][Next]_vars

------------------------------------------------------------------------------
\* The vma_set of a physical page is the set of the VMAs that map it, through splits,
\* forks, copies on write and exits of either side.
RmapExact ==
    \A f \in Frames, i \in Ids :
        (mm.rmap[f] # None /\ i \in mm.rmap[f])
          <=> (mm.vma[i] # None /\ f \in FramesOf(mm, mm.vma[i]))

\* Copy on write: while several VMAs map a physical page, no private one may write to it,
\* unless mprotect has just allowed it.
CowIsolated ==
    \A s \in live, p \in Pages :
        /\ mm.table[s][p] # None /\ mm.table[s][p].w
        /\ Cardinality(mm.rmap[mm.table[s][p].frame]) > 1
        => mm.table[s][p].frame \in opened \/ \E i \in At(s, p) : mm.vma[i].shared
=============================================================================
