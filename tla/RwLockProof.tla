----------------------------- MODULE RwLockProof -----------------------------
(***************************************************************************)
(* Locks that are words in memory.  RwLock, for any finite set of users    *)
(* and any word wide enough to count them; and the robust locks of a       *)
(* process, for any number of threads and words.                           *)
(***************************************************************************)
EXTENDS RwLock, RobustLocks, FiniteSetTheorems, TLAPS

(* The program points at which a user's increment is in the word.          *)
CountedPCs == {"backout", "read", "up_backout", "up_drop", "wr_backout", "wr_drop"}

\* Wrapping arithmetic is exact as long as the result is in range.
LEMMA ModBelow ==
    ASSUME NEW n \in Nat \ {0}, NEW x \in 0 .. n - 1
    PROVE  x % n = x /\ (x + n) % n = x
  OBVIOUS

\* The two flags and the reader count of a word can be read independently.
LEMMA FlagsSplit ==
    ASSUME NEW k \in Nat, NEW f \in 0 .. 3
    PROVE  Flags(READER * k + f) = f
  BY DEF Flags, READER

\* The users counted in the word are finitely many, at most all of them.
LEMMA CountedFinite ==
    /\ IsFiniteSet(Counted)
    /\ Cardinality(Counted) \in Nat
    /\ Cardinality(Counted) <= Cardinality(Users)
    /\ Cardinality(Users) \in Nat
  <1>1. Counted \subseteq Users
    BY DEF Counted
  <1>2. IsFiniteSet(Users)
    BY RwLockAssumption
  <1> QED
    BY <1>1, <1>2, FS_Subset, FS_CardinalityType

\* A user that starts to be counted adds one to the count.
LEMMA CountUp ==
    ASSUME TypeOK, NEW t \in Users, NEW l \in CountedPCs,
           pc[t] \notin CountedPCs, Goto(t, l)
    PROVE  /\ Cardinality(Counted') = Cardinality(Counted) + 1
           /\ Cardinality(Counted) < Cardinality(Users)
  <1>1. Counted' = Counted \union {t} /\ t \notin Counted
    BY DEF Counted, CountedPCs, Goto, TypeOK
  <1>2. Cardinality(Counted') = Cardinality(Counted) + 1
    BY ZenonT(40), <1>1, CountedFinite, FS_AddElement
  <1>3. Counted' \subseteq Users
    BY <1>1 DEF Counted
  <1>4. Cardinality(Counted') <= Cardinality(Users)
    BY <1>3, RwLockAssumption, FS_Subset
  <1> QED
    BY <1>2, <1>4, CountedFinite

\* A user that stops being counted takes one from the count.
LEMMA CountDown ==
    ASSUME TypeOK, NEW t \in Users, NEW l \in PCs \ CountedPCs,
           pc[t] \in CountedPCs, Goto(t, l)
    PROVE  /\ Cardinality(Counted') = Cardinality(Counted) - 1
           /\ Cardinality(Counted) >= 1
  <1>1. Counted' = Counted \ {t} /\ t \in Counted
    BY DEF Counted, CountedPCs, Goto, TypeOK
  <1>2. Cardinality(Counted') = Cardinality(Counted) - 1
    BY ZenonT(40), <1>1, CountedFinite, FS_RemoveElement
  <1>3. Cardinality(Counted) # 0
    BY <1>1, CountedFinite, FS_EmptySet
  <1> QED
    BY <1>2, <1>3, CountedFinite

\* Moving between two counted, or two uncounted, points keeps the count.
LEMMA CountSame ==
    ASSUME TypeOK, NEW t \in Users, NEW l \in PCs,
           pc[t] \in CountedPCs <=> l \in CountedPCs, Goto(t, l)
    PROVE  Counted' = Counted
  BY DEF Counted, CountedPCs, Goto, TypeOK

\* A zero count means that nobody is counted.
LEMMA CountZero ==
    ASSUME Cardinality(Counted) = 0
    PROVE  Counted = {}
  BY CountedFinite, FS_EmptySet

-----------------------------------------------------------------------------
(* The inductive invariant: who holds what, and what the word says of it.  *)
IInv == TypeOK /\ Exclusion /\ WordAccounting

\* The word stays below WORD - READER until the last user is counted.
LEMMA WordBound ==
    ASSUME IInv
    PROVE  /\ Flags(lock) \in 0 .. 3
           /\ WORD \in Nat \ {0}
           /\ lock \in Nat
           /\ Cardinality(Counted) < Cardinality(Users) => lock + READER < WORD
           /\ Cardinality(Counted) >= 1 => lock >= READER
  BY RwLockAssumption, CountedFinite DEF IInv, TypeOK, WordAccounting, Flags, READER

LEMMA InitIInv == Init => IInv
  <1> SUFFICES ASSUME Init PROVE IInv
    OBVIOUS
  <1>1. Counted = {} /\ Readers = {} /\ Upgraders = {} /\ Writers = {}
    BY DEF Init, Counted, Readers, Upgraders, Writers
  <1>2. Cardinality(Counted) = 0
    BY <1>1, FS_EmptySet
  <1>3. TypeOK
    BY RwLockAssumption, FS_CardinalityType DEF Init, TypeOK, PCs
  <1> QED
    BY <1>1, <1>2, <1>3 DEF Init, IInv, Exclusion, WordAccounting, Flags, READER, UPGRADED

\* fetch_add(READER) by a user that was not counted: the count follows, the
\* flags stay.
LEMMA AddReader ==
    ASSUME IInv, NEW t \in Users, NEW l \in CountedPCs, pc[t] \notin CountedPCs,
           FetchAdd(READER), Goto(t, l)
    PROVE  /\ lock' = lock + READER
           /\ lock' \in 0 .. WORD - 1
           /\ Flags(lock') = Flags(lock)
           /\ lock' = READER * Cardinality(Counted') + Flags(lock')
  <1>1. Cardinality(Counted') = Cardinality(Counted) + 1
        /\ Cardinality(Counted) < Cardinality(Users)
    BY CountUp DEF IInv
  <1>2. lock + READER \in 0 .. WORD - 1
    BY <1>1, WordBound DEF READER
  <1>3. lock' = lock + READER
    BY <1>2, ModBelow, WordBound DEF FetchAdd
  <1>4. Flags(lock') = Flags(lock)
    BY <1>3, WordBound DEF Flags, READER
  <1> QED
    BY <1>1, <1>2, <1>3, <1>4, CountedFinite, WordBound DEF IInv, WordAccounting, READER

\* fetch_sub(READER) by a user that was counted.
LEMMA SubReader ==
    ASSUME IInv, NEW t \in Users, NEW l \in PCs \ CountedPCs, pc[t] \in CountedPCs,
           FetchSub(READER), Goto(t, l)
    PROVE  /\ lock' = lock - READER
           /\ lock' \in 0 .. WORD - 1
           /\ Flags(lock') = Flags(lock)
           /\ lock' = READER * Cardinality(Counted') + Flags(lock')
  <1>1. Cardinality(Counted') = Cardinality(Counted) - 1
        /\ Cardinality(Counted) >= 1
    BY CountDown DEF IInv
  <1>2. lock - READER \in 0 .. WORD - 1
    BY <1>1, WordBound DEF READER, IInv, TypeOK
  <1>3. lock' = lock - READER
    <2>1. lock + WORD - READER = (lock - READER) + WORD
      BY WordBound DEF READER
    <2> QED
      BY <1>2, <2>1, ModBelow, WordBound DEF FetchSub
  <1>4. Flags(lock') = Flags(lock)
    BY <1>2, <1>3, WordBound DEF Flags, READER
  <1> QED
    BY <1>1, <1>2, <1>3, <1>4, CountedFinite, WordBound DEF IInv, WordAccounting, READER

\* preempt_count stays in range, whichever way it moves.
LEMMA PreemptType ==
    ASSUME TypeOK, NEW t \in Users, PreemptDisable(t) \/ PreemptEnable(t) \/ UNCHANGED preempt
    PROVE  preempt' \in [Users -> 0 .. COUNT - 1]
  <1>1. \A x \in 0 .. COUNT - 1 : (x + 1) % COUNT \in 0 .. COUNT - 1
                               /\ (x + COUNT - 1) % COUNT \in 0 .. COUNT - 1
    BY RwLockAssumption
  <1> QED
    BY <1>1 DEF TypeOK, PreemptDisable, PreemptEnable

-----------------------------------------------------------------------------
(* One lemma per group of actions: each preserves the inductive invariant. *)

LEMMA ReadSteps ==
    ASSUME IInv, NEW t \in Users, TryRead(t) \/ TryReadBackout(t) \/ DropRead(t)
    PROVE  IInv'
  <1> USE DEF IInv, PCs, CountedPCs
  <1>1. CASE TryRead(t)
    <2>1. PICK l \in {"backout", "read"} :
              Goto(t, l) /\ (l = "read" => Flags(lock) = 0)
      BY ZenonT(40), <1>1 DEF TryRead, Goto
    <2>2. /\ lock' \in 0 .. WORD - 1
          /\ Flags(lock') = Flags(lock)
          /\ lock' = READER * Cardinality(Counted') + Flags(lock')
      BY <1>1, <2>1, AddReader DEF TryRead
    <2>3. TypeOK'
      BY <1>1, <2>1, <2>2, PreemptType DEF TryRead, Goto, TypeOK
    <2>4. /\ Writers' = Writers /\ Upgraders' = Upgraders
          /\ \/ Readers' = Readers
             \/ Readers' = Readers \union {t} /\ Flags(lock) = 0
      BY <1>1, <2>1 DEF TryRead, Goto, TypeOK, Writers, Upgraders, Readers
    <2> QED
      BY <2>2, <2>3, <2>4 DEF Exclusion, WordAccounting, UPGRADED
  <1>2. CASE TryReadBackout(t) \/ DropRead(t)
    <2>1. pc[t] \in CountedPCs /\ Goto(t, "idle") /\ FetchSub(READER) /\ PreemptEnable(t)
          /\ pc[t] \in {"backout", "read"}
      BY <1>2 DEF TryReadBackout, DropRead
    <2>2. /\ lock' \in 0 .. WORD - 1
          /\ Flags(lock') = Flags(lock)
          /\ lock' = READER * Cardinality(Counted') + Flags(lock')
      BY <2>1, SubReader
    <2>3. TypeOK'
      BY <2>1, <2>2, PreemptType DEF Goto, TypeOK
    <2>4. Writers' = Writers /\ Upgraders' = Upgraders /\ Readers' \subseteq Readers
      BY <2>1 DEF Goto, TypeOK, Writers, Upgraders, Readers
    <2> QED
      BY <2>2, <2>3, <2>4 DEF Exclusion, WordAccounting
  <1> QED
    BY <1>1, <1>2

LEMMA WriteSteps ==
    ASSUME IInv, NEW t \in Users, TryWrite(t) \/ DropWrite(t)
    PROVE  IInv'
  <1> USE DEF IInv, PCs, CountedPCs
  <1>1. CASE TryWrite(t)
    <2> USE <1>1 DEF TryWrite
    <2>1. Cardinality(Counted) = 0 /\ Flags(lock) = 0
      BY CountedFinite DEF WordAccounting, READER, Flags
    <2>2. Counted = {}
      BY <2>1, CountZero
    <2>3. Readers = {} /\ Upgraders = {} /\ Writers = {}
      BY <2>1, <2>2 DEF Readers, Counted, WordAccounting, UPGRADED
    <2>4. Readers' = {} /\ Upgraders' = {} /\ Writers' = {t} /\ Counted' = Counted
      BY ZenonT(40), <2>3, CountSame DEF Goto, TypeOK, Writers, Upgraders, Readers
    <2>5. TypeOK'
      BY PreemptType, RwLockAssumption, CountedFinite DEF Goto, TypeOK, WRITER
    <2> QED
      BY <2>1, <2>4, <2>5 DEF Exclusion, WordAccounting, Flags, READER, WRITER, UPGRADED
  <1>2. CASE DropWrite(t)
    <2> USE <1>2 DEF DropWrite
    <2>1. Readers = {} /\ Upgraders = {} /\ Writers = {t}
      BY DEF Exclusion, Writers
    <2>2. Readers' = {} /\ Upgraders' = {} /\ Writers' = {} /\ Counted' = Counted
      BY ZenonT(40), <2>1, CountSame DEF Goto, TypeOK, Writers, Upgraders, Readers
    <2>3. lock' \in 0 .. WORD - 1 /\ Flags(lock') = 0 /\ lock' = READER * Cardinality(Counted)
      BY WordBound, CountedFinite DEF TypeOK, WordAccounting, Flags, READER
    <2>4. TypeOK'
      BY <2>3, PreemptType DEF Goto, TypeOK
    <2> QED
      BY <2>2, <2>3, <2>4, CountedFinite DEF Exclusion, WordAccounting, UPGRADED, READER
  <1> QED
    BY <1>1, <1>2

LEMMA UpgradableSteps ==
    ASSUME IInv, NEW t \in Users,
           TryUpgradeableRead(t) \/ TryUpgrade(t) \/ DropUpgradable(t)
    PROVE  IInv'
  <1> USE DEF IInv, PCs, CountedPCs
  <1>1. CASE TryUpgradeableRead(t) /\ Flags(lock) = 0
    <2> USE <1>1 DEF TryUpgradeableRead
    <2>1. lock' = lock + UPGRADED /\ Goto(t, "upgradable") /\ PreemptDisable(t)
      BY DEF UpgradedBit, UPGRADED
    <2>2. Upgraders = {} /\ Writers = {}
      BY DEF WordAccounting, UPGRADED
    <2>3. Readers' = Readers /\ Upgraders' = {t} /\ Writers' = {} /\ Counted' = Counted
      BY ZenonT(40), <2>1, <2>2, CountSame DEF Goto, TypeOK, Writers, Upgraders, Readers
    <2>4. /\ lock' \in 0 .. WORD - 1
          /\ Flags(lock') = UPGRADED
          /\ lock' = READER * Cardinality(Counted) + UPGRADED
      BY <2>1, CountedFinite, RwLockAssumption
         DEF TypeOK, WordAccounting, Flags, READER, UPGRADED
    <2>5. TypeOK'
      BY <2>1, <2>4, PreemptType DEF Goto, TypeOK
    <2> QED
      BY <2>3, <2>4, <2>5 DEF Exclusion, WordAccounting, UPGRADED
  <1>2. CASE TryUpgradeableRead(t) /\ Flags(lock) # 0
    <2> USE <1>2 DEF TryUpgradeableRead
    <2>1. Readers' = Readers /\ Upgraders' = Upgraders /\ Writers' = Writers /\ Counted' = Counted
      BY DEF Writers, Upgraders, Readers, Counted
    <2>2. CASE UpgradedBit(lock)
      BY <2>1, <2>2 DEF TypeOK, Exclusion, WordAccounting
    <2>3. CASE ~UpgradedBit(lock)
      <3>1. Flags(lock) = 1 /\ lock' = lock + UPGRADED
        BY <2>3, WordBound DEF UpgradedBit, UPGRADED
      <3>2. /\ lock' \in 0 .. WORD - 1
            /\ Flags(lock') = 3
            /\ lock' = READER * Cardinality(Counted) + 3
        BY <3>1, CountedFinite, RwLockAssumption
           DEF TypeOK, WordAccounting, Flags, READER, UPGRADED
      <3> QED
        BY <2>1, <3>1, <3>2 DEF TypeOK, Exclusion, WordAccounting, UPGRADED
    <2> QED
      BY <2>2, <2>3
  <1>3. CASE TryUpgrade(t)
    <2> USE <1>3 DEF TryUpgrade
    <2>1. Cardinality(Counted) = 0 /\ Flags(lock) = UPGRADED
      BY CountedFinite DEF WordAccounting, READER, Flags, UPGRADED
    <2>2. Counted = {}
      BY <2>1, CountZero
    <2>3. Readers = {} /\ Upgraders = {t} /\ Writers = {}
      BY <2>1, <2>2 DEF Readers, Counted, Upgraders, Exclusion, WordAccounting, UPGRADED
    <2>4. Readers' = {} /\ Upgraders' = {} /\ Writers' = {t} /\ Counted' = Counted
      BY ZenonT(40), <2>3, CountSame DEF Goto, TypeOK, Writers, Upgraders, Readers
    <2>5. TypeOK'
      BY RwLockAssumption, CountedFinite DEF Goto, TypeOK, WRITER
    <2> QED
      BY <2>1, <2>4, <2>5 DEF Exclusion, WordAccounting, Flags, READER, WRITER, UPGRADED
  <1>4. CASE DropUpgradable(t)
    <2> USE <1>4 DEF DropUpgradable
    <2>1. Upgraders = {t} /\ Writers = {} /\ Flags(lock) = UPGRADED
      BY DEF Upgraders, Exclusion, WordAccounting, UPGRADED
    <2>2. Readers' = Readers /\ Upgraders' = {} /\ Writers' = {} /\ Counted' = Counted
      BY ZenonT(40), <2>1, CountSame DEF Goto, TypeOK, Writers, Upgraders, Readers
    <2>3. lock' = lock - UPGRADED
      <3>1. lock - UPGRADED \in 0 .. WORD - 1 /\ lock + WORD - UPGRADED = (lock - UPGRADED) + WORD
        BY <2>1, WordBound DEF TypeOK, UPGRADED, Flags
      <3> QED
        BY <3>1, ModBelow, WordBound DEF FetchSub
    <2>4. lock' \in 0 .. WORD - 1 /\ Flags(lock') = 0 /\ lock' = READER * Cardinality(Counted)
      <3>1. lock = 4 * Cardinality(Counted) + 2
        BY <2>1 DEF WordAccounting, READER, UPGRADED
      <3>2. lock' = 4 * Cardinality(Counted) /\ lock' \in 0 .. lock
        BY <2>3, <3>1, CountedFinite DEF UPGRADED
      <3>3. (4 * Cardinality(Counted)) % 4 = 0
        BY CountedFinite
      <3>4. lock' \in 0 .. WORD - 1
        BY <3>2, WordBound DEF TypeOK
      <3>5. Flags(lock') = 0 /\ lock' = READER * Cardinality(Counted)
        BY <3>2, <3>3 DEF Flags, READER
      <3> QED
        BY <3>4, <3>5
    <2>5. TypeOK'
      BY <2>4, PreemptType DEF Goto, TypeOK
    <2> QED
      BY <2>2, <2>4, <2>5, CountedFinite DEF Exclusion, WordAccounting, UPGRADED, READER
  <1> QED
    BY <1>1, <1>2, <1>3, <1>4

LEMMA DowngradeSteps ==
    ASSUME IInv, NEW t \in Users, UpgradableDowngrade(t) \/ WriteDowngrade(t)
    PROVE  IInv'
  <1> USE DEF IInv, PCs, CountedPCs
  <1>1. CASE \/ DowngradeCount(t, "upgradable", "up_backout", "up_drop")
             \/ DowngradeCount(t, "write", "wr_backout", "wr_drop")
    <2>1. PICK l \in CountedPCs :
             /\ Goto(t, l)
             /\ \/ pc[t] = "upgradable" /\ l \in {"up_backout", "up_drop"}
                \/ pc[t] = "write" /\ l \in {"wr_backout", "wr_drop"}
      BY <1>1 DEF DowngradeCount, Goto
    <2>2. /\ lock' \in 0 .. WORD - 1
          /\ Flags(lock') = Flags(lock)
          /\ lock' = READER * Cardinality(Counted') + Flags(lock')
      BY <1>1, <2>1, AddReader DEF DowngradeCount
    <2>3. TypeOK'
      BY <1>1, <2>1, <2>2 DEF DowngradeCount, Goto, TypeOK
    <2>4. Writers' = Writers /\ Upgraders' = Upgraders /\ Readers' = Readers
      BY <2>1 DEF Goto, TypeOK, Writers, Upgraders, Readers
    <2> QED
      BY <2>2, <2>3, <2>4 DEF Exclusion, WordAccounting
  <1>2. CASE \/ DowngradeBackout(t, "up_backout", "upgradable")
             \/ DowngradeBackout(t, "wr_backout", "write")
    <2>1. PICK l \in PCs \ CountedPCs :
             /\ Goto(t, l)
             /\ \/ pc[t] = "up_backout" /\ l = "upgradable"
                \/ pc[t] = "wr_backout" /\ l = "write"
      BY <1>2 DEF DowngradeBackout, Goto
    <2>2. /\ lock' \in 0 .. WORD - 1
          /\ Flags(lock') = Flags(lock)
          /\ lock' = READER * Cardinality(Counted') + Flags(lock')
      BY <1>2, <2>1, SubReader DEF DowngradeBackout
    <2>3. TypeOK'
      BY <1>2, <2>1, <2>2 DEF DowngradeBackout, Goto, TypeOK
    <2>4. Writers' = Writers /\ Upgraders' = Upgraders /\ Readers' = Readers
      BY <2>1 DEF Goto, TypeOK, Writers, Upgraders, Readers
    <2> QED
      BY <2>2, <2>3, <2>4 DEF Exclusion, WordAccounting
  <1>3. CASE pc[t] = "up_drop" /\ FetchSub(UPGRADED) /\ PreemptEnable(t) /\ Goto(t, "read")
    <2>1. Upgraders = {t} /\ Writers = {} /\ Flags(lock) = UPGRADED
      BY <1>3 DEF Upgraders, Exclusion, WordAccounting, UPGRADED
    <2>2. Upgraders' = {} /\ Writers' = {} /\ Counted' = Counted
      <3>1. Counted' = Counted
        BY <1>3, CountSame
      <3> QED
        BY <1>3, <2>1, <3>1 DEF Goto, TypeOK, Writers, Upgraders
    <2>3. lock' = lock - UPGRADED
      <3>1. lock - UPGRADED \in 0 .. WORD - 1 /\ lock + WORD - UPGRADED = (lock - UPGRADED) + WORD
        BY <2>1, WordBound DEF TypeOK, UPGRADED, Flags
      <3> QED
        BY <1>3, <3>1, ModBelow, WordBound DEF FetchSub
    <2>4. lock' \in 0 .. WORD - 1 /\ Flags(lock') = 0 /\ lock' = READER * Cardinality(Counted)
      BY <2>1, <2>3, WordBound, CountedFinite DEF TypeOK, WordAccounting, Flags, READER, UPGRADED
    <2>5. TypeOK'
      BY <1>3, <2>4, PreemptType DEF Goto, TypeOK
    <2> QED
      BY <2>2, <2>4, <2>5, CountedFinite DEF Exclusion, WordAccounting, UPGRADED, READER
  <1>4. CASE pc[t] = "wr_drop" /\ lock' = lock - Flags(lock) /\ PreemptEnable(t) /\ Goto(t, "read")
    <2>1. Upgraders = {} /\ Writers = {t}
      BY <1>4 DEF Exclusion, Writers
    <2>2. Upgraders' = {} /\ Writers' = {} /\ Counted' = Counted
      <3>1. Counted' = Counted
        BY <1>4, CountSame
      <3> QED
        BY <1>4, <2>1, <3>1 DEF Goto, TypeOK, Writers, Upgraders
    <2>3. lock' \in 0 .. WORD - 1 /\ Flags(lock') = 0 /\ lock' = READER * Cardinality(Counted)
      BY <1>4, WordBound, CountedFinite DEF TypeOK, WordAccounting, Flags, READER
    <2>4. TypeOK'
      BY <1>4, <2>3, PreemptType DEF Goto, TypeOK
    <2> QED
      BY <2>2, <2>3, <2>4, CountedFinite DEF Exclusion, WordAccounting, UPGRADED, READER
  <1> QED
    BY <1>1, <1>2, <1>3, <1>4 DEF UpgradableDowngrade, WriteDowngrade

-----------------------------------------------------------------------------
LEMMA Inductive == Spec => []IInv
  <1>1. IInv /\ [Next]_vars => IInv'
    <2> SUFFICES ASSUME IInv, [Next]_vars PROVE IInv'
      OBVIOUS
    <2>1. CASE Next
      BY <2>1, ReadSteps, WriteSteps, UpgradableSteps, DowngradeSteps DEF Next, KernelStep
    <2>2. CASE UNCHANGED vars
      BY <2>2 DEF vars, IInv, TypeOK, Exclusion, WordAccounting, Readers, Upgraders, Writers, Counted
    <2> QED
      BY <2>1, <2>2
  <1> QED
    BY <1>1, InitIInv, PTL DEF Spec

\* The word and the preempt counts stay within their widths in every
\* execution of the lock's operations, for any number of users the word can
\* count.
THEOREM TypeCorrect == Spec => []TypeOK
  BY Inductive, PTL DEF IInv

\* No write guard ever coexists with another guard and no two upgradable
\* guards coexist, for any number of users.
THEOREM GuardsExclude == Spec => []Exclusion
  BY Inductive, PTL DEF IInv

\* The lock word always says exactly which guards and which attempts to back
\* out exist: no operation loses a count or leaves a flag behind.
THEOREM WordIsExact == Spec => []WordAccounting
  BY Inductive, PTL DEF IInv

\* While an upgradable guard is kept, no read guard is granted.
THEOREM UpgraderDrainsReaders == Spec => UpgraderAdmitsNoReader
  <1>1. IInv /\ [Next]_vars =>
          [Upgraders # {} /\ Upgraders' = Upgraders => Readers' \subseteq Readers]_vars
    <2> SUFFICES ASSUME IInv, Next, Upgraders # {}, Upgraders' = Upgraders
                 PROVE  Readers' \subseteq Readers
      BY DEF vars
    <2>1. Flags(lock) = UPGRADED /\ Writers = {}
      BY DEF IInv, WordAccounting, UPGRADED
    <2>2. PICK t \in Users : KernelStep(t) \/ UpgradableDowngrade(t) \/ WriteDowngrade(t)
      BY DEF Next
    <2>3. pc \in [Users -> PCs]
      BY DEF IInv, TypeOK
    <2>4. CASE TryRead(t)
      BY <2>1, <2>3, <2>4 DEF TryRead, Goto, Readers, UPGRADED
    <2>5. CASE TryReadBackout(t) \/ DropRead(t) \/ TryWrite(t) \/ DropWrite(t)
               \/ TryUpgradeableRead(t) \/ TryUpgrade(t) \/ DropUpgradable(t)
      BY <2>3, <2>5 DEF TryReadBackout, DropRead, TryWrite, DropWrite, TryUpgradeableRead,
                        TryUpgrade, DropUpgradable, Goto, Readers
    <2>6. CASE UpgradableDowngrade(t)
      BY <2>3, <2>6 DEF UpgradableDowngrade, DowngradeCount, DowngradeBackout, Goto, Readers, Upgraders
    <2>7. CASE WriteDowngrade(t)
      BY <2>1, <2>3, <2>7 DEF WriteDowngrade, DowngradeCount, DowngradeBackout, Goto, Readers, Writers
    <2> QED
      BY <2>2, <2>4, <2>5, <2>6, <2>7 DEF KernelStep
  <1> QED
    BY <1>1, Inductive, PTL DEF Spec, UpgraderAdmitsNoReader

-----------------------------------------------------------------------------
\* Each step of the word-based lock is a step of the abstract lock or leaves
\* its guards as they are.
LEMMA StepRefines ==
    ASSUME IInv, NEW t \in Users, KernelStep(t) \/ UpgradableDowngrade(t) \/ WriteDowngrade(t)
    PROVE  [Abs!AbsNext]_(Abs!absVars)
  <1> USE DEF Abs!AbsNext, Abs!absVars
  <1>1. pc \in [Users -> PCs]
    BY DEF IInv, TypeOK
  <1>2. CASE TryRead(t)
    <2>1. CASE pc' = [pc EXCEPT ![t] = "read"]
      <3>1. Upgraders = {} /\ Writers = {}
        BY <1>1, <1>2, <2>1 DEF TryRead, Goto, IInv, WordAccounting, UPGRADED, TypeOK
      <3>2. Readers' = Readers \union {t} /\ Upgraders' = Upgraders /\ Writers' = Writers
            /\ t \notin Readers
        BY <1>1, <1>2, <2>1 DEF TryRead, Readers, Upgraders, Writers
      <3>3. Abs!Read(t)
        BY <3>1, <3>2 DEF Abs!Read, Abs!Unused
      <3> QED
        BY <3>3
    <2>2. CASE pc' = [pc EXCEPT ![t] = "backout"]
      BY <1>1, <1>2, <2>2 DEF TryRead, Readers, Upgraders, Writers
    <2> QED
      BY ZenonT(40), <1>2, <2>1, <2>2 DEF TryRead, Goto
  <1>3. CASE TryReadBackout(t)
    BY <1>1, <1>3 DEF TryReadBackout, Goto, Readers, Upgraders, Writers
  <1>4. CASE DropRead(t)
    <2>1. t \in Readers /\ Readers' = Readers \ {t} /\ t \notin Upgraders /\ t \notin Writers
          /\ Upgraders' = Upgraders /\ Writers' = Writers
      BY <1>1, <1>4 DEF DropRead, Goto, Readers, Upgraders, Writers
    <2>2. Abs!Release(t)
      BY <2>1 DEF Abs!Release
    <2> QED
      BY <2>2
  <1>5. CASE TryWrite(t)
    <2>1. Cardinality(Counted) = 0 /\ Flags(lock) = 0
      BY <1>5, CountedFinite DEF TryWrite, IInv, WordAccounting, READER, Flags
    <2>2. Readers = {} /\ Upgraders = {} /\ Writers = {}
      BY <2>1, CountZero DEF IInv, Readers, Counted, WordAccounting, UPGRADED
    <2>3. Readers' = {} /\ Upgraders' = {} /\ Writers' = {t}
      BY <1>1, <1>5, <2>2 DEF TryWrite, Goto, Readers, Upgraders, Writers
    <2>4. Abs!Write(t)
      BY <2>2, <2>3 DEF Abs!Write
    <2> QED
      BY <2>4
  <1>6. CASE DropWrite(t)
    <2>1. t \in Writers /\ Writers' = Writers \ {t} /\ t \notin Upgraders /\ t \notin Readers
          /\ Upgraders' = Upgraders /\ Readers' = Readers
      BY <1>1, <1>6 DEF DropWrite, Goto, Readers, Upgraders, Writers
    <2>2. Abs!Release(t)
      BY <2>1 DEF Abs!Release
    <2> QED
      BY <2>2
  <1>7. CASE TryUpgradeableRead(t)
    <2>1. CASE Flags(lock) = 0
      <3>1. Upgraders = {} /\ Writers = {}
        BY <2>1 DEF IInv, WordAccounting, UPGRADED
      <3>2. Readers' = Readers /\ Upgraders' = {t} /\ Writers' = Writers /\ t \notin Readers
        BY <1>1, <1>7, <2>1, <3>1 DEF TryUpgradeableRead, Goto, Readers, Upgraders, Writers
      <3>3. Abs!UpgradeableRead(t)
        BY <3>1, <3>2 DEF Abs!UpgradeableRead, Abs!Unused
      <3> QED
        BY <3>3
    <2>2. CASE Flags(lock) # 0
      BY <1>7, <2>2 DEF TryUpgradeableRead, Readers, Upgraders, Writers
    <2> QED
      BY <2>1, <2>2
  <1>8. CASE TryUpgrade(t)
    <2>1. Cardinality(Counted) = 0 /\ Flags(lock) = UPGRADED
      BY <1>8, CountedFinite DEF TryUpgrade, IInv, WordAccounting, READER, Flags, UPGRADED
    <2>2. Readers = {} /\ Upgraders = {t} /\ Writers = {}
      BY <1>8, <2>1, CountZero
         DEF TryUpgrade, IInv, Readers, Counted, Upgraders, Exclusion, WordAccounting, UPGRADED
    <2>3. Readers' = {} /\ Upgraders' = {} /\ Writers' = {t}
      BY <1>1, <1>8, <2>2 DEF TryUpgrade, Goto, Readers, Upgraders, Writers
    <2>4. Abs!Upgrade(t)
      BY <2>2, <2>3 DEF Abs!Upgrade
    <2> QED
      BY <2>4
  <1>9. CASE DropUpgradable(t)
    <2>1. t \in Upgraders /\ Upgraders' = Upgraders \ {t} /\ t \notin Writers /\ t \notin Readers
          /\ Writers' = Writers /\ Readers' = Readers
      BY <1>1, <1>9 DEF DropUpgradable, Goto, Readers, Upgraders, Writers
    <2>2. Abs!Release(t)
      BY <2>1 DEF Abs!Release
    <2> QED
      BY <2>2
  <1>10. CASE UpgradableDowngrade(t) \/ WriteDowngrade(t)
    <2>1. CASE pc[t] \in {"up_drop", "wr_drop"}
      <3>1. pc' = [pc EXCEPT ![t] = "read"]
        BY <1>10, <2>1 DEF UpgradableDowngrade, WriteDowngrade, DowngradeCount, DowngradeBackout, Goto
      <3>2. t \in Upgraders \union Writers /\ Readers' = Readers \union {t}
            /\ Upgraders' = Upgraders \ {t} /\ Writers' = Writers \ {t}
        BY <1>1, <2>1, <3>1 DEF Readers, Upgraders, Writers
      <3>3. Abs!Downgrade(t)
        BY <3>2 DEF Abs!Downgrade
      <3> QED
        BY <3>3
    <2>2. CASE pc[t] \notin {"up_drop", "wr_drop"}
      <3>1. PICK l \in PCs :
              /\ pc' = [pc EXCEPT ![t] = l]
              /\ \/ {pc[t], l} \subseteq {"upgradable", "up_backout", "up_drop"}
                 \/ {pc[t], l} \subseteq {"write", "wr_backout", "wr_drop"}
        BY <1>10, <2>2
           DEF UpgradableDowngrade, WriteDowngrade, DowngradeCount, DowngradeBackout, Goto, PCs
      <3>2. Readers' = Readers /\ Upgraders' = Upgraders /\ Writers' = Writers
        BY <1>1, <3>1 DEF Readers, Upgraders, Writers
      <3> QED
        BY <3>2
    <2> QED
      BY <2>1, <2>2
  <1> QED
    BY <1>2, <1>3, <1>4, <1>5, <1>6, <1>7, <1>8, <1>9, <1>10 DEF KernelStep

\* The word-based lock implements the abstract reader-writer lock for every
\* number of users: its clients may reason with RwLockAbs alone.
THEOREM Refinement == Spec => ImplementsRwLock
  <1>1. Init => Abs!AbsInit
    BY DEF Init, Abs!AbsInit, Readers, Upgraders, Writers
  <1>2. IInv /\ [Next]_vars => [Abs!AbsNext]_(Abs!absVars)
    <2>1. ASSUME IInv, Next PROVE [Abs!AbsNext]_(Abs!absVars)
      BY <2>1, StepRefines DEF Next
    <2>2. ASSUME UNCHANGED vars PROVE UNCHANGED Abs!absVars
      BY <2>2 DEF vars, Abs!absVars, Readers, Upgraders, Writers
    <2> QED
      BY <2>1, <2>2
  <1> QED
    BY <1>1, <1>2, Inductive, PTL DEF Spec, ImplementsRwLock, Abs!AbsSpec

------------------------------------------------------------------------------
(* The robust list of a thread that exits.                                  *)

\* handle_futex_death has a word to work on, and what it is about to write names nobody.
Working(p) ==
    /\ r_pc[p] \in {"test", "write", "wake"} => at[p] \in Locks
    /\ r_pc[p] = "write" => mval[p].tid = None

\* Where the words that name p are: in its list until it has read them; the one it is at
\* was read when it still named p, and is written before p goes on.
Owned(p, l) ==
    mem[l].tid = p =>
        /\ r_pc[p] \in {"user", "clear", "next", "wake"} => l \in todo[p]
        /\ r_pc[p] = "test" => l \in todo[p] \/ (l = at[p] /\ uval[p].tid = p)
        /\ r_pc[p] = "write" => l \in todo[p] \/ l = at[p]
        /\ r_pc[p] = "dead" => cut[p]

RobustInv == R!TypeOK /\ \A p \in Procs : Working(p) /\ \A l \in Locks : Owned(p, l)

\* Every variable keeps its type in every step.
LEMMA RobustTypeStep == RobustInv /\ [R!Next]_(R!vars) => R!TypeOK'
<1> SUFFICES ASSUME RobustInv, [R!Next]_(R!vars) PROVE R!TypeOK'
  OBVIOUS
<1> USE DEF RobustInv, R!TypeOK, R!Words, R!Word, R!Zero, R!locals, R!Goto
<1>1. ASSUME NEW p \in Procs, NEW l \in Locks, R!Acquire(p, l) PROVE R!TypeOK'
  BY <1>1 DEF R!Acquire
<1>2. ASSUME NEW p \in Procs, NEW l \in Locks, R!Contend(p, l) PROVE R!TypeOK'
  <2>1. mem' \in [Locks -> R!Words]
    <3>1. mem[l] \in R!Words
      OBVIOUS
    <3>2. [mem[l] EXCEPT !.waiters = TRUE] \in R!Words
      BY ZenonT(40), <3>1
    <3>3. mem' = [mem EXCEPT ![l] = [mem[l] EXCEPT !.waiters = TRUE]]
      BY <1>2 DEF R!Contend
    <3> QED
      BY <3>2, <3>3
  <2> QED
    BY <1>2, <2>1 DEF R!Contend
<1>3. ASSUME NEW p \in Procs, NEW l \in Locks, R!Sleep(p, l) PROVE R!TypeOK'
  BY <1>3 DEF R!Sleep
<1>4. ASSUME NEW p \in Procs, NEW l \in Locks, R!Unlock(p, l) PROVE R!TypeOK'
  BY ZenonT(40), <1>4 DEF R!Unlock, R!WakeOne
<1>5. ASSUME NEW p \in Procs, NEW j \in Procs, R!Join(p, j) PROVE R!TypeOK'
  BY <1>5 DEF R!Join
<1>6. ASSUME NEW p \in Procs, R!Exit(p) PROVE R!TypeOK'
  BY <1>6 DEF R!Exit
<1>7. ASSUME NEW p \in Procs, R!Clear(p) PROVE R!TypeOK'
  BY <1>7 DEF R!Clear
<1>8. ASSUME NEW p \in Procs, R!DeathRead(p) PROVE R!TypeOK'
  <2>1. CASE UNCHANGED <<at, uval, todo>>
    <3>1. /\ UNCHANGED <<mem, tid, bucket, sleep, joiner, mval, cut>>
          /\ \E to \in {"test", "dead"} : r_pc' = [r_pc EXCEPT ![p] = to]
      BY ZenonT(40), <1>8 DEF R!DeathRead
    <3> QED
      BY ZenonT(40), <2>1, <3>1
  <2>2. ASSUME NEW l \in todo[p],
               at' = [at EXCEPT ![p] = l], uval' = [uval EXCEPT ![p] = mem[l]],
               todo' = [todo EXCEPT ![p] = @ \ {l}]
        PROVE R!TypeOK'
    <3>1. l \in Locks /\ mem[l] \in R!Words
      BY <2>2
    <3>2. todo[p] \ {l} \in SUBSET Locks
      OBVIOUS
    <3> QED
      BY ZenonT(40), <1>8, <2>2, <3>1, <3>2 DEF R!DeathRead
  <2> QED
    BY ZenonT(40), <1>8, <2>1, <2>2 DEF R!DeathRead
<1>9. ASSUME NEW p \in Procs, R!DeathTest(p) PROVE R!TypeOK'
  <2>1. at[p] \in Locks
    BY <1>9 DEF R!DeathTest, Working
  <2>2. mem[at[p]] \in R!Words /\ R!Marked(p) \in R!Words
    BY <2>1 DEF R!Marked
  <2>3. \/ UNCHANGED <<uval, mval>>
        \/ /\ uval' = [uval EXCEPT ![p] = mem[at[p]]]
           /\ mval' = [mval EXCEPT ![p] = R!Marked(p)]
    BY <1>9 DEF R!DeathTest
  <2>4. uval' \in [Procs -> R!Words] /\ mval' \in [Procs -> R!Words]
    <3> HIDE DEF R!Words
    <3> QED
      BY <2>2, <2>3
  <2> QED
    BY <1>9, <2>4 DEF R!DeathTest
<1>10. ASSUME NEW p \in Procs, R!DeathWrite(p) PROVE R!TypeOK'
  BY ZenonT(40), <1>10 DEF R!DeathWrite
<1>11. ASSUME NEW p \in Procs, R!DeathWake(p) PROVE R!TypeOK'
  BY ZenonT(30), <1>11 DEF R!DeathWake, R!WakeOne
<1>12. ASSUME UNCHANGED R!vars PROVE R!TypeOK'
  BY <1>12 DEF R!vars
<1> QED
  BY ZenonT(40), <1>1, <1>2, <1>3, <1>4, <1>5, <1>6, <1>7, <1>8, <1>9, <1>10, <1>11, <1>12 DEF R!Next, R!Step

\* No step but p's own Acquire makes a word name p, and handle_futex_death leaves no word
\* behind that does.
LEMMA OwnedStep == RobustInv /\ [R!Next]_(R!vars) => RobustInv'
<1> SUFFICES ASSUME RobustInv, [R!Next]_(R!vars), NEW q \in Procs PROVE Working(q)' /\ \A l \in Locks : Owned(q, l)'
  BY RobustTypeStep DEF RobustInv
<1>0. Working(q) /\ \A l \in Locks : Owned(q, l)
  BY ZenonT(40) DEF RobustInv
<1>t. /\ mem \in [Locks -> R!Words] /\ DOMAIN r_pc = Procs /\ todo \in [Procs -> SUBSET Locks]
      /\ at \in [Procs -> Locks \cup {None}] /\ uval \in [Procs -> R!Words]
      /\ mval \in [Procs -> R!Words] /\ DOMAIN cut = Procs
  BY ZenonT(40) DEF RobustInv, R!TypeOK
<1> USE NoThread, <1>0, <1>t DEF R!Words, Working, Owned, R!locals, R!Goto
<1>1. ASSUME NEW p \in Procs, NEW l \in Locks, R!Acquire(p, l)
      PROVE Working(q)' /\ \A k \in Locks : Owned(q, k)'
  BY ZenonT(40), <1>1 DEF R!Acquire, R!Awake, R!Word
<1>2. ASSUME NEW p \in Procs, NEW l \in Locks, R!Contend(p, l)
      PROVE Working(q)' /\ \A k \in Locks : Owned(q, k)'
  <2>1. \A k \in Locks : mem'[k].tid = mem[k].tid
    BY <1>2 DEF R!Contend
  <2> QED
    BY <1>2, <2>1 DEF R!Contend
<1>3. ASSUME NEW p \in Procs, NEW l \in Locks, R!Sleep(p, l)
      PROVE Working(q)' /\ \A k \in Locks : Owned(q, k)'
  BY ZenonT(40), <1>3 DEF R!Sleep
<1>4. ASSUME NEW p \in Procs, NEW l \in Locks, R!Unlock(p, l)
      PROVE Working(q)' /\ \A k \in Locks : Owned(q, k)'
  BY ZenonT(40), <1>4 DEF R!Unlock, R!Awake, R!Zero, R!Word
<1>5. ASSUME NEW p \in Procs, NEW j \in Procs, R!Join(p, j)
      PROVE Working(q)' /\ \A k \in Locks : Owned(q, k)'
  BY <1>5 DEF R!Join
<1>6. ASSUME NEW p \in Procs, R!Exit(p)
      PROVE Working(q)' /\ \A k \in Locks : Owned(q, k)'
  BY <1>6 DEF R!Exit
<1>7. ASSUME NEW p \in Procs, R!Clear(p)
      PROVE Working(q)' /\ \A k \in Locks : Owned(q, k)'
  BY <1>7 DEF R!Clear
<1>8. ASSUME NEW p \in Procs, R!DeathRead(p)
      PROVE Working(q)' /\ \A k \in Locks : Owned(q, k)'
  BY <1>8 DEF R!DeathRead
<1>9. ASSUME NEW p \in Procs, R!DeathTest(p)
      PROVE Working(q)' /\ \A k \in Locks : Owned(q, k)'
  BY <1>9 DEF R!DeathTest, R!Marked, R!Word
<1>10. ASSUME NEW p \in Procs, R!DeathWrite(p)
       PROVE Working(q)' /\ \A k \in Locks : Owned(q, k)'
  <2>1. at[p] \in Locks /\ mval[p].tid = None
    BY ZenonT(40), <1>10 DEF R!DeathWrite, RobustInv
  <2> QED
    BY <1>10, <2>1 DEF R!DeathWrite
<1>11. ASSUME NEW p \in Procs, R!DeathWake(p)
       PROVE Working(q)' /\ \A k \in Locks : Owned(q, k)'
  BY <1>11 DEF R!DeathWake
<1>12. ASSUME UNCHANGED R!vars
       PROVE Working(q)' /\ \A k \in Locks : Owned(q, k)'
  BY <1>12 DEF R!vars
<1> QED
  BY ZenonT(40), <1>1, <1>2, <1>3, <1>4, <1>5, <1>6, <1>7, <1>8, <1>9, <1>10, <1>11, <1>12 DEF R!Next, R!Step

\* exit_robust_list (libs/futex/futex.rs): a thread whose walk was not given up leaves no
\* word that names it, whatever the other threads did to the words meanwhile.
THEOREM WalkedListIsReleased == R!Spec => []DeadOwnsNothing
<1>1. R!Init => RobustInv
  BY NoThread DEF R!Init, RobustInv, R!TypeOK, Working, Owned, R!Words, R!Word, R!Zero
<1>2. RobustInv /\ [R!Next]_(R!vars) => RobustInv'
  BY ZenonT(40), OwnedStep
<1>3. RobustInv => DeadOwnsNothing
  BY ZenonT(40) DEF RobustInv, Owned, DeadOwnsNothing, R!DeadOwnsNothing
<1> QED
  BY <1>1, <1>2, <1>3, PTL DEF R!Spec
==============================================================================
