------------------------------- MODULE RwLock -------------------------------
(***************************************************************************)
(* The spinning reader-writer lock of kernel/src/libs/rwlock.rs.           *)
(*                                                                         *)
(* The lock is one atomic word: bit 0 is WRITER, bit 1 is UPGRADED, the    *)
(* rest counts readers.  Every operation is a few atomic instructions on   *)
(* it; each action below is one such instruction with the thread-local     *)
(* work around it.  A user holds at most one guard of the lock: a thread   *)
(* with two read guards is two users.                                      *)
(***************************************************************************)
EXTENDS Integers, FiniteSets

CONSTANTS Users,       \* the uses of the lock, each with one guard at a time
          WORD,        \* number of values of the lock word (2^32 in the code)
          COUNT        \* number of values of preempt_count (2^64 in the code)

ASSUME RwLockAssumption ==
    /\ IsFiniteSet(Users)
    /\ WORD \in Nat
    /\ COUNT \in Nat \ {0, 1}
    /\ 4 * Cardinality(Users) + 4 <= WORD  \* fewer than 2^30 - 1 users

VARIABLES lock,        \* RwLock.lock
          pc,          \* the guard each user holds, or where its operation is
          preempt      \* the user's contribution to its pcb's preempt_count

vars == <<lock, pc, preempt>>

WRITER == 1

UPGRADED == 2

READER == 4

MAX_READERS == (WORD - 1) \div 8

(* lock & (WRITER | UPGRADED) and lock & UPGRADED, of a word v             *)
Flags(v) == v % 4

UpgradedBit(v) == Flags(v) >= UPGRADED

(* "backout": a failed read attempt whose increment is still in the word.  *)
(* "up_*" and "wr_*": inside downgrade() of the guard named.               *)
PCs == {"idle", "backout", "read", "upgradable", "write",
        "up_backout", "up_drop", "wr_backout", "wr_drop"}

Init ==
    /\ lock = 0
    /\ pc = [t \in Users |-> "idle"]
    /\ preempt = [t \in Users |-> 0]

Goto(t, l) == pc' = [pc EXCEPT ![t] = l]

FetchAdd(n) == lock' = (lock + n) % WORD

FetchSub(n) == lock' = (lock + WORD - n) % WORD

PreemptDisable(t) == preempt' = [preempt EXCEPT ![t] = (@ + 1) % COUNT]

PreemptEnable(t) == preempt' = [preempt EXCEPT ![t] = (@ + COUNT - 1) % COUNT]

-----------------------------------------------------------------------------
(* current_reader: the increment is taken first and the limit checked on   *)
(* the value it replaced.                                                  *)
TooManyReaders(v) == v > MAX_READERS * READER

TryRead(t) ==
    /\ pc[t] = "idle"
    /\ FetchAdd(READER)
    /\ PreemptDisable(t)
    /\ Goto(t, IF TooManyReaders(lock) \/ Flags(lock) # 0
               THEN "backout" ELSE "read")

TryReadBackout(t) ==
    /\ pc[t] = "backout"
    /\ FetchSub(READER)
    /\ PreemptEnable(t)
    /\ Goto(t, "idle")

(* A compare_exchange that fails changes nothing.                          *)
TryWrite(t) ==
    /\ pc[t] = "idle"
    /\ lock = 0
    /\ lock' = WRITER
    /\ PreemptDisable(t)
    /\ Goto(t, "write")

(* fetch_or(UPGRADED) is not undone when the attempt fails.                *)
TryUpgradeableRead(t) ==
    /\ pc[t] = "idle"
    /\ lock' = IF UpgradedBit(lock) THEN lock ELSE lock + UPGRADED
    /\ IF Flags(lock) = 0
       THEN Goto(t, "upgradable") /\ PreemptDisable(t)
       ELSE UNCHANGED <<pc, preempt>>

\* Fault: the upgrade does not wait for the readers to leave.
TryUpgradeOverReaders(t) ==
    /\ pc[t] = "upgradable"
    /\ lock' = lock - UPGRADED + WRITER
    /\ Goto(t, "write")
    /\ UNCHANGED preempt

TryUpgrade(t) ==
    /\ pc[t] = "upgradable"
    /\ lock = UPGRADED
    /\ lock' = WRITER
    /\ Goto(t, "write")
    /\ UNCHANGED preempt

-----------------------------------------------------------------------------
(* downgrade() of an upgradable or a write guard: current_reader, retried  *)
(* until it succeeds, and then the drop of the old guard.                  *)
DowngradeCount(t, from, backout, drop) ==
    /\ pc[t] = from
    /\ FetchAdd(READER)
    /\ Goto(t, IF TooManyReaders(lock) THEN backout ELSE drop)
    /\ UNCHANGED preempt

DowngradeBackout(t, backout, from) ==
    /\ pc[t] = backout
    /\ FetchSub(READER)
    /\ Goto(t, from)
    /\ UNCHANGED preempt

UpgradableDowngrade(t) ==
    \/ DowngradeCount(t, "upgradable", "up_backout", "up_drop")
    \/ DowngradeBackout(t, "up_backout", "upgradable")
    \/ /\ pc[t] = "up_drop"
       /\ FetchSub(UPGRADED)
       /\ PreemptEnable(t)
       /\ Goto(t, "read")

WriteDowngrade(t) ==
    \/ DowngradeCount(t, "write", "wr_backout", "wr_drop")
    \/ DowngradeBackout(t, "wr_backout", "write")
    \/ /\ pc[t] = "wr_drop"
       /\ lock' = lock - Flags(lock)
       /\ PreemptEnable(t)
       /\ Goto(t, "read")

DropRead(t) ==
    /\ pc[t] = "read"
    /\ FetchSub(READER)
    /\ PreemptEnable(t)
    /\ Goto(t, "idle")

DropUpgradable(t) ==
    /\ pc[t] = "upgradable"
    /\ FetchSub(UPGRADED)
    /\ PreemptEnable(t)
    /\ Goto(t, "idle")

\* Fault: the writer clears its own bit only.
DropWriteKeepingUpgraded(t) ==
    /\ pc[t] = "write"
    /\ FetchSub(WRITER)
    /\ PreemptEnable(t)
    /\ Goto(t, "idle")

(* fetch_and(!(WRITER | UPGRADED)) also clears an UPGRADED bit that a      *)
(* failed try_upgradeable_read left behind.                                *)
DropWrite(t) ==
    /\ pc[t] = "write"
    /\ lock' = lock - Flags(lock)
    /\ PreemptEnable(t)
    /\ Goto(t, "idle")

-----------------------------------------------------------------------------
(* The operations the rest of the kernel calls.                            *)
KernelStep(t) ==
    \/ TryRead(t) \/ TryReadBackout(t) \/ DropRead(t)
    \/ TryWrite(t) \/ DropWrite(t)
    \/ TryUpgradeableRead(t) \/ TryUpgrade(t) \/ DropUpgradable(t)

(* The public interface, without downgrade_to_upgradeable, which nothing   *)
(* calls.                                                                  *)
Next == \E t \in Users : KernelStep(t) \/ UpgradableDowngrade(t) \/ WriteDowngrade(t)

Spec == Init /\ [][Next]_vars

-----------------------------------------------------------------------------
Readers == {t \in Users : pc[t] = "read"}

Upgraders == {t \in Users : pc[t] \in {"upgradable", "up_backout", "up_drop"}}

Writers == {t \in Users : pc[t] \in {"write", "wr_backout", "wr_drop"}}

(* The users whose increment is in the reader count of the word.           *)
Counted == {t \in Users : pc[t] \in {"backout", "read", "up_backout", "up_drop",
                                     "wr_backout", "wr_drop"}}

\* The word is an unsigned integer of its width, the count one of its own.
TypeOK ==
    /\ lock \in 0 .. WORD - 1
    /\ pc \in [Users -> PCs]
    /\ preempt \in [Users -> 0 .. COUNT - 1]

\* What the guards may assume of each other (docs/kernel/locking/rwlock.md,
\* 2.2): a write guard is the only guard, and there is one upgradable guard
\* at most.  The guards dereference the data on the strength of this.
Exclusion ==
    /\ \A t \in Writers : Readers = {} /\ Upgraders = {} /\ Writers = {t}
    /\ \A t, u \in Upgraders : t = u

\* The word never disagrees with the guards that exist: its reader count is
\* the number of read guards plus the attempts still to be backed out, WRITER
\* is set exactly while a write guard exists, and UPGRADED is set while an
\* upgradable guard exists and otherwise only beside a write guard, whose drop
\* removes it.  So a lock nobody uses is 0 again and can be written.
WordAccounting ==
    /\ lock = READER * Cardinality(Counted) + Flags(lock)
    /\ Flags(lock) \in {1, 3} <=> Writers # {}
    /\ Upgraders # {} => Flags(lock) = UPGRADED
    /\ Flags(lock) = UPGRADED => Upgraders # {}

\* While one user keeps its upgradable guard no user obtains a read guard,
\* whatever failed attempts come and go (rwlock.md 2.2), so the readers an
\* upgrade() waits for can only become fewer.
UpgraderAdmitsNoReader ==
    [][Upgraders # {} /\ Upgraders' = Upgraders => Readers' \subseteq Readers]_vars

Abs == INSTANCE RwLockAbs WITH
           readers <- Readers, upgraders <- Upgraders, writers <- Writers

\* The word-based lock implements the lock its documentation describes: every
\* step of it is an exchange of guards RwLockAbs allows, or invisible.
ImplementsRwLock == Abs!AbsSpec

=============================================================================
