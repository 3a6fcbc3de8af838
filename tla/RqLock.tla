-------------------------------- MODULE RqLock --------------------------------
(***************************************************************************)
(* CpuRunQueue::self_lock (sched/mod.rs): a spin lock that the CPU already *)
(* holding it may pass through again, recognised by lock_on_who.           *)
(*                                                                         *)
(* The lock word and the owner word are two atomics, read one after the    *)
(* other and written one after the other; lock_on_who keeps its value when *)
(* the guard is dropped.  The callers have interrupts off, so a CPU runs   *)
(* one call at a time; a call made while the CPU is inside is a nested one.*)
(***************************************************************************)
EXTENDS Naturals, FiniteSets

CONSTANTS
    Cpus,     \* the processors that use this run queue
    Nobody    \* lock_on_who of a new queue: no processor (usize::MAX)

VARIABLES
    locked,        \* CpuRunQueue.lock
    lock_on_who,   \* CpuRunQueue.lock_on_who
    pc             \* where each CPU is in self_lock or in its critical section

vars == <<locked, lock_on_who, pc>>

PCs == {"out",          \* not using the run queue
        "check",        \* read is_locked() as true, next reads lock_on_who
        "spin",         \* in SpinLock::lock_irqsave
        "store",        \* has the lock, about to store lock_on_who
        "guard",        \* inside with Some(guard)
        "bare",         \* inside with None
        "again",        \* inside with a guard, nested call before its check
        "both",         \* inside with a guard and, nested, with None
        "self_spin"}    \* inside with a guard and spinning for the lock

TypeOK ==
    /\ locked \in BOOLEAN
    /\ lock_on_who \in Cpus \cup {Nobody}
    /\ pc \in [Cpus -> PCs]

Init ==
    /\ locked = FALSE
    /\ lock_on_who = Nobody
    /\ pc = [c \in Cpus |-> "out"]

Goto(c, from, to) == pc[c] = from /\ pc' = [pc EXCEPT ![c] = to]

\* self.lock.is_locked()
IsLocked(c) ==
    /\ Goto(c, "out", IF locked THEN "check" ELSE "spin")
    /\ UNCHANGED <<locked, lock_on_who>>

\* smp_get_processor_id() == self.lock_on_who.load()
OnWho(c) ==
    /\ Goto(c, "check", IF lock_on_who = c THEN "bare" ELSE "spin")
    /\ UNCHANGED <<locked, lock_on_who>>

\* the compare_exchange of lock_irqsave that succeeds
Lock(c) ==
    /\ Goto(c, "spin", "store")
    /\ ~locked
    /\ locked' = TRUE
    /\ UNCHANGED lock_on_who

StoreWho(c) ==
    /\ Goto(c, "store", "guard")
    /\ lock_on_who' = c
    /\ UNCHANGED locked

\* a second self_lock by the CPU that has the guard; the word it reads is set
Nested(c) ==
    /\ locked
    /\ Goto(c, "guard", "again")
    /\ UNCHANGED <<locked, lock_on_who>>

NestedOnWho(c) ==
    /\ Goto(c, "again", IF lock_on_who = c THEN "both" ELSE "self_spin")
    /\ UNCHANGED <<locked, lock_on_who>>

NestedDrop(c) ==
    /\ Goto(c, "both", "guard")
    /\ UNCHANGED <<locked, lock_on_who>>

\* dropping Some(guard) unlocks, dropping None does nothing
DropBare(c) ==
    /\ Goto(c, "bare", "out")
    /\ UNCHANGED <<locked, lock_on_who>>

\* Fault: the guard is leaked.
DropGuardKeepingLock(c) ==
    /\ Goto(c, "guard", "out")
    /\ UNCHANGED <<locked, lock_on_who>>

DropGuard(c) ==
    /\ Goto(c, "guard", "out")
    /\ locked' = FALSE
    /\ UNCHANGED lock_on_who

Step(c) ==
    \/ IsLocked(c) \/ OnWho(c) \/ Lock(c) \/ StoreWho(c)
    \/ Nested(c) \/ NestedOnWho(c) \/ NestedDrop(c)
    \/ DropBare(c) \/ DropGuard(c)

Next == \E c \in Cpus : Step(c)

\* A CPU inside self_lock or inside its critical section has interrupts off and
\* keeps executing.  A spinning CPU that finds the word free again and again
\* gets it in the end: that is strong fairness of its exchange.
Fairness ==
    \A c \in Cpus :
        /\ WF_vars(OnWho(c)) /\ SF_vars(Lock(c)) /\ WF_vars(StoreWho(c))
        /\ WF_vars(NestedOnWho(c)) /\ WF_vars(NestedDrop(c))
        /\ WF_vars(DropBare(c)) /\ SF_vars(DropGuard(c))

Spec == Init /\ [][Next]_vars
FairSpec == Spec /\ Fairness

------------------------------------------------------------------------------
HasGuard(c) == pc[c] \in {"store", "guard", "again", "both", "self_spin"}
Inside(c) == pc[c] \in {"guard", "bare", "again", "both"}

\* The lock word is set exactly while some CPU has the guard, and one CPU only:
\* the drop of a nested None never releases somebody's lock.
GuardIsTheLock ==
    /\ locked <=> \E c \in Cpus : HasGuard(c)
    /\ \A c, d \in Cpus : HasGuard(c) /\ HasGuard(d) => c = d

\* A CPU that has the guard recognises itself: a nested self_lock never spins
\* on the lock its own CPU holds.
NeverSpinsOnItself == \A c \in Cpus : pc[c] # "self_spin"

\* Every CPU that asks for the run queue gets in.
SelfLockReturns == \A c \in Cpus : pc[c] \in {"check", "spin"} ~> Inside(c)

==============================================================================
