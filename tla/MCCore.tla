-------------------------------- MODULE MCCore --------------------------------
(***************************************************************************)
(* The scheduler, futexes and the page allocator, each with its own        *)
(* variables.  In a behaviour one of them runs, the one named by part; the *)
(* others stay in their initial states.                                    *)
(***************************************************************************)
EXTENDS Sched, TLC

CONSTANTS
    Threads, Addrs, Bitsets, ANY, MaxWaits, MaxSignals,       \* Futex
    Areas, ORDERS, BUDDY_ENTRIES                              \* Buddy

\* eleven pages that begin off every alignment
AreasDef == {<<3, 11>>}

VARIABLES
    part,
    data, guard, f_pc, f_state, q, arg, timer, firing, signals, moved, woken, ret,
    heap, used, failed

futex == <<data, guard, f_pc, f_state, q, arg, timer, firing, signals, moved, woken, ret>>
buddy == <<heap, used, failed>>

F == INSTANCE Futex WITH Procs <- Threads, pc <- f_pc, state <- f_state

P == INSTANCE Buddy

\* of the initial states of Sched one is enough where it does not run
MCInit ==
    /\ part \in {"sched", "futex", "buddy"}
    /\ Init /\ F!Init /\ P!Init
    /\ part # "sched" => online = {CHOOSE c \in Cpus : TRUE}

\* Two CPUs that run processes can wait for each other in wakeup, and threads that nobody
\* wakes sleep for good; an allocator that has failed an assertion has stopped.
AtRest == UNCHANGED <<part, vars, futex, buddy>>

MCNext ==
    \/ part = "sched" /\ Next /\ UNCHANGED <<part, futex, buddy>>
    \/ part = "futex" /\ F!Next /\ UNCHANGED <<part, vars, buddy>>
    \/ part = "buddy" /\ P!Next /\ UNCHANGED <<part, vars, futex>>
    \/ AtRest

MCSpec == MCInit /\ [][MCNext]_<<part, vars, futex, buddy>>

Symmetry == Permutations(Threads) \cup Permutations(Addrs)

------------------------------------------------------------------------------
(* The properties of the instances, as their modules state them.            *)

\* A thread asleep on a futex is where futex_wake looks for it.
FutexSleeperListed == part = "futex" => F!FutexSleeperListed

\* A wake that took a waiter off the chain is not reported as a timeout (futex_wait).
TimeoutTakesNoWake == F!TimeoutTakesNoWake

\* Every page has one owner (BuddyAllocator).
PagesOwnedOnce == part = "buddy" => P!PagesOwnedOnce

\* An allocation fails only if no free block is large enough (pop_front).
FailsOnlyWhenFull == P!FailsOnlyWhenFull
===============================================================================
