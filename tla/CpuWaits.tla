------------------------------ MODULE CpuWaits ------------------------------
(***************************************************************************)
(* The lock of a run queue and a completion, each with variables of its    *)
(* own, for the module that checks them beside kernel threads and for the  *)
(* one that proves them right.                                             *)
(***************************************************************************)
EXTENDS Naturals

CONSTANTS
    Cpus, Nobody,                                         \* RqLock
    Waiters, Timed, CompleteAll, MaxWaits, MaxCompletes   \* Completion

ASSUME CompleteAllIsNat == CompleteAll \in Nat

VARIABLES
    locked, lock_on_who, pc,
    done, wait_queue, c_pc, awake, sigs, timers, waits, taken, given

rqlock == <<locked, lock_on_who, pc>>

completion == <<done, wait_queue, c_pc, awake, sigs, timers, waits, taken, given>>

L == INSTANCE RqLock

C == INSTANCE Completion WITH pc <- c_pc

\* self_lock returns.
SelfLockReturns == L!SelfLockReturns

\* A completion is taken once (do_wait_for_common).
DoneAccounted == C!DoneAccounted

\* A wait for a completion with a timeout ends (schedule_timeout).
TimedWaitReturns == C!TimedWaitReturns
=============================================================================
