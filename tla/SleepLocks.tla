------------------------------ MODULE SleepLocks ------------------------------
(***************************************************************************)
(* The two things in the kernel that processes sleep on, the sleeping lock *)
(* and the wait queue, with variables of their own.                        *)
(***************************************************************************)
CONSTANTS
    Procs, None,                              \* Mutex
    Waiters, Signalled, Wakers, Modes, MaxLen \* WaitQueue

\* None stands for no process: an unlocked queue, an empty hand.
ASSUME NoneIsNobody == None \notin Waiters /\ None \notin Wakers

VARIABLES
    is_locked, m_wait_list, m_state, m_pc, m_target,
    wait_list, dead, qlock, cond, raised, state, slock, sig, sender, fatal, q_pc,
    event, wpc, mode, target, kept

mutex == <<is_locked, m_wait_list, m_state, m_pc, m_target>>

waitqueue ==
    <<wait_list, dead, qlock, cond, raised, state, slock, sig, sender, fatal, q_pc,
      event, wpc, mode, target, kept>>

M == INSTANCE Mutex WITH
         wait_list <- m_wait_list, state <- m_state, pc <- m_pc, target <- m_target

Q == INSTANCE WaitQueue WITH pc <- q_pc

------------------------------------------------------------------------------
(* The properties of the instances, as their modules state them.            *)

\* One process at a time holds a Mutex (libs/mutex.rs).
MutualExclusion == M!MutualExclusion

\* A process that sleeps on a wait queue is on its list (libs/wait_queue.rs).
SleeperIsListed == Q!SleeperIsListed

\* Nobody sleeps through the event it waits for (wq_wait_event_interruptible!).
NoSleepThroughEvent == Q!NoSleepThroughEvent

\* A queue that is marked dead is left by everybody (InnerWaitQueue::dead).
DeadQueueDrains == Q!DeadQueueDrains

\* A fatal signal reaches a sleeper (signal_wake_up).
FatalSignalReaches == Q!FatalSignalReaches
=============================================================================
