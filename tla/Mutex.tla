-------------------------------- MODULE Mutex --------------------------------
(***************************************************************************)
(* The sleeping lock of libs/mutex.rs.                                     *)
(*                                                                         *)
(* is_locked and wait_list are protected by a spin lock; each section      *)
(* under it is one step.  Going to sleep and waking somebody happen after  *)
(* it has been dropped, so they are steps of their own.  A sleeper is      *)
(* interruptible: a signal makes it Runnable at any time, and it stays in  *)
(* wait_list.                                                              *)
(***************************************************************************)
EXTENDS Naturals, Sequences, FiniteSets

CONSTANTS
    Procs,    \* the processes that use the mutex
    None      \* no process, not in Procs

VARIABLES
    is_locked,   \* MutexInner.is_locked
    wait_list,   \* MutexInner.wait_list
    state,       \* the state of each process
    pc,          \* where each process is
    target       \* the process an unlock has popped and is going to wake

vars == <<is_locked, wait_list, state, pc, target>>

PCs == {"out",      \* not using the mutex
        "lock",     \* at the top of the loop of lock()
        "window",   \* in wait_list, inner dropped, not yet marked
        "asleep",   \* in schedule()
        "hold",     \* has the guard
        "wake"}     \* in unlock(), inner dropped

TypeOK ==
    /\ is_locked \in BOOLEAN
    /\ wait_list \in Seq(Procs) /\ Len(wait_list) <= Cardinality(Procs)
    /\ state \in [Procs -> {"Runnable", "Blocked"}]
    /\ pc \in [Procs -> PCs]
    /\ target \in [Procs -> Procs \cup {None}]

Init ==
    /\ is_locked = FALSE
    /\ wait_list = <<>>
    /\ state = [p \in Procs |-> "Runnable"]
    /\ pc = [p \in Procs |-> "out"]
    /\ target = [p \in Procs |-> None]

Goto(p, from, to) == pc[p] = from /\ pc' = [pc EXCEPT ![p] = to]

\* check_pid_in_wait_list
InWaitList(p) == \E i \in 1 .. Len(wait_list) : wait_list[i] = p

Begin(p) ==
    /\ Goto(p, "out", "lock")
    /\ UNCHANGED <<is_locked, wait_list, state, target>>

\* lock(): the mutex is free
Acquire(p) ==
    /\ Goto(p, "lock", "hold") /\ ~is_locked
    /\ is_locked' = TRUE
    /\ UNCHANGED <<wait_list, state, target>>

\* lock(): it is not; join the list once and leave the spin lock
Enqueue(p) ==
    /\ Goto(p, "lock", "window") /\ is_locked
    /\ wait_list' = IF InWaitList(p) THEN wait_list ELSE Append(wait_list, p)
    /\ UNCHANGED <<is_locked, state, target>>

\* __sleep: mark_sleep(true), then schedule()
Sleep(p) ==
    /\ Goto(p, "window", "asleep")
    /\ state' = [state EXCEPT ![p] = "Blocked"]
    /\ UNCHANGED <<is_locked, wait_list, target>>

\* Fault: the woken process takes the mutex to be its own.
ResumeHolding(p) ==
    /\ state[p] = "Runnable"
    /\ Goto(p, "asleep", "hold")
    /\ UNCHANGED <<is_locked, wait_list, state, target>>

\* schedule() returns and the loop starts over
Resume(p) ==
    /\ state[p] = "Runnable"
    /\ Goto(p, "asleep", "lock")
    /\ UNCHANGED <<is_locked, wait_list, state, target>>

TryLock(p) ==
    /\ Goto(p, "out", "hold") /\ ~is_locked
    /\ is_locked' = TRUE
    /\ UNCHANGED <<wait_list, state, target>>

\* unlock() with nobody waiting
UnlockAlone(p) ==
    /\ Goto(p, "hold", "out") /\ wait_list = <<>>
    /\ is_locked' = FALSE
    /\ UNCHANGED <<wait_list, state, target>>

\* unlock() with somebody waiting: free the mutex, pop the first
UnlockPop(p) ==
    /\ Goto(p, "hold", "wake") /\ wait_list # <<>>
    /\ is_locked' = FALSE
    /\ target' = [target EXCEPT ![p] = Head(wait_list)]
    /\ wait_list' = Tail(wait_list)
    /\ UNCHANGED state

\* ProcessManager::wakeup, which does nothing to a process that is not blocked
Wakeup(p) ==
    /\ Goto(p, "wake", "out")
    /\ state' = [state EXCEPT ![target[p]] = "Runnable"]
    /\ target' = [target EXCEPT ![p] = None]
    /\ UNCHANGED <<is_locked, wait_list>>

\* a signal for a sleeper
Interrupt(p) ==
    /\ state[p] = "Blocked"
    /\ state' = [state EXCEPT ![p] = "Runnable"]
    /\ UNCHANGED <<is_locked, wait_list, pc, target>>

Step(p) ==
    \/ Begin(p) \/ Acquire(p) \/ Enqueue(p) \/ Sleep(p) \/ Resume(p)
    \/ TryLock(p) \/ UnlockAlone(p) \/ UnlockPop(p) \/ Wakeup(p)
    \/ Interrupt(p)

Next == \E p \in Procs : Step(p)

Spec == Init /\ [][Next]_vars

------------------------------------------------------------------------------
Holders == {p \in Procs : pc[p] = "hold"}

\* "At any time only one task can hold the mutex" (docs/kernel/locking/mutex.md):
\* there is a guard exactly while is_locked is set, and never two, whoever is
\* woken, barges in or is interrupted.  So the assert of unlock() never fires.
MutualExclusion ==
    /\ \A p, q \in Holders : p = q
    /\ is_locked <=> Holders # {}

\* A process is in wait_list once at most, however often it was interrupted and
\* went back to sleep, so one unlock is never spent on a second copy of it.
WaitListDistinct ==
    \A i, j \in 1 .. Len(wait_list) : wait_list[i] = wait_list[j] => i = j

\* "A process that tries to lock an occupied mutex is put to sleep until the
\* resource is available" (docs/kernel/locking/mutex.md:11): when the mutex is
\* free and nobody is inside any of its operations, nobody is still asleep in
\* lock().
BlockedOnlyWhileLocked ==
    ~is_locked /\ (\A p \in Procs : pc[p] \in {"out", "asleep"})
      => \A p \in Procs : pc[p] = "asleep" => state[p] = "Runnable"

==============================================================================
