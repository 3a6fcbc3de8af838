------------------------------- MODULE WaitQueue -------------------------------
(***************************************************************************)
(* WaitQueue of libs/wait_queue.rs with the wq_wait_event_interruptible!   *)
(* macro: processes that wait for a condition or just sleep, processes     *)
(* that wake one or all of them, signals, and the exit of the owner, which *)
(* marks the queue dead.                                                   *)
(*                                                                         *)
(* Two locks matter.  The queue's spin lock protects wait_list and dead; a *)
(* process's sched_info lock protects its state.  finish_wait takes them   *)
(* in the order state, queue; the other operations in the order queue,     *)
(* state.  A section that takes one lock, or both without waiting between  *)
(* them, is one step here.  schedule() returns once the state is Runnable  *)
(* (module Sched).                                                         *)
(***************************************************************************)
EXTENDS Lists

CONSTANTS
    Waiters,   \* processes that wait on the queue
    Signalled, \* those of them that are sent signals
    Wakers,    \* processes that wake them
    Modes,     \* the calls the wakers make, a subset of AllModes
    None,      \* nobody
    MaxLen     \* bound on wait_list: a waiter pushes itself once per round

AllModes == {"one",         \* wakeup(None)
             "one_intr",    \* wakeup(Some(Blocked(true)))
             "all",         \* wakeup_all(None)
             "all_intr"}    \* wakeup_all(Some(Blocked(true)))

VARIABLES
    wait_list,   \* InnerWaitQueue.wait_list
    dead,        \* InnerWaitQueue.dead
    qlock,       \* who is inside the queue's lock between two steps
    cond,        \* the $condition of the macro
    raised,      \* while cond holds, the call that goes with its becoming true
    state,       \* the state of each waiter
    slock,       \* the waiters inside their own sched_info lock
    sig,         \* the waiters with HAS_PENDING_SIGNAL
    sender,      \* where signal_wake_up for each waiter is
    fatal,       \* the waiters whose last signal is fatal
    pc,          \* where each waiter is
    event,       \* the waiters that wait through the macro
    wpc,         \* where each waker is
    mode,        \* the call each waker is making
    target,      \* the process a waker has popped
    kept         \* to_push_back of wakeup_all

queue == <<wait_list, dead, qlock, kept>>
env == <<cond, raised>>
signals == <<sig, sender, fatal>>
waiter == <<state, slock, pc, event, signals>>
waker == <<wpc, mode, target>>
vars == <<queue, env, waiter, waker>>

BlockedI == "BlockedIntr"     \* ProcessState::Blocked(true)
BlockedU == "BlockedUnintr"   \* ProcessState::Blocked(false)

PCs == {"idle", "prepare", "test", "test_err", "parked", "finish", "finish2"}
WPCs == {"idle", "lock", "front", "scan", "wake"}

TypeOK ==
    /\ wait_list \in Seq(Waiters) /\ Len(wait_list) <= MaxLen
    /\ dead \in BOOLEAN
    /\ qlock \in Wakers \cup {None}
    /\ cond \in BOOLEAN /\ raised \in AllModes \cup {None}
    /\ state \in [Waiters -> {"Runnable", BlockedI, BlockedU}]
    /\ \A S \in {slock, event, sig, fatal} : S \subseteq Waiters
    /\ sender \in [Waiters -> {"none", "blocked", "other", "wake"}]
    /\ pc \in [Waiters -> PCs]
    /\ wpc \in [Wakers -> WPCs]
    /\ mode \in [Wakers -> AllModes \cup {None}]
    /\ target \in [Wakers -> Waiters \cup {None}]
    /\ kept \in Seq(Waiters) /\ Len(kept) <= MaxLen

Init ==
    /\ wait_list = <<>> /\ dead = FALSE /\ qlock = None /\ kept = <<>>
    /\ cond = FALSE /\ raised = None
    /\ state = [p \in Waiters |-> "Runnable"]
    /\ slock = {} /\ event = {}
    /\ sig = {} /\ fatal = {} /\ sender = [p \in Waiters |-> "none"]
    /\ pc = [p \in Waiters |-> "idle"]
    /\ wpc = [w \in Wakers |-> "idle"]
    /\ mode = [w \in Wakers |-> None]
    /\ target = [w \in Wakers |-> None]

Goto(p, from, to) == pc[p] = from /\ pc' = [pc EXCEPT ![p] = to]
WGoto(w, from, to) == wpc[w] = from /\ wpc' = [wpc EXCEPT ![w] = to]
Return(w, from) ==
    /\ WGoto(w, from, "idle")
    /\ mode' = [mode EXCEPT ![w] = None] /\ target' = [target EXCEPT ![w] = None]
SetState(p, s) == state' = [state EXCEPT ![p] = s]

------------------------------------------------------------------------------
(* Waiters.                                                                 *)

\* mark_sleep and push_back, with the queue locked
Enqueue(p, s) ==
    /\ Len(wait_list) < MaxLen
    /\ SetState(p, s)
    /\ wait_list' = Append(wait_list, p)
    /\ UNCHANGED <<dead, qlock, kept>>

\* wq_wait_event_interruptible!: the first test failed
EventBegin(p) ==
    /\ Goto(p, "idle", "prepare") /\ ~cond
    /\ event' = event \cup {p}
    /\ UNCHANGED <<queue, env, state, slock, signals, waker>>

\* prepare_to_wait_event(true): Err when dead or a signal is pending
Prepare(p) ==
    /\ qlock = None
    /\ IF dead \/ p \in sig
         THEN /\ Goto(p, "prepare", "test_err")
              /\ UNCHANGED <<queue, state>>
         ELSE /\ Goto(p, "prepare", "test")
              /\ Enqueue(p, BlockedI)
    /\ UNCHANGED <<env, slock, signals, event, waker>>

\* Fault: the condition is not tested again after joining the list.
TestNothing(p) ==
    /\ Goto(p, "test", "parked")
    /\ UNCHANGED <<queue, env, state, slock, signals, event, waker>>

\* the test after prepare: done, or schedule(SM_NONE)
Test(p) ==
    /\ Goto(p, "test", IF cond THEN "finish" ELSE "parked")
    /\ UNCHANGED <<queue, env, state, slock, signals, event, waker>>

\* the test after a failed prepare: an error return skips finish_wait
TestErr(p) ==
    /\ Goto(p, "test_err", IF cond THEN "finish" ELSE "idle")
    /\ event' = IF cond THEN event ELSE event \ {p}
    /\ UNCHANGED <<queue, env, state, slock, signals, waker>>

\* schedule() returns: the macro loops, a plain sleep is over
Resume(p) ==
    /\ state[p] = "Runnable"
    /\ Goto(p, "parked", IF p \in event THEN "prepare" ELSE "idle")
    /\ UNCHANGED <<queue, env, state, slock, signals, event, waker>>

\* finish_wait, first lock: its own sched_info
FinishLock(p) ==
    /\ Goto(p, "finish", "finish2")
    /\ slock' = slock \cup {p}
    /\ UNCHANGED <<queue, env, state, signals, event, waker>>

\* finish_wait, second lock: the queue
FinishWait(p) ==
    /\ Goto(p, "finish2", "idle") /\ qlock = None
    /\ SetState(p, "Runnable")
    /\ wait_list' \in Retained(wait_list, Waiters \ {p})
    /\ slock' = slock \ {p}
    /\ event' = event \ {p}
    /\ UNCHANGED <<dead, qlock, kept, env, signals, waker>>

\* Fault: without can_sleep.
SleepOnDead(p, s) ==
    /\ qlock = None
    /\ Goto(p, "idle", "parked") /\ Enqueue(p, s)
    /\ UNCHANGED <<env, slock, signals, event, waker>>

\* sleep, sleep_with_func, sleep_unlock_*, and sleep_uninterruptible.
Sleep(p, s) ==
    /\ qlock = None /\ ~dead
    /\ Goto(p, "idle", "parked") /\ Enqueue(p, s)
    /\ UNCHANGED <<env, slock, signals, event, waker>>

\* sleep_uninterruptible_unlock_spinlock / _mutex: no can_sleep there
SleepUninterruptible(p) ==
    /\ qlock = None
    /\ Goto(p, "idle", "parked") /\ Enqueue(p, BlockedU)
    /\ UNCHANGED <<env, slock, signals, event, waker>>

\* signal_wake_up, first step: the state is read, under the lock, and kept
SignalRead(p, kill) ==
    /\ p \notin sig /\ p \notin slock /\ sender[p] = "none"
    /\ sender' = [sender EXCEPT ![p] = IF state[p] = BlockedI THEN "blocked" ELSE "other"]
    /\ fatal' = IF kill THEN fatal \cup {p} ELSE fatal
    /\ UNCHANGED <<queue, env, state, slock, sig, pc, event, waker>>

\* Fault: a fatal signal is treated like any other.
SignalFlagAlike(p) ==
    /\ sender[p] \in {"blocked", "other"}
    /\ sig' = sig \cup {p}
    /\ sender' = [sender EXCEPT ![p] = IF @ = "blocked" THEN "wake" ELSE "none"]
    /\ UNCHANGED <<queue, env, state, slock, fatal, pc, event, waker>>

\* second step: the flag; a fatal signal wakes whatever the state was
SignalFlag(p) ==
    /\ sender[p] \in {"blocked", "other"}
    /\ sig' = sig \cup {p}
    /\ sender' = [sender EXCEPT ![p] =
                     IF @ = "blocked" \/ p \in fatal THEN "wake" ELSE "none"]
    /\ UNCHANGED <<queue, env, state, slock, fatal, pc, event, waker>>

\* third step: ProcessManager::wakeup
SignalWake(p) ==
    /\ sender[p] = "wake" /\ p \notin slock
    /\ sender' = [sender EXCEPT ![p] = "none"]
    /\ SetState(p, "Runnable")
    /\ UNCHANGED <<queue, env, slock, sig, fatal, pc, event, waker>>

\* the waiter, back from the kernel, handles its signal
HandleSignal(p) ==
    /\ p \in sig /\ pc[p] = "idle" /\ sender[p] = "none"
    /\ sig' = sig \ {p}
    /\ fatal' = fatal \ {p}
    /\ UNCHANGED <<queue, env, state, slock, sender, pc, event, waker>>

\* whoever was let through makes the condition false again
Consume(p) ==
    /\ cond /\ pc[p] = "idle"
    /\ cond' = FALSE /\ raised' = None
    /\ UNCHANGED <<queue, waiter, waker>>

------------------------------------------------------------------------------
(* Wakers.                                                                  *)

\* the event happens, and then one of the wake-up calls is made
Post(w, how) ==
    /\ WGoto(w, "idle", "lock")
    /\ mode' = [mode EXCEPT ![w] = how]
    /\ cond' = TRUE
    /\ raised' = IF cond THEN raised ELSE how
    /\ UNCHANGED <<queue, waiter, target>>

\* the owner exits: mark_dead, then wakeup_all(Some(Blocked(true)))
MarkDead(w) ==
    /\ qlock = None /\ ~dead
    /\ WGoto(w, "idle", "lock")
    /\ dead' = TRUE
    /\ mode' = [mode EXCEPT ![w] = "all_intr"]
    /\ UNCHANGED <<wait_list, qlock, kept, env, waiter, target>>

\* an empty list is nothing to do
WakeNobody(w) ==
    /\ qlock = None /\ wait_list = <<>>
    /\ Return(w, "lock")
    /\ UNCHANGED <<queue, env, waiter>>

\* take the queue's lock
WakeLock(w) ==
    /\ qlock = None /\ wait_list # <<>>
    /\ WGoto(w, "lock", IF mode[w] \in {"one", "one_intr"} THEN "front" ELSE "scan")
    /\ qlock' = w
    /\ UNCHANGED <<wait_list, dead, kept, env, waiter, mode, target>>

\* wakeup(Some(state)) reads the state of the first process and gives up
WakeMismatch(w) ==
    /\ Return(w, "front") /\ mode[w] = "one_intr"
    /\ Head(wait_list) \notin slock /\ state[Head(wait_list)] # BlockedI
    /\ qlock' = None
    /\ UNCHANGED <<wait_list, dead, kept, env, waiter>>

\* wakeup pops the first process and drops the lock
WakePop(w) ==
    /\ WGoto(w, "front", "wake")
    /\ mode[w] = "one_intr" => /\ Head(wait_list) \notin slock
                               /\ state[Head(wait_list)] = BlockedI
    /\ target' = [target EXCEPT ![w] = Head(wait_list)]
    /\ wait_list' = Tail(wait_list)
    /\ qlock' = None
    /\ UNCHANGED <<dead, kept, env, waiter, mode>>

\* ProcessManager::wakeup of the popped process
WakeTarget(w) ==
    /\ Return(w, "wake") /\ target[w] \notin slock
    /\ SetState(target[w], "Runnable")
    /\ UNCHANGED <<queue, env, slock, signals, pc, event>>

\* one turn of the loop of wakeup_all: wake the process or keep it
ScanOne(w) ==
    /\ wpc[w] = "scan" /\ wait_list # <<>> /\ Head(wait_list) \notin slock
    /\ LET p == Head(wait_list)
           wake == mode[w] = "all" \/ state[p] = BlockedI
       IN /\ SetState(p, IF wake THEN "Runnable" ELSE state[p])
          /\ kept' = IF wake THEN kept ELSE Append(kept, p)
    /\ wait_list' = Tail(wait_list)
    /\ UNCHANGED <<dead, qlock, env, slock, signals, pc, event, waker>>

\* Fault: they are forgotten.
ScanEndDropping(w) ==
    /\ wait_list = <<>> /\ Return(w, "scan")
    /\ kept' = <<>> /\ qlock' = None
    /\ UNCHANGED <<wait_list, dead, env, waiter>>

\* the kept processes go back and the lock is dropped
ScanEnd(w) ==
    /\ wait_list = <<>> /\ Return(w, "scan")
    /\ wait_list' = kept /\ kept' = <<>> /\ qlock' = None
    /\ UNCHANGED <<dead, env, waiter>>

WaiterStep(p) ==
    \/ EventBegin(p) \/ Prepare(p) \/ Test(p) \/ TestErr(p) \/ Resume(p)
    \/ FinishLock(p) \/ FinishWait(p)
    \/ \E s \in {BlockedI, BlockedU} : Sleep(p, s)
    \/ SleepUninterruptible(p)
    \/ \E kill \in BOOLEAN : p \in Signalled /\ SignalRead(p, kill)
    \/ SignalFlag(p) \/ SignalWake(p) \/ HandleSignal(p)
    \/ Consume(p)

WakerStep(w) ==
    \/ \E how \in Modes : Post(w, how)
    \/ MarkDead(w) \/ WakeNobody(w) \/ WakeLock(w)
    \/ WakeMismatch(w) \/ WakePop(w) \/ WakeTarget(w)
    \/ ScanOne(w) \/ ScanEnd(w)

Next ==
    \/ \E p \in Waiters : WaiterStep(p)
    \/ \E w \in Wakers : WakerStep(w)

Spec == Init /\ [][Next]_vars

\* Whoever is inside the kernel code of the queue goes on with it; a spin lock
\* is obtained by whoever finds it free often enough.
FairSpec ==
    /\ Spec
    /\ \A p \in Waiters : SF_vars(FinishWait(p))
    /\ \A w \in Wakers :
         /\ WF_vars(WakeMismatch(w)) /\ WF_vars(WakePop(w))
         /\ WF_vars(ScanOne(w)) /\ WF_vars(ScanEnd(w))

------------------------------------------------------------------------------
(* Properties.                                                              *)

Listed(p) ==
    \/ Has(wait_list, p) \/ Has(kept, p)
    \/ \E w \in Wakers : target[w] = p

Asleep(p) == pc[p] = "parked" /\ state[p] # "Runnable"

\* Nobody sleeps where no wake-up can find it: a process parked on the queue is
\* in the list, in the hands of a wakeup_all, or popped by a wakeup that has yet
\* to wake it.  Duplicate and left-over entries, signals, and the rebuilding of
\* the list by wakeup_all all come between.
SleeperIsListed == \A p \in Waiters : Asleep(p) => Listed(p)

\* No lost wake-up: once the event has happened and the wakeup_all that follows
\* it is over, no process waiting through the macro sleeps on, wherever it was
\* between its tests of the condition and its place in the list.
NoSleepThroughEvent ==
    cond /\ raised \in {"all", "all_intr"} /\ (\A w \in Wakers : wpc[w] = "idle")
      => \A p \in event : ~Asleep(p)

\* After the owner's exit (mark_dead, then wakeup_all) nobody is left asleep
\* interruptibly on its queue: can_sleep refuses those who come later.
DeadQueueDrains ==
    dead /\ (\A w \in Wakers : wpc[w] = "idle")
      => \A p \in Waiters : pc[p] = "parked" => state[p] # BlockedI

\* A fatal signal reaches a process that waits through the macro, wherever the
\* sender's three steps (read the state, set the flag, wake) fall among the
\* waiter's: once they are over it does not sleep on.
FatalSignalReaches ==
    \A p \in event \cap fatal \cap sig : sender[p] = "none" => ~Asleep(p)

\* "Wait for a condition to become true": a process that found the condition
\* true and entered finish_wait returns from the macro.
EventReturns == \A p \in Waiters : (pc[p] = "finish2") ~> (pc[p] = "idle")

==============================================================================
