------------------------------ MODULE Completion ------------------------------
(***************************************************************************)
(* Completions (sched/completion.rs), with which clone waits for a child   *)
(* made by vfork.  The counter done and the wait queue are under the lock  *)
(* inner; a section under it is a step.  A waiter marks itself asleep      *)
(* twice: with the lock, when it joins the queue, and again without it, in *)
(* schedule_timeout.                                                       *)
(***************************************************************************)
EXTENDS Naturals, Sequences

CONSTANTS
    Waiters,
    Timed,          \* those that wait with a timeout
    CompleteAll,    \* COMPLETE_ALL, the largest value of done
    MaxWaits,       \* bound: waits of a process
    MaxCompletes    \* bound: calls of complete

VARIABLES
    done, wait_queue,   \* of the completion
    pc,                 \* where each waiter is
    awake,              \* it is runnable
    sigs,               \* it has a pending signal
    timers,             \* those of its waits that have a timer yet to fire
    waits,              \* its waits
    taken,              \* completions taken, by all waiters
    given               \* calls of complete

vars == <<done, wait_queue, pc, awake, sigs, timers, waits, taken, given>>

\* Everything has its type.
TypeOK ==
    /\ done \in 0..CompleteAll /\ wait_queue \in Seq(Waiters)
    /\ pc \in [Waiters -> {"idle", "listed", "asleep"}]
    /\ awake \in [Waiters -> BOOLEAN] /\ sigs \in [Waiters -> BOOLEAN]
    /\ timers \in [Waiters -> SUBSET (1..MaxWaits)]
    /\ waits \in [Waiters -> 0..MaxWaits]
    /\ taken \in Nat /\ given \in 0..MaxCompletes

Init ==
    /\ done = 0 /\ wait_queue = <<>>
    /\ pc = [w \in Waiters |-> "idle"] /\ awake = [w \in Waiters |-> TRUE]
    /\ sigs = [w \in Waiters |-> FALSE] /\ timers = [w \in Waiters |-> {}]
    /\ waits = [w \in Waiters |-> 0] /\ taken = 0 /\ given = 0

\* WaitQueue::wakeup(None)
WakeFirst ==
    IF wait_queue = <<>> THEN UNCHANGED <<wait_queue, awake>>
    ELSE /\ wait_queue' = Tail(wait_queue)
         /\ awake' = [awake EXCEPT ![Head(wait_queue)] = TRUE]

Return(w) == pc' = [pc EXCEPT ![w] = "idle"]

\* the end of do_wait_for_common when done is not 0
Take(w) ==
    /\ done' = IF done = CompleteAll THEN done ELSE done - 1
    /\ taken' = taken + 1
    /\ Return(w)

\* the head of the loop: ERESTARTSYS when a signal is pending, or sleep_without_schedule
Enlist(w) ==
    /\ IF sigs[w]
         THEN Return(w) /\ UNCHANGED <<wait_queue, awake>>
         ELSE /\ pc' = [pc EXCEPT ![w] = "listed"]
              /\ wait_queue' = Append(wait_queue, w)
              /\ awake' = [awake EXCEPT ![w] = FALSE]
    /\ UNCHANGED <<done, taken>>

\* do_wait_for_common
Wait(w) ==
    /\ pc[w] = "idle" /\ waits[w] < MaxWaits
    /\ waits' = [waits EXCEPT ![w] = @ + 1]
    /\ IF done = 0 THEN Enlist(w) ELSE Take(w) /\ UNCHANGED <<wait_queue, awake>>
    /\ UNCHANGED <<sigs, timers, given>>

\* Fault: the timer is not activated.
ScheduleNoTimer(w) ==
    /\ pc[w] = "listed"
    /\ pc' = [pc EXCEPT ![w] = "asleep"]
    /\ awake' = [awake EXCEPT ![w] = FALSE]
    /\ UNCHANGED <<done, wait_queue, sigs, timers, waits, taken, given>>

\* schedule_timeout marks the process asleep, whatever has woken it since
ScheduleTimeout(w) ==
    /\ pc[w] = "listed"
    /\ pc' = [pc EXCEPT ![w] = "asleep"]
    /\ awake' = [awake EXCEPT ![w] = FALSE]
    /\ timers' = [timers EXCEPT ![w] = IF w \in Timed THEN @ \cup {waits[w]} ELSE @]
    /\ UNCHANGED <<done, wait_queue, sigs, waits, taken, given>>

\* Fault: a wait that has timed out takes a completion.
ResumeTakes(w) ==
    /\ pc[w] = "asleep" /\ awake[w]
    /\ WakeFirst
    /\ done' = IF done = CompleteAll \/ done = 0 THEN done ELSE done - 1
    /\ taken' = taken + 1
    /\ Return(w)
    /\ UNCHANGED <<sigs, timers, waits, given>>

\* The process runs again: the loop ends when done is not 0, or no time is left, which
\* is certain when the timer of this wait has fired.  It wakes the first of the queue.
Resume(w) ==
    /\ pc[w] = "asleep" /\ awake[w]
    /\ \/ done # 0 /\ WakeFirst /\ Take(w)
       \/ done = 0 /\ w \in Timed /\ WakeFirst /\ Return(w) /\ UNCHANGED <<done, taken>>
       \/ done = 0 /\ (w \in Timed => waits[w] \in timers[w]) /\ Enlist(w)
    /\ UNCHANGED <<sigs, timers, waits, given>>

complete ==
    /\ given < MaxCompletes
    /\ given' = given + 1
    /\ done' = IF done = CompleteAll THEN done ELSE done + 1
    /\ WakeFirst
    /\ UNCHANGED <<pc, sigs, timers, waits, taken>>

complete_all ==
    /\ done' = CompleteAll
    /\ wait_queue' = <<>>
    /\ awake' = [w \in Waiters |-> awake[w] \/ \E i \in DOMAIN wait_queue : wait_queue[i] = w]
    /\ UNCHANGED <<pc, sigs, timers, waits, taken, given>>

\* WakeUpHelper, the function of the timer, which is not cancelled when its wait ends
Fire(w, n) ==
    /\ n \in timers[w]
    /\ timers' = [timers EXCEPT ![w] = @ \ {n}]
    /\ awake' = [awake EXCEPT ![w] = TRUE]
    /\ UNCHANGED <<done, wait_queue, pc, sigs, waits, taken, given>>

\* a signal is sent; it wakes the process
Signal(w) ==
    /\ ~sigs[w]
    /\ sigs' = [sigs EXCEPT ![w] = TRUE]
    /\ awake' = [awake EXCEPT ![w] = TRUE]
    /\ UNCHANGED <<done, wait_queue, pc, timers, waits, taken, given>>

Next ==
    \/ complete \/ complete_all
    \/ \E w \in Waiters :
          Wait(w) \/ ScheduleTimeout(w) \/ Resume(w) \/ Signal(w) \/ \E n \in 1..MaxWaits : Fire(w, n)

Spec == Init /\ [][Next]_vars

\* processes that can run do, and timers fire; nobody is obliged to complete
Fairness ==
    /\ \A w \in Waiters : WF_vars(ScheduleTimeout(w) \/ Resume(w))
    /\ \A w \in Waiters, n \in 1..MaxWaits : WF_vars(Fire(w, n))

FairSpec == Spec /\ Fairness

------------------------------------------------------------------------------
\* Every completion is taken once, by a wait that then returns its success, and a wait
\* that has timed out takes none: done is what was given and not yet taken, until it is
\* COMPLETE_ALL.
DoneAccounted == done # CompleteAll => done + taken = given

\* A wait with a timeout ends, even if the wakeup came before schedule_timeout marked the
\* process asleep once more, or went to an entry that an earlier wait has left in the
\* queue.
TimedWaitReturns == \A w \in Timed : pc[w] # "idle" ~> pc[w] = "idle"
=============================================================================
