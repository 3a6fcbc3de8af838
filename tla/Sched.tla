-------------------------------- MODULE Sched --------------------------------
(***************************************************************************)
(* The sleep / wake-up protocol of ProcessManager against the per-CPU run  *)
(* queue: mark_sleep, mark_stop, wakeup, wakeup_stop and exit of           *)
(* process/mod.rs, __schedule and CpuRunQueue of sched/mod.rs and the      *)
(* queue operations of the fair class in sched/fair.rs.                    *)
(*                                                                         *)
(* A task never migrates: home[p] is the CPU recorded by set_on_cpu when   *)
(* it was forked.  The idle task of CPU c is written c.  What is           *)
(* abstracted: virtual run times (any queued entity may be picked), clocks *)
(* and load averages, and NEED_SCHEDULE, since the timer interrupt         *)
(* reschedules whether the flag is set or not.                             *)
(***************************************************************************)
EXTENDS Integers, FiniteSets

CONSTANTS
    Procs,       \* the non-idle processes, all of class CFS
    Cpus,        \* the processors; c is also the name of c's idle task
    None,        \* "no process": not a process and not a processor
    NR_WORD,     \* 2^w for the w-bit unsigned counter nr_running
    MaxRunning   \* wake-ups are only issued while nr_running is below this

ASSUME SchedAssumption ==
    /\ Procs \cap Cpus = {}
    /\ None \notin Procs \cup Cpus
    /\ IsFiniteSet(Procs)
    /\ NR_WORD \in Nat \ {0} /\ MaxRunning \in Nat /\ MaxRunning < NR_WORD

VARIABLES
    online,  \* the processors of this machine that were started
    home,    \* on_cpu: the processor whose run queue a process belongs to
    state,   \* InnerSchedInfo.state of each process
    sleep,   \* InnerSchedInfo.sleep, the flag behind is_mark_sleep
    pc,      \* what a process is in the middle of
    onRq,    \* se.on_rq: the entity is queued (in the tree, or running)
    tree,    \* CfsRunQueue.entities of each CPU
    nr,      \* CpuRunQueue.nr_running, equal to cfs.h_nr_running
    cur,     \* CpuRunQueue.current
    lock,    \* CpuRunQueue.lock, taken by self_lock
    frame,   \* what the suspended __schedule call of a task holds
    wk       \* the process a CPU is waking, between its two locks

queue == <<onRq, tree, nr>>
switch == <<cur, lock, frame>>
machine == <<online, home>>
vars == <<machine, state, sleep, pc, queue, switch, wk>>

States == {"Runnable", "Blocked", "Stopped", "Exited"}
PCs == {"run",        \* ordinary code
        "marked",     \* after mark_sleep, before schedule(SM_NONE)
        "stopping",   \* after mark_stop, before schedule(SM_NONE)
        "exiting",    \* in exit, state is Exited, still queued
        "dequeued",   \* in exit, after deactivate_task
        "gone"}       \* the last __schedule of exit has been called
Frames == {"none",    \* running, or has never been switched out
           "guard",   \* suspended with the SpinLockGuard of the run queue
           "nested"}  \* suspended with None: the CPU already held the lock

TypeOK ==
    /\ online \subseteq Cpus
    /\ home \in [Procs -> online]
    /\ state \in [Procs -> States]
    /\ sleep \in [Procs -> BOOLEAN]
    /\ pc \in [Procs -> PCs]
    /\ onRq \in [Procs -> BOOLEAN]
    /\ tree \in [Cpus -> SUBSET Procs]
    /\ nr \in [Cpus -> 0 .. NR_WORD - 1]
    /\ cur \in [Cpus -> Procs \cup Cpus]
    /\ lock \in [Cpus -> BOOLEAN]
    /\ frame \in [Procs \cup Cpus -> Frames]
    /\ wk \in [Cpus -> Procs \cup {None}]

(***************************************************************************)
(* A process is created Blocked(false), not marked, on no queue; each CPU  *)
(* runs its idle task.  Any CPUs may be online, and a process may have been *)
(* forked on any of them.                                                  *)
(***************************************************************************)
Init ==
    /\ online \in SUBSET Cpus
    /\ home \in [Procs -> online]
    /\ state = [p \in Procs |-> "Blocked"]
    /\ sleep = [p \in Procs |-> FALSE]
    /\ pc = [p \in Procs |-> "run"]
    /\ onRq = [p \in Procs |-> FALSE]
    /\ tree = [c \in Cpus |-> {}]
    /\ nr = [c \in Cpus |-> 0]
    /\ cur = [c \in Cpus |-> c]
    /\ lock = [c \in Cpus |-> FALSE]
    /\ frame = [t \in Procs \cup Cpus |-> "none"]
    /\ wk = [c \in Cpus |-> None]

------------------------------------------------------------------------------
(***************************************************************************)
(* The processor.  Interrupts are off while a CPU wakes somebody and from  *)
(* the start of exit to its end.                                           *)
(***************************************************************************)
Running(p) == cur[home[p]] = p

IrqsOn(c) ==
    /\ wk[c] = None
    /\ cur[c] # c => pc[cur[c]] \in {"run", "marked", "stopping"}

\* exit itself wakes its waiters, its futex waiter and its parent
CanWake(c) ==
    /\ wk[c] = None
    /\ cur[c] # c => pc[cur[c]] # "gone"

\* At(p, l): p runs at l and its CPU is not inside a wake-up
At(p, l) == Running(p) /\ pc[p] = l /\ wk[home[p]] = None

\* self_lock by CPU d on the run queue of c: nested when d = c holds it.
\* lock_on_who is c whenever the lock is held between two steps, because only
\* __schedule keeps it and that runs on c (module RqLock has the lock itself).
SelfLock(d, c) == d = c \/ ~lock[c]

------------------------------------------------------------------------------
(***************************************************************************)
(* CpuRunQueue and CompletelyFairScheduler.                                *)
(***************************************************************************)
\* enqueue_entity: the current entity stays out of the tree
EnqueueEntity(p) ==
    LET c == home[p] IN
    IF onRq[p] \/ cur[c] = p THEN tree ELSE [tree EXCEPT ![c] = @ \cup {p}]

\* CompletelyFairScheduler::enqueue: an entity that is already queued is not
\* inserted again, but both counters go up.
FairEnqueue(p) ==
    /\ tree' = EnqueueEntity(p)
    /\ onRq' = [onRq EXCEPT ![p] = TRUE]
    /\ nr' = [nr EXCEPT ![home[p]] = (@ + 1) % NR_WORD]

\* activate_task and enqueue_task
Activate(p) == FairEnqueue(p)

SubNrRunning(n) == (n + NR_WORD - 1) % NR_WORD

\* dequeue_entity of the current entity, which is not in the tree
DequeueEntity(p) == [onRq EXCEPT ![p] = FALSE]

\* CompletelyFairScheduler::dequeue
FairDequeue(p) ==
    /\ onRq' = DequeueEntity(p)
    /\ nr' = [nr EXCEPT ![home[p]] = SubNrRunning(@)]

\* deactivate_task and dequeue_task
DeactivateCurrent(p) == FairDequeue(p)

\* pick_next_task: any entity of the tree, or else the idle task
PickNext(c, running) ==
    IF running = 0 \/ tree[c] = {} THEN {c} ELSE tree[c]

\* Fault: without looking at on_rq.
PutPrevAlways(c, queued) ==
    IF cur[c] \in Procs THEN {cur[c]} ELSE {}

\* put_prev_entity: the task switched out returns to the tree if it is queued
PutPrev(c, queued) ==
    IF queued THEN {cur[c]} ELSE {}

\* Fault: a switch drops the lock whatever the frames hold.
SwitchReleasing(c, next) ==
    /\ cur' = [cur EXCEPT ![c] = next]
    /\ lock' = [lock EXCEPT ![c] = FALSE]
    /\ frame' = IF next = cur[c] THEN frame
                ELSE [frame EXCEPT ![cur[c]] = "guard", ![next] = "none"]

\* The run-queue lock across switch_process.  The guard of __schedule stays
\* in the frame of the task switched out; the task switched in drops the one
\* in its own frame, and a task that starts has none to drop.
SwitchProcess(c, next) ==
    IF next = cur[c]
      THEN UNCHANGED switch
      ELSE /\ cur' = [cur EXCEPT ![c] = next]
           /\ lock' = [lock EXCEPT ![c] = frame[next] # "guard"]
           /\ frame' = [frame EXCEPT
                          ![cur[c]] = IF lock[c] THEN "nested" ELSE "guard",
                          ![next] = "none"]

\* __schedule on CPU c; "preempt" is SM_PREEMPT
Schedule(c, preempt) ==
    LET prev == cur[c]
        off == ~preempt /\ prev # c /\ sleep[prev]
        running == IF off THEN SubNrRunning(nr[c]) ELSE nr[c]
        queued == prev # c /\ onRq[prev] /\ ~off
    IN /\ onRq' = IF off THEN [onRq EXCEPT ![prev] = FALSE] ELSE onRq
       /\ nr' = [nr EXCEPT ![c] = running]
       /\ \E next \in PickNext(c, running) :
            /\ tree' = [tree EXCEPT
                          ![c] = (@ \ {next}) \cup PutPrev(c, queued)]
            /\ SwitchProcess(c, next)

------------------------------------------------------------------------------
(***************************************************************************)
(* ProcessManager: what a running process does to itself.                  *)
(***************************************************************************)
MarkSleep(p) ==
    /\ At(p, "run") /\ state[p] # "Exited"
    /\ state' = [state EXCEPT ![p] = "Blocked"]
    /\ sleep' = [sleep EXCEPT ![p] = TRUE]
    /\ pc' = [pc EXCEPT ![p] = "marked"]
    /\ UNCHANGED <<machine, queue, switch, wk>>

\* the condition held after prepare_to_wait_event: finish_wait
FinishWait(p) ==
    /\ At(p, "marked")
    /\ state' = [state EXCEPT ![p] = "Runnable"]
    /\ sleep' = [sleep EXCEPT ![p] = FALSE]
    /\ pc' = [pc EXCEPT ![p] = "run"]
    /\ UNCHANGED <<machine, queue, switch, wk>>

MarkStop(p) ==
    /\ At(p, "run") /\ state[p] # "Exited"
    /\ state' = [state EXCEPT ![p] = "Stopped"]
    /\ pc' = [pc EXCEPT ![p] = "stopping"]
    /\ UNCHANGED <<machine, sleep, queue, switch, wk>>

\* the schedule(SM_NONE) that follows mark_sleep or mark_stop
Park(p) ==
    /\ At(p, "marked") \/ At(p, "stopping")
    /\ pc' = [pc EXCEPT ![p] = "run"]
    /\ Schedule(home[p], FALSE)
    /\ UNCHANGED <<machine, state, sleep, wk>>

\* do_sched_yield: schedule(SM_NONE) without a mark
SchedYield(p) ==
    /\ At(p, "run")
    /\ Schedule(home[p], FALSE)
    /\ UNCHANGED <<machine, state, sleep, pc, wk>>

\* handle_mm_fault and the end of do_wait: state only, the flag is left alone
SetRunnable(p) ==
    /\ At(p, "run") /\ state[p] # "Exited"
    /\ state' = [state EXCEPT ![p] = "Runnable"]
    /\ UNCHANGED <<machine, sleep, pc, queue, switch, wk>>

\* exit, in three steps with interrupts off
ExitMark(p) ==
    /\ At(p, "run")
    /\ state' = [state EXCEPT ![p] = "Exited"]
    /\ pc' = [pc EXCEPT ![p] = "exiting"]
    /\ UNCHANGED <<machine, sleep, queue, switch, wk>>

\* Fault: the accounting is done a second time.
ExitDeactivateTwice(p) ==
    /\ At(p, "exiting")
    /\ onRq' = [onRq EXCEPT ![p] = FALSE]
    /\ nr' = [nr EXCEPT ![home[p]] = SubNrRunning(SubNrRunning(@))]
    /\ pc' = [pc EXCEPT ![p] = "dequeued"]
    /\ UNCHANGED <<machine, state, sleep, tree, switch, wk>>

\* Fault: exit relies on __schedule to dequeue.
ExitWithoutDeactivate(p) ==
    /\ At(p, "exiting")
    /\ pc' = [pc EXCEPT ![p] = "dequeued"]
    /\ UNCHANGED <<machine, state, sleep, queue, switch, wk>>

ExitDeactivate(p) ==
    /\ At(p, "exiting")
    /\ DeactivateCurrent(p)
    /\ pc' = [pc EXCEPT ![p] = "dequeued"]
    /\ UNCHANGED <<machine, state, sleep, tree, switch, wk>>

ExitSchedule(p) ==
    /\ At(p, "dequeued")
    /\ pc' = [pc EXCEPT ![p] = "gone"]
    /\ Schedule(home[p], FALSE)
    /\ UNCHANGED <<machine, state, sleep, wk>>

------------------------------------------------------------------------------
(***************************************************************************)
(* ProcessManager: what one CPU does to a process, and the timer.          *)
(***************************************************************************)
\* Fault: the sleep mark is left set.
WakeupKeepingMark(d, p) ==
    /\ CanWake(d) /\ state[p] = "Blocked" /\ nr[home[p]] < MaxRunning
    /\ state' = [state EXCEPT ![p] = "Runnable"]
    /\ wk' = [wk EXCEPT ![d] = p]
    /\ UNCHANGED <<machine, sleep, pc, queue, switch>>

\* wakeup up to drop(writer)
Wakeup(d, p) ==
    /\ CanWake(d) /\ state[p] = "Blocked" /\ nr[home[p]] < MaxRunning
    /\ state' = [state EXCEPT ![p] = "Runnable"]
    /\ sleep' = [sleep EXCEPT ![p] = FALSE]
    /\ wk' = [wk EXCEPT ![d] = p]
    /\ UNCHANGED <<machine, pc, queue, switch>>

\* wakeup_stop up to drop(writer)
WakeupStop(d, p) ==
    /\ CanWake(d) /\ state[p] = "Stopped" /\ nr[home[p]] < MaxRunning
    /\ state' = [state EXCEPT ![p] = "Runnable"]
    /\ wk' = [wk EXCEPT ![d] = p]
    /\ UNCHANGED <<machine, sleep, pc, queue, switch>>

\* the rest of both: lock the run queue of the woken process and activate it
WakeupActivate(d) ==
    /\ wk[d] # None
    /\ SelfLock(d, home[wk[d]])
    /\ Activate(wk[d])
    /\ wk' = [wk EXCEPT ![d] = None]
    /\ UNCHANGED <<machine, state, sleep, pc, switch>>

\* the timer interrupt or a reschedule IPI
Preempt(c) ==
    /\ IrqsOn(c)
    /\ Schedule(c, TRUE)
    /\ UNCHANGED <<machine, state, sleep, pc, wk>>

ProcStep(p) ==
    \/ MarkSleep(p) \/ FinishWait(p) \/ MarkStop(p) \/ Park(p)
    \/ SchedYield(p) \/ SetRunnable(p)
    \/ ExitMark(p) \/ ExitDeactivate(p) \/ ExitSchedule(p)

CpuStep(d) ==
    \/ \E p \in Procs : Wakeup(d, p) \/ WakeupStop(d, p)
    \/ WakeupActivate(d)
    \/ Preempt(d)

Next ==
    \/ \E p \in Procs : ProcStep(p)
    \/ \E d \in Cpus : d \in online /\ CpuStep(d)

Spec == Init /\ [][Next]_vars

------------------------------------------------------------------------------
(***************************************************************************)
(* Properties.                                                             *)
(***************************************************************************)
\* The tree, se.on_rq and rq.current agree: a process is marked queued exactly
\* when it is in its own CPU's tree or is running there, and never both.  The
\* one exception is a process that exit has dequeued and that still runs.
\* put_prev_entity, set_next_entity, enqueue_entity and dequeue_entity maintain
\* this between them, each with its own half of the condition.
QueueExact ==
    \A p \in Procs :
        /\ \A c \in Cpus : p \in tree[c] => c = home[p]
        /\ \A c \in Cpus : cur[c] = p => c = home[p]
        /\ ~(p \in tree[home[p]] /\ Running(p))
        /\ p \in tree[home[p]] => onRq[p]
        /\ onRq[p] => p \in tree[home[p]] \/ Running(p)
        /\ Running(p) /\ pc[p] \notin {"dequeued", "gone"} => onRq[p]

\* The run-queue lock of a CPU is held exactly while a task other than idle
\* runs there: the guard that __schedule takes in the idle task is dropped only
\* when idle is resumed, and every later self_lock on that CPU is nested.
LockHeldOutsideIdle ==
    \A c \in Cpus : lock[c] <=> cur[c] # c

\* "The process is running on a CPU or in a run queue" (ProcessState::Runnable):
\* a Runnable process is queued, or a CPU is on its way to queue it.
RunnableIsQueued ==
    \A p \in Procs :
        state[p] = "Runnable" => onRq[p] \/ \E d \in Cpus : wk[d] = p

UniProcessor == \A c, d \in online : c = d

\* On a machine with one CPU a Runnable process is never lost: whatever order
\* mark_sleep, schedule, wakeup, wakeup_stop, page faults, sched_yield and the
\* timer come in.
RunnableIsQueuedOnUP == UniProcessor => RunnableIsQueued

\* On one CPU nr_running never counts fewer entities than are queued, so that
\* sub_nr_running cannot go below zero and pick_next_task cannot take its
\* "nothing runs" exit with work in the tree.
NrCoversQueue ==
    UniProcessor => \A c \in Cpus :
        nr[c] >= Cardinality({p \in Procs : home[p] = c /\ onRq[p]})

\* On one CPU a process whose exit has reached its last __schedule is never
\* queued again:
\* the code after that call only reports "exited but sched again" and spins.
ExitedNeverRunsAgain ==
    UniProcessor => \A p \in Procs : pc[p] = "gone" => ~onRq[p] /\ ~Running(p)

==============================================================================
