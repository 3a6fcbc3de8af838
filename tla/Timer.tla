-------------------------------- MODULE Timer --------------------------------
(***************************************************************************)
(* Kernel timers (time/timer.rs), the softirq that runs them               *)
(* (exception/softirq.rs) and the processes that sleep on them, on CPU 0,  *)
(* the only CPU whose tick counts jiffies and raises the TIMER softirq.    *)
(*                                                                         *)
(* A softirq runs on the stack of the process that was interrupted, with   *)
(* interrupts on: a tick can nest another one on top of it, and the end of *)
(* an interrupt can switch to another process and leave it half done.      *)
(* Each process therefore has a stack of softirq frames, and only the top  *)
(* frame of the current process moves.  A process of another CPU creates,  *)
(* activates and cancels timers.                                           *)
(***************************************************************************)
EXTENDS Lists, FiniteSets

CONSTANTS
    Sleepers,      \* processes of CPU 0 that call schedule_timeout
    Idle,          \* the idle process of CPU 0
    Remote,        \* timers that another CPU activates and cancels
    Calls,         \* bound: calls of schedule_timeout per process
    MAX_RUNNING_PER_CPU, TIMER_RUN_CYCLE_THRESHOLD,
    MaxJiffies     \* bound: jiffies stop there, ticks go on

ASSUME TimerAssumption ==
    /\ Idle \notin Sleepers
    /\ {Calls, MaxJiffies} \subseteq Nat
    /\ {MAX_RUNNING_PER_CPU, TIMER_RUN_CYCLE_THRESHOLD} \subseteq Nat \ {0}

VARIABLES
    jiffies,       \* TIMER_JIFFIES
    list,          \* TIMER_LIST, a sequence of pairs <<expire_jiffies, timer>>
    rpc,           \* what the other CPU has done with each of its timers
    fn,            \* timer_func of each timer, and whether it has run
    expire,        \* expire_jiffies of each timer
    running,       \* DoTimerSoftirq.running
    pending,       \* the TIMER bit of cpu_pending
    count,         \* cpu_running_count
    stack,         \* the softirq frames on the stack of each process
    cur,           \* the current process
    pc, state,     \* of each sleeper
    calls          \* number of calls each sleeper has made

timers == <<list, rpc, fn, expire>>
softirq == <<running, pending, count, stack>>
procs == <<cur, pc, state, calls>>
vars == <<jiffies, timers, softirq, procs>>

Procs == Sleepers \cup {Idle}
Timers == (Sleepers \X (1 .. Calls)) \cup (Remote \X {0})

\* A frame of do_softirq: where it is, the timers left of its limit, and the
\* one it has taken out of the list.
NoTimer == <<Idle, 0>>
Frames == [pc : {"handler", "loop", "fire", "clear", "end"},
           left : 0 .. TIMER_RUN_CYCLE_THRESHOLD,
           timer : Timers \cup {NoTimer}]

TypeOK ==
    /\ jiffies \in 0 .. MaxJiffies
    /\ list \in Seq((0 .. MaxJiffies) \X Timers)
    /\ rpc \in [Remote -> {"new", "activate", "active", "cancel", "gone"}]
    /\ fn \in [Timers -> {"none", "armed", "ran"}]
    /\ expire \in [Timers -> 0 .. MaxJiffies]
    /\ running \in BOOLEAN /\ pending \in BOOLEAN
    /\ count \in 0 .. MAX_RUNNING_PER_CPU
    /\ stack \in [Procs -> Seq(Frames)]
    /\ cur \in Procs
    /\ pc \in [Sleepers -> {"out", "armed", "asleep"}]
    /\ state \in [Sleepers -> {"Runnable", "Blocked"}]
    /\ calls \in [Sleepers -> 0 .. Calls]

Init ==
    /\ jiffies = 0 /\ list = <<>> /\ rpc = [r \in Remote |-> "new"]
    /\ fn = [t \in Timers |-> "none"] /\ expire = [t \in Timers |-> 0]
    /\ running = FALSE /\ pending = FALSE /\ count = 0
    /\ stack = [p \in Procs |-> <<>>]
    /\ cur \in Procs
    /\ pc = [p \in Sleepers |-> "out"] /\ state = [p \in Sleepers |-> "Runnable"]
    /\ calls = [p \in Sleepers |-> 0]

------------------------------------------------------------------------------
(* The processes of CPU 0.                                                  *)

\* the processes that schedule can pick: a sleeper leaves the run queue in
\* schedule(SM_NONE) only
Ready == {p \in Procs : p \in Sleepers => pc[p] # "asleep" \/ state[p] = "Runnable"}

\* the other CPU holds the lock of TIMER_LIST
locked == \E r \in Remote : rpc[r] \in {"activate", "cancel"}

InProcess(p) == cur = p /\ stack[p] = <<>>

\* activate(): before the first timer that expires later
Later(l, e) == {i \in 1 .. Len(l) : l[i][1] > e} \cup {Len(l) + 1}
SplitPos(l, e) == CHOOSE i \in Later(l, e) : \A j \in Later(l, e) : i <= j
Inserted(l, t, e) ==
    [k \in 1 .. Len(l) + 1 |-> IF k < SplitPos(l, e) THEN l[k]
                               ELSE IF k = SplitPos(l, e) THEN <<e, t>> ELSE l[k - 1]]

\* schedule_timeout(n): mark_sleep and activate with interrupts off
ScheduleTimeout(p, n) ==
    /\ InProcess(p) /\ pc[p] = "out" /\ ~locked
    /\ calls[p] < Calls /\ jiffies + n < MaxJiffies
    /\ LET t == <<p, calls[p] + 1>>
       IN /\ expire' = [expire EXCEPT ![t] = jiffies + n]
          /\ fn' = [fn EXCEPT ![t] = "armed"]
          /\ list' = Inserted(list, t, jiffies + n)
    /\ calls' = [calls EXCEPT ![p] = @ + 1]
    /\ state' = [state EXCEPT ![p] = "Blocked"]
    /\ pc' = [pc EXCEPT ![p] = "armed"]
    /\ UNCHANGED <<jiffies, rpc, softirq, cur>>

\* its schedule(SM_NONE): off the run queue, unless it was woken meanwhile
Schedule(p) ==
    /\ InProcess(p) /\ pc[p] = "armed"
    /\ pc' = [pc EXCEPT ![p] = "asleep"]
    /\ cur' \in IF state[p] = "Blocked" THEN Ready \ {p} ELSE Ready
    /\ UNCHANGED <<jiffies, timers, softirq, state, calls>>

\* schedule returns; the timer is left as it is
Return(p) ==
    /\ InProcess(p) /\ pc[p] = "asleep"
    /\ pc' = [pc EXCEPT ![p] = "out"]
    /\ UNCHANGED <<jiffies, timers, softirq, cur, state, calls>>

\* somebody else wakes a sleeper early
Interrupt(p) ==
    /\ state[p] = "Blocked"
    /\ state' = [state EXCEPT ![p] = "Runnable"]
    /\ UNCHANGED <<jiffies, timers, softirq, cur, pc, calls>>

------------------------------------------------------------------------------
(* The other CPU.                                                           *)

\* its timer is created and on its way into the list, or out of it
RemoteLock(r, n) ==
    /\ ~locked
    /\ \/ /\ rpc[r] = "new" /\ jiffies + n < MaxJiffies
          /\ rpc' = [rpc EXCEPT ![r] = "activate"]
          /\ expire' = [expire EXCEPT ![<<r, 0>>] = jiffies + n]
          /\ fn' = [fn EXCEPT ![<<r, 0>>] = "armed"]
       \/ /\ rpc[r] = "active" /\ rpc' = [rpc EXCEPT ![r] = "cancel"]
          /\ UNCHANGED <<expire, fn>>
    /\ UNCHANGED <<jiffies, list, softirq, procs>>

\* activate()
RemoteActivate(r) ==
    /\ rpc[r] = "activate" /\ rpc' = [rpc EXCEPT ![r] = "active"]
    /\ list' = Inserted(list, <<r, 0>>, expire[<<r, 0>>])
    /\ UNCHANGED <<jiffies, fn, expire, softirq, procs>>

\* Fault: cancel() keeps what it should remove.
RemoteCancelOthers(r) ==
    /\ rpc[r] = "cancel" /\ rpc' = [rpc EXCEPT ![r] = "gone"]
    /\ list' \in Retained(list, (0 .. MaxJiffies) \X {<<r, 0>>})
    /\ UNCHANGED <<jiffies, fn, expire, softirq, procs>>

\* cancel(), also of a timer that has been taken out of the list
RemoteCancel(r) ==
    /\ rpc[r] = "cancel" /\ rpc' = [rpc EXCEPT ![r] = "gone"]
    /\ list' \in Retained(list, (0 .. MaxJiffies) \X (Timers \ {<<r, 0>>}))
    /\ UNCHANGED <<jiffies, fn, expire, softirq, procs>>

------------------------------------------------------------------------------
(* The tick, and do_softirq.                                                *)

TopFrame(p) == stack[p][Len(stack[p])]
AtTop(p, at) == cur = p /\ stack[p] # <<>> /\ TopFrame(p).pc = at
SetTop(p, f) == stack' = [stack EXCEPT ![p][Len(stack[p])] = f]
Move(p, to) == SetTop(p, [TopFrame(p) EXCEPT !.pc = to])

\* try_raise_timer_softirq, with what timer_get_first_expire returns: 0 for an
\* empty list, and an error if the lock cannot be had
Raises(now) == list = <<>> \/ Head(list)[1] <= now

AtLimit == count >= MAX_RUNNING_PER_CPU

\* x86_64_do_irq of the timer interrupt: tick_periodic, and do_softirq up to
\* where it turns interrupts on, with the pending bits in its hand; or, when it
\* returns at once, the switch that ends the interrupt
Tick ==
    /\ jiffies' = IF jiffies < MaxJiffies THEN jiffies + 1 ELSE jiffies
    /\ \E raised \in {pending \/ Raises(jiffies')} \cup (IF locked THEN {pending} ELSE {}) :
         IF AtLimit
           THEN pending' = raised /\ cur' \in Ready /\ UNCHANGED <<count, stack>>
           ELSE /\ pending' = FALSE
                /\ count' = count + 1
                /\ stack' = [stack EXCEPT ![cur] =
                               Append(@, [pc |-> IF raised THEN "handler" ELSE "end",
                                          left |-> 0, timer |-> NoTimer])]
                /\ UNCHANGED cur
    /\ UNCHANGED <<timers, running, pc, state, calls>>

\* Fault: the handler does not look whether it runs already.
EnterAlways(p) ==
    /\ AtTop(p, "handler")
    /\ SetTop(p, [TopFrame(p) EXCEPT !.pc = "loop", !.left = TIMER_RUN_CYCLE_THRESHOLD])
    /\ running' = TRUE
    /\ UNCHANGED <<jiffies, timers, pending, count, procs>>

\* DoTimerSoftirq::run: set_run
Enter(p) ==
    /\ AtTop(p, "handler")
    /\ IF running
         THEN Move(p, "end")
         ELSE SetTop(p, [TopFrame(p) EXCEPT !.pc = "loop", !.left = TIMER_RUN_CYCLE_THRESHOLD])
    /\ running' = TRUE
    /\ UNCHANGED <<jiffies, timers, pending, count, procs>>

Expired(x) == x[1] < jiffies

\* one round of the loop: the lock is taken, or the first timer is due, or not
Contended(p) ==
    /\ AtTop(p, "loop") /\ TopFrame(p).left > 0 /\ locked
    /\ SetTop(p, [TopFrame(p) EXCEPT !.left = @ - 1])
    /\ UNCHANGED <<jiffies, timers, running, pending, count, procs>>

Take(p) ==
    /\ AtTop(p, "loop") /\ TopFrame(p).left > 0 /\ ~locked
    /\ list # <<>> /\ Expired(Head(list))
    /\ SetTop(p, [TopFrame(p) EXCEPT !.pc = "fire", !.left = @ - 1, !.timer = Head(list)[2]])
    /\ list' = Tail(list)
    /\ UNCHANGED <<jiffies, rpc, fn, expire, running, pending, count, procs>>

LoopEnd(p) ==
    /\ AtTop(p, "loop")
    /\ TopFrame(p).left > 0 => ~locked /\ (list # <<>> => ~Expired(Head(list)))
    /\ SetTop(p, [TopFrame(p) EXCEPT !.pc = "clear", !.left = 0])
    /\ UNCHANGED <<jiffies, timers, running, pending, count, procs>>

\* Timer::run: the function is taken and run; it wakes a sleeper
Fire(p) ==
    /\ AtTop(p, "fire")
    /\ LET t == TopFrame(p).timer
       IN /\ fn' = [fn EXCEPT ![t] = "ran"]
          /\ state' = [q \in Sleepers |->
                         IF fn[t] = "armed" /\ t[1] = q THEN "Runnable" ELSE state[q]]
    /\ SetTop(p, [TopFrame(p) EXCEPT !.pc = "loop", !.timer = NoTimer])
    /\ UNCHANGED <<jiffies, list, rpc, expire, running, pending, count, cur, pc, calls>>

\* Fault: the handler stays marked as running.
ClearNothing(p) ==
    /\ AtTop(p, "clear")
    /\ Move(p, "end")
    /\ UNCHANGED <<jiffies, timers, running, pending, count, procs>>

ClearRun(p) ==
    /\ AtTop(p, "clear")
    /\ Move(p, "end")
    /\ running' = FALSE
    /\ UNCHANGED <<jiffies, timers, pending, count, procs>>

\* do_softirq returns, and the interrupt ends with __schedule(SM_PREEMPT), or
\* without it if the process holds a lock.  The loop around the handlers leaves
\* no trace: it stops when bits are pending, and when none are it looks at them
\* again before it turns interrupts on, so a further round has nothing to run.
Leave(p) ==
    /\ AtTop(p, "end")
    /\ count' = count - 1
    /\ stack' = [stack EXCEPT ![p] = SubSeq(@, 1, Len(@) - 1)]
    /\ cur' \in Ready
    /\ UNCHANGED <<jiffies, timers, running, pending, pc, state, calls>>

Frame(p) ==
    \/ Enter(p) \/ Contended(p) \/ Take(p) \/ LoopEnd(p)
    \/ Fire(p) \/ ClearRun(p) \/ Leave(p)

Sleeper(p) ==
    \/ \E n \in 0 .. 1 : ScheduleTimeout(p, n)
    \/ Schedule(p) \/ Return(p) \/ Interrupt(p)

Next ==
    \/ Tick
    \/ \E p \in Procs : Frame(p)
    \/ \E p \in Sleepers : Sleeper(p)
    \/ \E r \in Remote : RemoteActivate(r) \/ RemoteCancel(r) \/ \E n \in 0 .. 1 : RemoteLock(r, n)

Spec == Init /\ [][Next]_vars

\* Ticks keep coming.  The scheduler gives the processor to every process that
\* can run again and again, and a process that has it again and again gets on.
\* A step is short beside a tick, so a frame gets on too, however many ticks
\* come on top of it.  The other CPU lets go of the lock.
ProcessFairness ==
    /\ \A p \in Procs :
         /\ SF_vars(cur # p /\ Leave(cur) /\ cur' = p)
         /\ \A i \in 1 .. MAX_RUNNING_PER_CPU : SF_vars(Len(stack[p]) = i /\ Frame(p))
    /\ \A p \in Sleepers : SF_vars(Schedule(p) \/ Return(p))
    /\ \A r \in Remote : WF_vars(RemoteActivate(r) \/ RemoteCancel(r))

FairSpec == Spec /\ WF_vars(Tick) /\ ProcessFairness

------------------------------------------------------------------------------
(* Properties.                                                              *)

InList(t) == \E i \in 1 .. Len(list) : list[i][2] = t
AllFrames == {x \in Procs \X (1 .. MAX_RUNNING_PER_CPU) : x[2] <= Len(stack[x[1]])}
FrameOf(x) == stack[x[1]][x[2]]
Running == {x \in AllFrames : FrameOf(x).pc \in {"loop", "fire", "clear"}}

\* However ticks nest and processes are switched in the middle of a softirq, one
\* frame at most is inside the timer handler, `running` is set exactly while one
\* is, and the nesting counter is the number of frames on all stacks.
OneRunner ==
    /\ \A x, y \in Running : x = y
    /\ running <=> Running # {}
    /\ count = Cardinality(AllFrames)

\* A process that sleeps in schedule_timeout has a timer that will wake it: in
\* the list, or in the hand of a frame that is about to run it.  Nothing between
\* mark_sleep and schedule, no early wake-up and no timer of an earlier call
\* loses it.
SleeperHasTimer ==
    \A p \in Sleepers :
      state[p] = "Blocked" =>
        LET t == <<p, calls[p]>>
        IN fn[t] = "armed" /\ (InList(t) \/ \E x \in AllFrames : FrameOf(x).timer = t)

\* Every call of schedule_timeout returns: the timer is run although a handler
\* may be preempted half done, loses its turn to another frame, meets a locked
\* list or stops at its limit.
SleepEnds == \A p \in Sleepers : pc[p] # "out" ~> pc[p] = "out"

==============================================================================
