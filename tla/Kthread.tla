------------------------------- MODULE Kthread -------------------------------
(***************************************************************************)
(* Kernel threads: process/kthread.rs, and __inner_create of               *)
(* arch/x86_64/process/kthread.rs.                                         *)
(*                                                                         *)
(* A creator puts a KernelThreadCreateInfo into KTHREAD_CREATE_LIST, wakes *)
(* kthreadd and polls for the result; kthreadd forks; the new thread takes *)
(* its info from a raw pointer, reports, and sleeps until it is woken.     *)
(* The info is reference counted, but one of its references is the raw     *)
(* pointer in the trap frame, counted by hand with a flag.  A request, its *)
(* creator and its thread have one name.                                   *)
(***************************************************************************)
EXTENDS Naturals, Sequences, FiniteSets

CONSTANTS
    Requests,     \* the calls of create() and create_and_run()
    None          \* no request

ASSUME KthreadAssumption == None \notin Requests /\ IsFiniteSet(Requests)

VARIABLES
    list,         \* KTHREAD_CREATE_LIST
    dpc, cur,     \* kthreadd: where it is, the request it has popped
    dstate,       \* its process state
    chld,         \* SIGCHLD is pending for it
    created,      \* KernelThreadCreateInfo.created
    result,       \* whether result_pcb holds a pcb
    unsafe,       \* has_unsafe_arc_instance
    strong,       \* strong count of the info's Arc
    cpc,          \* where the creator is
    tpc, tstate,  \* where the thread is; its process state
    should_stop,  \* KernelThreadFlags::SHOULD_STOP
    woken, ran,   \* history: its creator has woken it to run; its closure ran
    panicked      \* an assert or an unwrap has failed

daemon == <<list, dpc, cur, dstate, chld>>
info == <<created, result, unsafe, strong>>
thread == <<tpc, tstate, should_stop, ran>>
vars == <<daemon, info, thread, cpc, woken, panicked>>

TypeOK ==
    /\ list \in Seq(Requests) /\ Len(list) <= Cardinality(Requests)
    /\ dpc \in {"top", "fork", "error", "drop", "window", "parked"}
    /\ cur \in Requests \cup {None}
    /\ dstate \in {"Runnable", "Blocked"}
    /\ chld \in BOOLEAN
    /\ created \in [Requests -> {"NotCreated", "Created", "ErrorOccured"}]
    /\ result \in [Requests -> BOOLEAN]
    /\ unsafe \in [Requests -> BOOLEAN]
    /\ strong \in [Requests -> 0 .. 4]
    /\ cpc \in [Requests -> {"new", "listed", "poll", "got", "failed",
                             "running", "stop", "stopping", "done"}]
    /\ tpc \in [Requests -> {"none", "born", "parsed", "created", "asleep", "check",
                             "run", "exit", "notify", "gone"}]
    /\ tstate \in [Requests -> {"None", "Runnable", "Blocked", "Exited"}]
    /\ should_stop \in [Requests -> BOOLEAN]
    /\ woken \in [Requests -> BOOLEAN] /\ ran \in [Requests -> BOOLEAN]
    /\ panicked \in BOOLEAN

\* after init_stage2: kthreadd runs
Init ==
    /\ list = <<>> /\ dpc = "top" /\ cur = None
    /\ dstate = "Runnable" /\ chld = FALSE
    /\ created = [r \in Requests |-> "NotCreated"]
    /\ result = [r \in Requests |-> FALSE]
    /\ unsafe = [r \in Requests |-> FALSE]
    /\ strong = [r \in Requests |-> 0]
    /\ cpc = [r \in Requests |-> "new"]
    /\ tpc = [r \in Requests |-> "none"]
    /\ tstate = [r \in Requests |-> "None"]
    /\ should_stop = [r \in Requests |-> FALSE]
    /\ woken = [r \in Requests |-> FALSE] /\ ran = [r \in Requests |-> FALSE]
    /\ panicked = FALSE

Creator(r, from, to) == ~panicked /\ cpc[r] = from /\ cpc' = [cpc EXCEPT ![r] = to]
Daemon(from, to) == ~panicked /\ dpc = from /\ dpc' = to
Thread(r, from, to) == ~panicked /\ tpc[r] = from /\ tpc' = [tpc EXCEPT ![r] = to]

Drop(r) == strong' = [strong EXCEPT ![r] = @ - 1]

\* ProcessManager::wakeup, to which only a blocked process reacts
WakeupThread(r) == tstate' = [tstate EXCEPT ![r] = IF @ = "Blocked" THEN "Runnable" ELSE @]

------------------------------------------------------------------------------
(* create, create_and_run and stop.                                         *)

\* create(): the info, and a second reference to it in the list
Push(r) ==
    /\ Creator(r, "new", "listed")
    /\ list' = Append(list, r)
    /\ strong' = [strong EXCEPT ![r] = 2]
    /\ UNCHANGED <<dpc, cur, dstate, chld, created, result, unsafe, thread, woken, panicked>>

WakeDaemon(r) ==
    /\ Creator(r, "listed", "poll")
    /\ dstate' = "Runnable"
    /\ UNCHANGED <<list, dpc, cur, chld, info, thread, woken, panicked>>

\* poll_result(), and create() returns
PollOk(r) ==
    /\ created[r] = "Created"
    /\ Creator(r, "poll", "got")
    /\ result' = [result EXCEPT ![r] = FALSE]
    /\ Drop(r)
    /\ UNCHANGED <<daemon, created, unsafe, thread, woken, panicked>>

PollError(r) ==
    /\ created[r] = "ErrorOccured"
    /\ Creator(r, "poll", "failed")
    /\ unsafe' = [unsafe EXCEPT ![r] = FALSE]
    /\ strong' = [strong EXCEPT ![r] = @ - (IF unsafe[r] THEN 2 ELSE 1)]
    /\ UNCHANGED <<daemon, created, result, thread, woken, panicked>>

\* the wakeup of create_and_run, or the caller's own
Run(r) ==
    /\ Creator(r, "got", "running")
    /\ WakeupThread(r)
    /\ woken' = [woken EXCEPT ![r] = TRUE]
    /\ panicked' = (tstate[r] = "Exited")
    /\ UNCHANGED <<daemon, info, tpc, should_stop, ran>>

StopFlag(r) ==
    /\ \E from \in {"got", "running"} : Creator(r, from, "stop")
    /\ should_stop' = [should_stop EXCEPT ![r] = TRUE]
    /\ UNCHANGED <<daemon, info, tpc, tstate, ran, woken, panicked>>

\* Fault: a thread that sleeps is not woken.
StopWithoutWake(r) ==
    /\ Creator(r, "stop", "stopping")
    /\ UNCHANGED <<daemon, info, thread, woken, panicked>>

StopWake(r) ==
    /\ Creator(r, "stop", "stopping")
    /\ WakeupThread(r)
    /\ UNCHANGED <<daemon, info, tpc, should_stop, ran, woken, panicked>>

StopReturn(r) ==
    /\ tstate[r] = "Exited"
    /\ Creator(r, "stopping", "done")
    /\ UNCHANGED <<daemon, info, thread, woken, panicked>>

------------------------------------------------------------------------------
(* kthread_daemon and __inner_create.                                       *)

\* pop a request; __inner_create turns a reference into a raw pointer
Take ==
    /\ list # <<>> /\ Daemon("top", "fork")
    /\ cur' = Head(list) /\ list' = Tail(list)
    /\ panicked' = unsafe[Head(list)]
    /\ unsafe' = [unsafe EXCEPT ![Head(list)] = TRUE]
    /\ strong' = [strong EXCEPT ![Head(list)] = @ + 1]
    /\ UNCHANGED <<dstate, chld, created, result, thread, cpc, woken>>

\* fork() creates the thread and wakes it
ForkOk ==
    /\ Daemon("fork", "drop")
    /\ tpc' = [tpc EXCEPT ![cur] = "born"]
    /\ tstate' = [tstate EXCEPT ![cur] = "Runnable"]
    /\ UNCHANGED <<list, cur, dstate, chld, info, should_stop, ran, cpc, woken, panicked>>

\* Fault: the raw pointer is forgotten.
ForkErrLeaking ==
    /\ Daemon("fork", "error")
    /\ UNCHANGED <<list, cur, dstate, chld, info, thread, cpc, woken, panicked>>

\* Fault: fork() fails when the thread runs already.
ForkErrAfterBirth ==
    /\ Daemon("fork", "error")
    /\ panicked' = ~unsafe[cur]
    /\ unsafe' = [unsafe EXCEPT ![cur] = FALSE]
    /\ Drop(cur)
    /\ tpc' = [tpc EXCEPT ![cur] = "born"]
    /\ tstate' = [tstate EXCEPT ![cur] = "Runnable"]
    /\ UNCHANGED <<list, cur, dstate, chld, created, result, should_stop, ran, cpc, woken>>

\* fork() fails: parse_unsafe_arc_ptr takes the reference back and drops it
ForkErr ==
    /\ Daemon("fork", "error")
    /\ panicked' = ~unsafe[cur]
    /\ unsafe' = [unsafe EXCEPT ![cur] = FALSE]
    /\ Drop(cur)
    /\ UNCHANGED <<list, cur, dstate, chld, created, result, thread, cpc, woken>>

\* Fault: the creator is not told.
StoreNothing ==
    /\ Daemon("error", "drop")
    /\ UNCHANGED <<list, cur, dstate, chld, info, thread, cpc, woken, panicked>>

StoreError ==
    /\ Daemon("error", "drop")
    /\ created' = [created EXCEPT ![cur] = "ErrorOccured"]
    /\ UNCHANGED <<list, cur, dstate, chld, result, unsafe, strong, thread, cpc, woken, panicked>>

\* the popped reference goes at the end of the loop body
DropRequest ==
    /\ Daemon("drop", "top")
    /\ Drop(cur) /\ cur' = None
    /\ UNCHANGED <<list, dstate, chld, created, result, unsafe, thread, cpc, woken, panicked>>

\* the list is empty: drop its lock, then mark_sleep, then schedule
Emptied ==
    /\ list = <<>> /\ Daemon("top", "window")
    /\ UNCHANGED <<list, cur, dstate, chld, info, thread, cpc, woken, panicked>>

DaemonSleep ==
    /\ Daemon("window", "parked")
    /\ dstate' = "Blocked"
    /\ UNCHANGED <<list, cur, chld, info, thread, cpc, woken, panicked>>

DaemonResume ==
    /\ dstate = "Runnable" /\ Daemon("parked", "top")
    /\ UNCHANGED <<list, cur, dstate, chld, info, thread, cpc, woken, panicked>>

------------------------------------------------------------------------------
(* kernel_thread_bootstrap_stage2.                                          *)

\* parse_unsafe_arc_ptr, take_closure, and the pcb of set_create_ok
Parse(r) ==
    /\ Thread(r, "born", "parsed")
    /\ panicked' = ~unsafe[r]
    /\ unsafe' = [unsafe EXCEPT ![r] = FALSE]
    /\ result' = [result EXCEPT ![r] = TRUE]
    /\ UNCHANGED <<daemon, created, strong, tstate, should_stop, ran, cpc, woken>>

SetCreateOk(r) ==
    /\ Thread(r, "parsed", "created")
    /\ created' = [created EXCEPT ![r] = "Created"]
    /\ UNCHANGED <<daemon, result, unsafe, strong, tstate, should_stop, ran, cpc, woken, panicked>>

\* drop(info), then mark_sleep and schedule
ThreadSleep(r) ==
    /\ Thread(r, "created", "asleep")
    /\ Drop(r)
    /\ tstate' = [tstate EXCEPT ![r] = "Blocked"]
    /\ UNCHANGED <<daemon, created, result, unsafe, should_stop, ran, cpc, woken, panicked>>

ThreadResume(r) ==
    /\ tstate[r] = "Runnable" /\ Thread(r, "asleep", "check")
    /\ UNCHANGED <<daemon, info, tstate, should_stop, ran, cpc, woken, panicked>>

\* Fault: the closure runs whatever should_stop says.
RunAnyway(r) ==
    /\ Thread(r, "check", "run")
    /\ ran' = [ran EXCEPT ![r] = TRUE]
    /\ UNCHANGED <<daemon, info, tstate, should_stop, cpc, woken, panicked>>

\* should_stop()
CheckStop(r) ==
    /\ Thread(r, "check", IF should_stop[r] THEN "exit" ELSE "run")
    /\ ran' = [ran EXCEPT ![r] = ~should_stop[r]]
    /\ UNCHANGED <<daemon, info, tstate, should_stop, cpc, woken, panicked>>

\* the closure returns
ClosureReturns(r) ==
    /\ Thread(r, "run", "exit")
    /\ UNCHANGED <<daemon, info, tstate, should_stop, ran, cpc, woken, panicked>>

\* ProcessManager::exit
Exit(r) ==
    /\ Thread(r, "exit", "notify")
    /\ tstate' = [tstate EXCEPT ![r] = "Exited"]
    /\ UNCHANGED <<daemon, info, should_stop, ran, cpc, woken, panicked>>

\* exit_notify: SIGCHLD wakes kthreadd once; it is never handled, and a
\* process with a pending signal wants no other
ExitNotify(r) ==
    /\ Thread(r, "notify", "gone")
    /\ chld' = TRUE
    /\ dstate' = IF chld THEN dstate ELSE "Runnable"
    /\ UNCHANGED <<list, dpc, cur, info, tstate, should_stop, ran, cpc, woken, panicked>>

------------------------------------------------------------------------------
CreatorStep(r) ==
    \/ Push(r) \/ WakeDaemon(r) \/ PollOk(r) \/ PollError(r) \/ Run(r)
    \/ StopFlag(r) \/ StopWake(r) \/ StopReturn(r)

DaemonStep ==
    \/ Take \/ ForkOk \/ ForkErr \/ StoreError \/ DropRequest
    \/ Emptied \/ DaemonSleep \/ DaemonResume

ThreadStep(r) ==
    \/ Parse(r) \/ SetCreateOk(r) \/ ThreadSleep(r) \/ ThreadResume(r)
    \/ CheckStop(r) \/ ClosureReturns(r) \/ Exit(r) \/ ExitNotify(r)

Next ==
    \/ DaemonStep
    \/ \E r \in Requests : CreatorStep(r) \/ ThreadStep(r)

Spec == Init /\ [][Next]_vars

\* Every process gets the processor again (a creator that spins is preempted by
\* the tick), calls that have begun go on, and a closure that is told to stop
\* returns.  Nobody has to begin a call, and a closure may run for ever.
RequestFairness ==
    \A r \in Requests :
        /\ WF_vars(WakeDaemon(r) \/ PollOk(r) \/ PollError(r))
        /\ WF_vars(StopWake(r) \/ StopReturn(r))
        /\ WF_vars(ThreadStep(r) /\ (tpc[r] = "run" => should_stop[r]))

Fairness == WF_vars(DaemonStep) /\ RequestFairness

FairSpec == Spec /\ Fairness

------------------------------------------------------------------------------
(* Properties.                                                              *)

Listed(r) == \E i \in 1 .. Len(list) : list[i] = r
B(b) == IF b THEN 1 ELSE 0

\* The strong count of an info is the number of those that use it: the creator,
\* the list or kthreadd, the raw pointer and the thread.  The raw pointer is
\* always on its way to somebody who takes it back, so poll_result, which would
\* release it by hand, never finds it after an error; and nothing is leaked.
RawArcAccounted ==
    \A r \in Requests :
      /\ strong[r] = B(cpc[r] \in {"listed", "poll"}) + B(Listed(r) \/ cur = r)
                       + B(unsafe[r]) + B(tpc[r] \in {"parsed", "created"})
      /\ unsafe[r] <=> (dpc = "fork" /\ cur = r) \/ tpc[r] = "born"

\* No assert of generate_unsafe_arc_ptr and parse_unsafe_arc_ptr fails, and the
\* thread create_and_run wakes has not exited already.
AssertsHold == ~panicked

\* "After a kernel thread has been created it is asleep and has to be woken with
\* ProcessManager::wakeup" (docs/kernel/process_management/kthread.md): the
\* closure runs only when the creator has woken the thread to run; a stop()
\* that comes first wakes it too, but it exits without running its closure.
RunsOnlyIfWoken == \A r \in Requests : ran[r] => woken[r]

\* A creator gets its answer once kthreadd has popped its request, whether the
\* fork succeeds or fails.
PoppedIsAnswered ==
    \A r \in Requests : cur = r ~> cpc[r] \notin {"listed", "poll"}

\* stop() returns if the thread has gone to sleep, or further, when stop() sets
\* the flag: whether it is asleep, about to test should_stop, in its closure or
\* exiting.
StopReturns ==
    \A r \in Requests : (cpc[r] = "stop" /\ tpc[r] # "created") ~> cpc[r] = "done"

==============================================================================
