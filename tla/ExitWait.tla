------------------------------- MODULE ExitWait -------------------------------
(***************************************************************************)
(* The end of a process: fork and exit as far as parents, children and the *)
(* process's wait_queue are concerned (process/mod.rs, fork.rs), and       *)
(* wait4 by the pid of a child or for any child (process/exit.rs).         *)
(*                                                                         *)
(* A process has one thread.  A pcb that is released from ALL_PROCESS is   *)
(* dropped at once: no leaked reference keeps it.                          *)
(***************************************************************************)
EXTENDS Lists

CONSTANTS
    Procs, InitProc,   \* the processes; the first one
    None,              \* nobody
    Nappers,           \* the processes that sleep for other reasons too
    ByPid,             \* the processes that also wait for a child by its pid
    MaxSignals         \* bound: signals sent

VARIABLES
    state,        \* of each process; "none" before it is forked, "released" at the end
    parent,       \* parent_pcb
    children,     \* the pids in children
    dead, queue,  \* wait_queue of each process
    pc,           \* where each process is
    target,       \* the pid of its wait4, None for any child
    nohang,       \* WNOHANG of its wait4
    sig,          \* the processes with HAS_PENDING_SIGNAL
    signals,      \* signals left
    panic         \* the kernel has panicked

wait == <<target, nohang>>
vars == <<state, parent, children, dead, queue, pc, wait, sig, signals, panic>>

TypeOK ==
    /\ state \in [Procs -> {"none", "Runnable", "Blocked", "Exited", "released"}]
    /\ parent \in [Procs -> Procs \cup {None}]
    /\ children \in [Procs -> Seq(Procs)]
    /\ dead \in [Procs -> BOOLEAN] /\ queue \in [Procs -> Seq(Procs)]
    /\ pc \in [Procs -> {"user", "nap", "find", "check", "sleep", "asleep", "scan", "doze",
                         "mark_dead", "notify", "end"}]
    /\ target \in [Procs -> Procs \cup {None}]
    /\ nohang \in [Procs -> BOOLEAN]
    /\ sig \subseteq Procs /\ signals \in 0 .. MaxSignals /\ panic \in BOOLEAN

Init ==
    /\ state = [p \in Procs |-> IF p = InitProc THEN "Runnable" ELSE "none"]
    /\ parent = [p \in Procs |-> None]
    /\ children = [p \in Procs |-> <<>>]
    /\ dead = [p \in Procs |-> FALSE] /\ queue = [p \in Procs |-> <<>>]
    /\ pc = [p \in Procs |-> "user"]
    /\ target = [p \in Procs |-> None] /\ nohang = [p \in Procs |-> FALSE]
    /\ sig = {} /\ signals = MaxSignals /\ panic = FALSE

Runs(p) == ~panic /\ state[p] = "Runnable"
Goto(p, from, to) == pc[p] = from /\ pc' = [pc EXCEPT ![p] = to]
Wakes(ps) == state' = [p \in Procs |-> IF p \in ps /\ state[p] = "Blocked"
                                         THEN "Runnable" ELSE state[p]]

\* the child is pushed by do_create_pcb and again by copy_group
Fork(p, c) ==
    /\ Runs(p) /\ pc[p] = "user" /\ state[c] = "none"
    /\ state' = [state EXCEPT ![c] = "Runnable"]
    /\ parent' = [parent EXCEPT ![c] = p]
    /\ children' = [children EXCEPT ![p] = @ \o <<c, c>>]
    /\ UNCHANGED <<dead, queue, pc, wait, sig, signals, panic>>

\* some other interruptible sleep, and its end
Nap(p) ==
    /\ Runs(p) /\ p \in Nappers /\ Goto(p, "user", "nap")
    /\ state' = [state EXCEPT ![p] = "Blocked"]
    /\ UNCHANGED <<parent, children, dead, queue, wait, sig, signals, panic>>

NapEnds(p) ==
    /\ ~panic /\ Goto(p, "nap", "user") /\ Wakes({p})
    /\ UNCHANGED <<parent, children, dead, queue, wait, sig, signals, panic>>

Signal(p) ==
    /\ ~panic /\ state[p] \in {"Runnable", "Blocked"} /\ p \notin sig /\ signals > 0
    /\ sig' = sig \cup {p} /\ signals' = signals - 1
    /\ Wakes({p})
    /\ UNCHANGED <<parent, children, dead, queue, pc, wait, panic>>

------------------------------------------------------------------------------
(* ProcessManager::exit.                                                    *)

ExitState(p) ==
    /\ Runs(p) /\ p # InitProc /\ Goto(p, "user", "mark_dead")
    /\ state' = [state EXCEPT ![p] = "Exited"]
    /\ UNCHANGED <<parent, children, dead, queue, wait, sig, signals, panic>>

\* Fault: the processes that wait are woken, and the queue still takes new ones.
ExitWakeOnly(p) ==
    /\ ~panic /\ Goto(p, "mark_dead", "notify")
    /\ Wakes({q \in Procs : Has(queue[p], q)})
    /\ queue' = [queue EXCEPT ![p] = <<>>]
    /\ UNCHANGED <<parent, children, dead, wait, sig, signals, panic>>

\* mark_dead, then wakeup_all of the interruptible sleepers
ExitWake(p) ==
    /\ ~panic /\ Goto(p, "mark_dead", "notify")
    /\ dead' = [dead EXCEPT ![p] = TRUE]
    /\ Wakes({q \in Procs : Has(queue[p], q)})
    /\ queue' = [queue EXCEPT ![p] = <<>>]
    /\ UNCHANGED <<parent, children, wait, sig, signals, panic>>

\* exit_notify: adopt_childen pushes the children to the first process's, and leaves
\* their parent_pcb as it is; the parent, if there is one, is sent SIGCHLD
ExitNotify(p) ==
    /\ ~panic /\ Goto(p, "notify", "end")
    /\ children' = [children EXCEPT ![InitProc] = @ \o children[p]]
    /\ IF parent[p] # None /\ state[parent[p]] \in {"Runnable", "Blocked"}
         THEN sig' = sig \cup {parent[p]} /\ Wakes({parent[p]})
         ELSE UNCHANGED <<sig, state>>
    /\ UNCHANGED <<parent, dead, queue, wait, signals, panic>>

------------------------------------------------------------------------------
(* do_wait.                                                                 *)

\* what the drop of a released pcb does to its parent's children
Dropped(c) == [children EXCEPT ![parent[c]] = SelectSeq(@, LAMBDA x : x # c)]

\* wait4 returns; what is left of it is forgotten
Return(p) ==
    /\ pc' = [pc EXCEPT ![p] = "user"]
    /\ target' = [target EXCEPT ![p] = None] /\ nohang' = [nohang EXCEPT ![p] = FALSE]

\* kernel_wait4 for a child, or for any child when c is None
Wait4(p, c, opt) ==
    /\ Runs(p) /\ Goto(p, "user", IF c = None THEN "scan" ELSE "find")
    /\ c = None \/ (p \in ByPid /\ Has(children[p], c))
    /\ target' = [target EXCEPT ![p] = c] /\ nohang' = [nohang EXCEPT ![p] = opt]
    /\ UNCHANGED <<state, parent, children, dead, queue, sig, signals, panic>>

\* ProcessManager::find, whose result is unwrapped
Find(p) ==
    /\ Runs(p) /\ Goto(p, "find", "check")
    /\ panic' = (state[target[p]] = "released")
    /\ UNCHANGED <<state, parent, children, dead, queue, wait, sig, signals>>

\* Fault: a child that has exited is another round.
CheckAgain(p) ==
    /\ Runs(p) /\ pc[p] = "check"
    /\ LET c == target[p]
       IN \/ /\ state[c] = "Runnable" /\ ~nohang[p]
             /\ pc' = [pc EXCEPT ![p] = "sleep"]
             /\ UNCHANGED <<state, children, wait>>
          \/ /\ (state[c] = "Runnable" /\ nohang[p]) \/ state[c] = "Blocked"
             /\ Return(p)
             /\ UNCHANGED <<state, children>>
          \/ /\ state[c] = "Exited"
             /\ pc' = [pc EXCEPT ![p] = "find"]
             /\ UNCHANGED <<state, children, wait>>
    /\ UNCHANGED <<parent, dead, queue, sig, signals, panic>>

\* do_waitpid
Check(p) ==
    /\ Runs(p) /\ pc[p] = "check"
    /\ LET c == target[p]
       IN \/ /\ state[c] = "Runnable" /\ ~nohang[p]
             /\ pc' = [pc EXCEPT ![p] = "sleep"]
             /\ UNCHANGED <<state, children, wait>>
          \/ /\ (state[c] = "Runnable" /\ nohang[p]) \/ state[c] = "Blocked"
             /\ Return(p)   \* 0
             /\ UNCHANGED <<state, children>>
          \/ /\ state[c] = "Exited"
             /\ Return(p)   \* c
             /\ state' = [state EXCEPT ![c] = "released"]
             /\ children' = Dropped(c)
    /\ UNCHANGED <<parent, dead, queue, sig, signals, panic>>

\* WaitQueue::sleep on the child's queue; ESRCH, when the queue is dead, is a new round
Sleep(p) ==
    /\ Runs(p) /\ pc[p] = "sleep"
    /\ LET c == target[p]
       IN IF dead[c]
            THEN pc' = [pc EXCEPT ![p] = "find"] /\ UNCHANGED <<state, queue>>
            ELSE /\ pc' = [pc EXCEPT ![p] = "asleep"]
                 /\ state' = [state EXCEPT ![p] = "Blocked"]
                 /\ queue' = [queue EXCEPT ![c] = Append(@, p)]
    /\ UNCHANGED <<parent, children, dead, wait, sig, signals, panic>>

\* awake: notask!, which gives up on a pending signal and otherwise goes round
Awake(p) ==
    /\ Runs(p) /\ pc[p] = "asleep"
    /\ IF p \in sig
         THEN Return(p)   \* ERESTARTSYS
         ELSE pc' = [pc EXCEPT ![p] = "find"] /\ UNCHANGED wait
    /\ UNCHANGED <<state, parent, children, dead, queue, sig, signals, panic>>

\* a signal is handled on the return to user mode
Handle(p) ==
    /\ Runs(p) /\ pc[p] = "user" /\ p \in sig
    /\ sig' = sig \ {p}
    /\ UNCHANGED <<state, parent, children, dead, queue, pc, wait, signals, panic>>

\* the first of the children that is not there (ECHILD) or has exited, or none
Scan(p) ==
    /\ Runs(p) /\ pc[p] = "scan"
    /\ LET Ends(i) == state[children[p][i]] \in {"released", "Exited"}
           hits == {i \in DOMAIN children[p] : Ends(i)}
           first == CHOOSE i \in hits : \A j \in hits : i <= j
           c == children[p][first]
       IN \/ /\ hits # {} /\ state[c] = "released"
             /\ Return(p)   \* ECHILD
             /\ UNCHANGED <<state, children>>
          \/ /\ hits # {} /\ state[c] = "Exited"
             /\ Return(p)   \* c
             /\ state' = [state EXCEPT ![c] = "released"]
             /\ children' = Dropped(c)
          \/ /\ children[p] # <<>> /\ hits = {}
             /\ pc' = [pc EXCEPT ![p] = "doze"]
             /\ state' = [state EXCEPT ![p] = "Blocked"]
             /\ UNCHANGED <<children, wait>>
          \/ /\ children[p] = <<>> /\ (p \in sig \/ nohang[p])   \* notask!
             /\ Return(p)   \* ECHILD with WNOHANG, else ERESTARTSYS
             /\ UNCHANGED <<state, children>>
    /\ UNCHANGED <<parent, dead, queue, sig, signals, panic>>

\* the end of the nanosleep between two scans
Doze(p) ==
    /\ ~panic /\ Goto(p, "doze", "scan") /\ Wakes({p})
    /\ UNCHANGED <<parent, children, dead, queue, wait, sig, signals, panic>>

Kernel(p) ==
    \/ ExitWake(p) \/ ExitNotify(p)
    \/ Find(p) \/ Check(p) \/ Sleep(p) \/ Awake(p) \/ Handle(p)
    \/ Scan(p) \/ Doze(p) \/ NapEnds(p)

User(p) ==
    \/ \E c \in Procs : Fork(p, c)
    \/ \E c \in Procs \cup {None}, opt \in BOOLEAN : Wait4(p, c, opt)
    \/ Nap(p) \/ ExitState(p)

Next == \E p \in Procs : Kernel(p) \/ User(p) \/ Signal(p)

Spec == Init /\ [][Next]_vars

\* a process in the kernel keeps going, when it is not asleep
Fairness == \A p \in Procs : WF_vars(Kernel(p))

FairSpec == Spec /\ Fairness

------------------------------------------------------------------------------
(* Properties.                                                              *)

\* A process asleep in wait4 is in the wait_queue of a process that is yet to wake
\* those in it: an exit between the check of the child's state and the sleep is not
\* missed, since the queue is marked dead first.
NoSleepThroughExit ==
    \A p \in Procs :
        pc[p] = "asleep" /\ state[p] = "Blocked" =>
            /\ Has(queue[target[p]], p)
            /\ pc[target[p]] \notin {"notify", "end"}

\* wait4 for a child by its pid returns once the child has exited.
WaitReturns ==
    \A p \in Procs :
        (pc[p] \in {"find", "check", "sleep", "asleep"} /\ state[target[p]] = "Exited")
            ~> (pc[p] = "user" \/ panic)
=============================================================================
