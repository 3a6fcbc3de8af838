-------------------------------- MODULE Signal --------------------------------
(***************************************************************************)
(* Signals of one process: kill from other processes (ipc/signal.rs), the  *)
(* masks and actions the process sets, and their handling on its return to *)
(* user mode (exception/entry.rs, arch/x86_64/ipc/signal.rs).              *)
(*                                                                         *)
(* The lock of sig_info protects sig_pending, which is a set of signals    *)
(* and a queue, and sig_blocked; a section under it is a step.  sig_struct *)
(* protects the actions, and is held over two steps by signal_wake_up and  *)
(* by the calls that change the mask.  sig_shared_pending is not in the    *)
(* state: nothing is ever put in it.                                       *)
(***************************************************************************)
EXTENDS Naturals, Sequences, FiniteSets

CONSTANTS
    Senders,    \* processes that send signals
    Sigs,       \* the numbers of the signals they send
    Actions,    \* what sigaction sets: a subset of {"Default", "Ignore", "Customized"}
    None,       \* nobody
    MaxQueue    \* bound: infos in the queue

SIGKILL == 9
SIGCHLD == 17
SIGCONT == 18
SIGSTOP == 19

VARIABLES
    signal, queue,   \* sig_pending: the set of signals, the queue of their infos
    blocked,         \* sig_blocked
    handlers,        \* sig_struct: the action of each signal
    lock,            \* who holds sig_struct over several steps, or None
    flag,            \* HAS_PENDING_SIGNAL
    state,           \* of the process
    pc, taken,       \* where it is, and the signal it handles
    spc, sig,        \* where each sender is, and what it sends
    seen             \* the state of the process that signal_wake_up has read

pending == <<signal, queue>>
target == <<state, pc, taken>>
sender == <<spc, sig, seen>>
vars == <<pending, blocked, handlers, lock, flag, target, sender>>

States == {"Runnable", "Blocked", "Uninterruptible", "Stopped", "Exited"}

\* Everything has its type.
TypeOK ==
    /\ signal \subseteq Sigs /\ queue \in Seq(Sigs) /\ blocked \subseteq Sigs
    /\ handlers \in [Sigs -> {"Default", "Ignore", "Customized"}]
    /\ lock \in Senders \cup {None, "self"} /\ flag \in BOOLEAN
    /\ state \in States
    /\ pc \in {"user", "kernel", "recalc", "clear", "sleep", "loop", "handle", "dead"}
    /\ taken \in Sigs
    /\ spc \in [Senders -> {"idle", "prepare", "push", "wants", "empty", "insert", "lock", "wake"}]
    /\ sig \in [Senders -> Sigs] /\ seen \in [Senders -> States]

Init ==
    /\ signal = {} /\ queue = <<>> /\ blocked = {}
    /\ handlers = [n \in Sigs |-> "Default"]
    /\ lock = None /\ flag = FALSE
    /\ state = "Runnable" /\ pc = "user" /\ taken = SIGKILL
    /\ spc = [s \in Senders |-> "idle"] /\ sig = [s \in Senders |-> SIGKILL]
    /\ seen = [s \in Senders |-> "Runnable"]

------------------------------------------------------------------------------
(* kill_process: send_signal, complete_signal, signal_wake_up.              *)

SGoto(s, from, to) == spc[s] = from /\ spc' = [spc EXCEPT ![s] = to]

\* prepare_sianal: SIGCONT lets a stopped process go on ...
Send(s, n) ==
    /\ SGoto(s, "idle", "prepare")
    /\ state # "Exited" /\ Len(queue) < MaxQueue
    /\ sig' = [sig EXCEPT ![s] = n]
    /\ state' = IF n = SIGCONT /\ state = "Stopped" THEN "Runnable" ELSE state
    /\ UNCHANGED <<pending, blocked, handlers, lock, flag, pc, taken, seen>>

\* ... and a signal that is ignored, and not blocked, is dropped.  SIGKILL has no info.
Prepare(s) ==
    /\ \/ /\ sig[s] \in blocked \/ (lock = None /\ handlers[sig[s]] # "Ignore")
          /\ SGoto(s, "prepare", IF sig[s] = SIGKILL THEN "wants" ELSE "push")
       \/ /\ sig[s] \notin blocked /\ lock = None /\ handlers[sig[s]] = "Ignore"
          /\ SGoto(s, "prepare", "idle")
    /\ UNCHANGED <<pending, blocked, handlers, lock, flag, target, sig, seen>>

Push(s) ==
    /\ SGoto(s, "push", "wants")
    /\ queue' = Append(queue, sig[s])
    /\ UNCHANGED <<signal, blocked, handlers, lock, flag, target, sig, seen>>

\* wants_signal; a signal that is not wanted stays in the queue.  Nothing sets EXITING, so
\* that a process that exits is still wanted.
Wants(s) ==
    /\ SGoto(s, "wants", IF sig[s] \in blocked THEN "idle"
                         ELSE IF sig[s] = SIGKILL THEN "insert"
                         ELSE IF state = "Uninterruptible" THEN "idle" ELSE "empty")
    /\ UNCHANGED <<pending, blocked, handlers, lock, flag, target, sig, seen>>

WantsEmpty(s) ==
    /\ SGoto(s, "empty", IF signal = {} THEN "insert" ELSE "idle")
    /\ UNCHANGED <<pending, blocked, handlers, lock, flag, target, sig, seen>>

\* complete_signal
Insert(s) ==
    /\ SGoto(s, "insert", "lock")
    /\ signal' = signal \cup {sig[s]}
    /\ UNCHANGED <<queue, blocked, handlers, lock, flag, target, sig, seen>>

\* Fault: signal_wake_up does not wait for sig_struct.
LockNot(s) ==
    /\ SGoto(s, "lock", "wake")
    /\ seen' = [seen EXCEPT ![s] = state]
    /\ UNCHANGED <<pending, blocked, handlers, lock, flag, target, sig>>

\* sig_struct is locked; signal_wake_up reads the state
Lock(s) ==
    /\ SGoto(s, "lock", "wake") /\ lock = None
    /\ lock' = s
    /\ seen' = [seen EXCEPT ![s] = state]
    /\ UNCHANGED <<pending, blocked, handlers, flag, target, sig>>

\* the flag, and wakeup or wakeup_stop by the state that was read; when that fails, or
\* is not tried, wakeup for SIGKILL
WakeUp(s) ==
    /\ SGoto(s, "wake", "idle")
    /\ flag' = TRUE
    /\ state' = IF \/ seen[s] = "Blocked" /\ state \in {"Blocked", "Uninterruptible"}
                   \/ seen[s] = "Stopped" /\ state = "Stopped"
                   \/ sig[s] = SIGKILL /\ state \in {"Blocked", "Uninterruptible"}
                  THEN "Runnable" ELSE state
    /\ lock' = IF lock = s THEN None ELSE lock
    /\ seen' = [seen EXCEPT ![s] = "Runnable"]
    /\ UNCHANGED <<pending, blocked, handlers, pc, taken, sig>>

------------------------------------------------------------------------------
(* The process.                                                             *)

Runs(at) == state = "Runnable" /\ pc = at

Goto(from, to) == Runs(from) /\ pc' = to /\ UNCHANGED taken

Enter ==
    /\ Goto("user", "kernel")
    /\ UNCHANGED <<pending, blocked, handlers, lock, flag, state, sender>>

\* set_sigprocmask and sigreturn, neither of which blocks SIGKILL or SIGSTOP
SetBlocked(set) ==
    /\ Goto("kernel", "recalc")
    /\ lock = None /\ set # blocked
    /\ lock' = "self" /\ blocked' = set
    /\ UNCHANGED <<pending, handlers, flag, state, sender>>

\* has_pending_signals
HasPending == signal \ blocked # {}

\* recalc_sigpending_tsk sets the flag at once, if there is something to handle ...
RecalcSigpendingTsk ==
    /\ Goto("recalc", IF HasPending THEN "kernel" ELSE "clear")
    /\ flag' = (flag \/ HasPending)
    /\ lock' = IF HasPending THEN None ELSE lock
    /\ UNCHANGED <<pending, blocked, handlers, state, sender>>

\* ... and recalc_sigpending clears it if not, sig_info no longer locked
RecalcSigpending ==
    /\ Goto("clear", "kernel")
    /\ flag' = FALSE /\ lock' = None
    /\ UNCHANGED <<pending, blocked, handlers, state, sender>>

\* flush_by_mask, whose mask is the bit of n, takes the number of each info for a set of
\* signals: it removes the infos of the signal whose number is that bit
FlushByMask(q, n) == SelectSeq(q, LAMBDA m : m # 2^(n-1))

\* do_sigaction
SetAction(n, a) ==
    /\ Runs("kernel") /\ lock = None /\ handlers[n] # a
    /\ handlers' = [handlers EXCEPT ![n] = a]
    /\ queue' = IF a = "Ignore" THEN FlushByMask(queue, n) ELSE queue
    /\ UNCHANGED <<signal, blocked, lock, flag, target, sender>>

\* a call that sleeps, and what it waits for
MarkSleep(st) ==
    /\ Goto("kernel", "sleep") /\ state' = st
    /\ UNCHANGED <<pending, blocked, handlers, lock, flag, sender>>

Awake ==
    /\ pc = "sleep" /\ state # "Stopped"
    /\ pc' = "kernel" /\ state' = "Runnable"
    /\ UNCHANGED <<pending, blocked, handlers, lock, flag, taken, sender>>

\* exit_to_user_mode_prepare
Leave ==
    /\ Goto("kernel", "loop")
    /\ UNCHANGED <<pending, blocked, handlers, lock, flag, state, sender>>

\* A round of exit_to_user_mode_loop: do_signal takes signals in the order of their
\* numbers, the ignored ones with all their infos, up to one that is not ignored; of
\* that one it takes the first info, and the set keeps it if there is another.
Ignored ==
    LET unblocked == signal \ blocked
    IN {n \in unblocked : \A m \in unblocked : m <= n => handlers[m] = "Ignore"}

Lowest(ns) == CHOOSE n \in ns : \A m \in ns : n <= m
RemoveAt(s, i) == SubSeq(s, 1, i - 1) \o SubSeq(s, i + 1, Len(s))

Collect(n) ==
    LET rest == SelectSeq(queue, LAMBDA m : m \notin Ignored)
        at == {i \in DOMAIN rest : rest[i] = n}
    IN /\ queue' = IF at = {} THEN rest ELSE RemoveAt(rest, Lowest(at))
       /\ signal' = signal \ (Ignored \cup IF Cardinality(at) > 1 THEN {} ELSE {n})

DoSignal ==
    /\ Runs("loop") /\ flag /\ lock = None
    /\ LET acted == signal \ (blocked \cup Ignored)
       IN /\ acted # {}
          /\ taken' = Lowest(acted) /\ Collect(taken')
    /\ pc' = IF handlers[taken'] = "Default" THEN "handle" ELSE "loop"
    /\ flag' = (signal' \ blocked # {})
    /\ UNCHANGED <<blocked, handlers, lock, state, sender>>

\* there is none to act on: all are blocked or ignored
DoSignalNone ==
    /\ Runs("loop") /\ flag /\ lock = None
    /\ signal # {} /\ signal \subseteq blocked \cup Ignored
    /\ signal' = signal \ Ignored
    /\ queue' = SelectSeq(queue, LAMBDA m : m \notin Ignored)
    /\ flag' = FALSE
    /\ UNCHANGED <<blocked, handlers, lock, target, sender>>

\* nothing is pending: do_signal returns, the flag stays and the loop goes round
DoSignalEmpty ==
    /\ Runs("loop") /\ flag /\ signal = {}
    /\ UNCHANGED vars

\* handle_default, with nothing locked
HandleDefault ==
    /\ Runs("handle")
    /\ \/ taken \in {SIGCHLD, SIGCONT} /\ pc' = "loop" /\ UNCHANGED state
       \/ taken = SIGSTOP /\ pc' = "loop" /\ state' = "Stopped"
       \/ taken \notin {SIGCHLD, SIGCONT, SIGSTOP} /\ pc' = "dead" /\ state' = "Exited"
    /\ taken' = SIGKILL
    /\ UNCHANGED <<pending, blocked, handlers, lock, flag, sender>>

ToUser ==
    /\ Goto("loop", "user") /\ ~flag
    /\ UNCHANGED <<pending, blocked, handlers, lock, flag, state, sender>>

Process ==
    \/ Enter \/ RecalcSigpendingTsk \/ RecalcSigpending \/ Awake \/ Leave
    \/ DoSignal \/ DoSignalNone \/ DoSignalEmpty \/ HandleDefault \/ ToUser
    \/ \E set \in SUBSET (Sigs \ {SIGKILL, SIGSTOP}) : SetBlocked(set)
    \/ \E n \in Sigs, a \in Actions : SetAction(n, a)
    \/ \E st \in {"Blocked", "Uninterruptible"} : MarkSleep(st)

Sender(s) ==
    \/ \E n \in Sigs : Send(s, n)
    \/ Prepare(s) \/ Push(s) \/ Wants(s) \/ WantsEmpty(s)
    \/ Insert(s) \/ Lock(s) \/ WakeUp(s)

Next == Process \/ \E s \in Senders : Sender(s)

Spec == Init /\ [][Next]_vars

------------------------------------------------------------------------------
(* Properties.                                                              *)

\* A signal that is pending and not blocked is announced: HAS_PENDING_SIGNAL is set, or
\* its sender is about to set it, or the process is about to look for it.  The process
\* tests the flag alone, and takes no other signal in while one is pending, so that a
\* flag cleared by recalc_sigpending after signal_wake_up has set it would leave the
\* process deaf to everything but SIGKILL.
PendingIsAnnounced ==
    state # "Exited" /\ HasPending =>
        \/ flag \/ pc = "recalc"
        \/ \E s \in Senders : spc[s] \in {"lock", "wake"}
=============================================================================
