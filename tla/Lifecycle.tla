------------------------------ MODULE Lifecycle ------------------------------
(***************************************************************************)
(* The end of a process and the wait for it, and the groups and sessions   *)
(* of processes, each with variables of its own, for the module that       *)
(* checks them beside others and for the one that proves them right.       *)
(***************************************************************************)
EXTENDS Naturals

CONSTANTS
    Pids, InitPid, Nobody,        \* both
    Nappers, ByPid, MaxSignals,   \* ExitWait
    MaxGroups                     \* ProcGroup

\* None of the pids stands for nobody.
ASSUME NobodyHasNoPid == Nobody \notin Pids

\* The first process has a pid and a group; nobody is neither a group nor a way to stop.
ASSUME GroupAssumption ==
    /\ InitPid \in Pids /\ MaxGroups \in Nat \ {0}
    /\ Nobody \notin Nat /\ Nobody \notin {"panic", "deadlock"}

VARIABLES
    state, parent, children, dead, queue, w_pc, target, nohang, sig, signals, panic,
    group, all_group, sess, all_sess, pgrp, life, g_children, call, crash

exitwait == <<state, parent, children, dead, queue, w_pc, target, nohang, sig, signals, panic>>

procgroup == <<group, all_group, sess, all_sess, pgrp, life, g_children, call, crash>>

W == INSTANCE ExitWait WITH Procs <- Pids, InitProc <- InitPid, None <- Nobody, pc <- w_pc

G == INSTANCE ProcGroup WITH None <- Nobody, children <- g_children

\* A process asleep in wait4 is in the wait_queue of a process that is yet to exit.
NoSleepThroughExit == W!NoSleepThroughExit

\* wait4 for a child by its pid returns once the child has exited.
WaitReturns == W!WaitReturns

\* A process is listed by the group it points to, and by no other (ProcessGroup).
MembershipExact == G!MembershipExact

\* What ALL_PROCESS_GROUP and ALL_SESSION hold is in use.
RegistriesInUse == G!RegistriesInUse
=============================================================================
