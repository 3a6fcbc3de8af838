----------------------------- MODULE RobustLocks -----------------------------
(***************************************************************************)
(* The robust locks of the threads of a process, with variables of their   *)
(* own, for the module that checks them beside others and for the one that *)
(* proves them right.                                                      *)
(***************************************************************************)
CONSTANTS Procs, Locks, None

\* None of the threads stands for no thread.
ASSUME NoThread == None \notin Procs

VARIABLES mem, tid, bucket, sleep, joiner, r_pc, todo, at, uval, mval, cut

robust == <<mem, tid, bucket, sleep, joiner, r_pc, todo, at, uval, mval, cut>>

R == INSTANCE RobustList WITH pc <- r_pc

\* A thread that has walked its robust list owns no lock (exit_robust_list).
DeadOwnsNothing == R!DeadOwnsNothing
==============================================================================
