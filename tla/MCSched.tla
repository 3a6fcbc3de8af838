------------------------------- MODULE MCSched -------------------------------
(* Sched on one CPU and on two, with the processes forked on any of them.   *)
EXTENDS Sched
==============================================================================
