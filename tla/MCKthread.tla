------------------------------ MODULE MCKthread ------------------------------
(***************************************************************************)
(* Kernel threads, the lock of a run queue and a completion, each with its *)
(* own variables.  In a behaviour one of them runs, the one named by part; *)
(* the others stay in their initial states.  Of the actions that are to be *)
(* fair, only kthreadd's is enabled there, and is asked of the behaviours  *)
(* in which kernel threads run.                                            *)
(***************************************************************************)
EXTENDS Kthread, CpuWaits

VARIABLE part

MCInit ==
    /\ part \in {"kthread", "rqlock", "completion"}
    /\ Init /\ L!Init /\ C!Init

\* A system without further requests and a completion that nobody completes are at rest;
\* the lock of a run queue always has a step.
AtRest == part # "rqlock" /\ UNCHANGED <<part, vars, rqlock, completion>>

MCNext ==
    \/ part = "kthread" /\ Next /\ UNCHANGED <<part, rqlock, completion>>
    \/ part = "rqlock" /\ L!Next /\ UNCHANGED <<part, vars, completion>>
    \/ part = "completion" /\ C!Next /\ UNCHANGED <<part, vars, rqlock>>
    \/ AtRest

MCSpec ==
    /\ MCInit /\ [][MCNext]_<<part, vars, rqlock, completion>>
    /\ WF_vars(part = "kthread" /\ DaemonStep) /\ RequestFairness
    /\ L!Fairness /\ C!Fairness
==============================================================================
