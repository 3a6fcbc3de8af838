------------------------------- MODULE MCLocks -------------------------------
(***************************************************************************)
(* The lock word, the sleeping lock and the wait queue, each with its own  *)
(* variables.  In a behaviour one of them runs, the one named by part; the *)
(* others stay in their initial states.  So the states of the three add    *)
(* up, and do not multiply.                                                *)
(***************************************************************************)
EXTENDS RwLock, SleepLocks, Lists

VARIABLE part

\* Retained is what SelectSeq computes, on every short list of waiters.
ASSUME RetainedIsSelectSeq ==
    \A n \in 0 .. 3 : \A s \in [1 .. n -> Waiters] : \A S \in SUBSET Waiters :
        LET InS(p) == p \in S IN Retained(s, S) = {SelectSeq(s, InS)}

MCInit == part \in {"rwlock", "mutex", "waitqueue"} /\ Init /\ M!Init /\ Q!Init

\* An uninterruptible sleeper whose queue nobody wakes stays asleep; the other two parts
\* always have a step.
AtRest == part = "waitqueue" /\ UNCHANGED <<part, vars, mutex, waitqueue>>

MCNext ==
    \/ part = "rwlock" /\ Next /\ UNCHANGED <<part, mutex, waitqueue>>
    \/ part = "mutex" /\ M!Next /\ UNCHANGED <<part, vars, waitqueue>>
    \/ part = "waitqueue" /\ Q!Next /\ UNCHANGED <<part, vars, mutex>>
    \/ AtRest

MCSpec == MCInit /\ [][MCNext]_<<part, vars, mutex, waitqueue>>
=============================================================================
