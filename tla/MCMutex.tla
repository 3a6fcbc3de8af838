------------------------------- MODULE MCMutex -------------------------------
(* Three processes: a holder, a sleeper and one that barges in.             *)
EXTENDS Mutex
==============================================================================
