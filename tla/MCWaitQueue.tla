----------------------------- MODULE MCWaitQueue -----------------------------
(* Two waiters and one or two wakers.                                       *)
EXTENDS WaitQueue
==============================================================================
