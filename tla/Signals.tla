------------------------------- MODULE Signals -------------------------------
(***************************************************************************)
(* The signals of one process, with variables of their own, for the module *)
(* that checks them beside a pipe and for the one that proves them right.  *)
(***************************************************************************)
EXTENDS Naturals

CONSTANTS Senders, Sigs, Actions, None, MaxQueue

\* No sender is called what the holder of sig_struct is when it is nobody, or the
\* process itself.
ASSUME HolderIsKnown == None \notin Senders /\ "self" \notin Senders /\ None # "self"

VARIABLES signal, queue, blocked, handlers, lock, flag, s_state, s_pc, taken, spc, s_sig, seen

sigvars ==
    <<signal, queue, blocked, handlers, lock, flag, s_state, s_pc, taken, spc, s_sig, seen>>

S == INSTANCE Signal WITH state <- s_state, pc <- s_pc, sig <- s_sig

\* A pending signal that is not blocked is announced (HAS_PENDING_SIGNAL).
PendingIsAnnounced == S!PendingIsAnnounced
=============================================================================
