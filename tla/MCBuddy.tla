------------------------------- MODULE MCBuddy -------------------------------
(* Thirteen pages that begin off every alignment, in lists of two entries.  *)
EXTENDS Buddy

AreasDef == {<<3, 13>>}
==============================================================================
