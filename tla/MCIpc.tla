-------------------------------- MODULE MCIpc --------------------------------
(***************************************************************************)
(* A pipe, signals, and physical memory while the kernel boots, each with  *)
(* its own variables.  In a behaviour one of them runs, the one named by   *)
(* part; the others stay in their initial states.                          *)
(***************************************************************************)
EXTENDS Pipe, Signals

CONSTANTS BootTop, PageSize, MaxRegions, Attrs, NOMAP, RESERVED     \* Memblock

VARIABLES
    part,
    regions, panic, offset, granted, told

boot == <<regions, panic, offset, granted, told>>

B == INSTANCE Memblock WITH Top <- BootTop

MCInit == part \in {"pipe", "signal", "boot"} /\ Init /\ S!Init /\ B!Init

\* A panicked kernel stops, nobody begins a call after an interrupted one (bound of Pipe), an
\* exited process takes no signal, and a table from which all memory is given out is left alone.
AtRest == (part = "pipe" => panicked \/ interrupted) /\ UNCHANGED <<part, vars, sigvars, boot>>

MCNext ==
    \/ part = "pipe" /\ Next /\ UNCHANGED <<part, sigvars, boot>>
    \/ part = "signal" /\ S!Next /\ UNCHANGED <<part, vars, boot>>
    \/ part = "boot" /\ B!Next /\ UNCHANGED <<part, vars, sigvars>>
    \/ AtRest

MCSpec == MCInit /\ [][MCNext]_<<part, vars, sigvars, boot>>

------------------------------------------------------------------------------
(* The properties of the instance, as its module states them.               *)

\* The table of memory areas says of every address what the calls said (MemBlockManager).
MemblockExact == part = "boot" => B!MemblockExact

\* The linear and the buddy allocator share the memory out (remain_areas).
BumpHandsOver == part = "boot" => B!BumpHandsOver
==============================================================================
