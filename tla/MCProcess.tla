------------------------------ MODULE MCProcess ------------------------------
(***************************************************************************)
(* The robust list of a thread that dies, the end of a process and the     *)
(* wait for it, process groups and sessions, the regions of an address     *)
(* space, and what address spaces share after a fork, each with its own    *)
(* variables.  In a behaviour one of them runs, the one named by part; the *)
(* others stay in their initial states, where no action that is to be fair *)
(* is enabled.                                                             *)
(***************************************************************************)
EXTENDS RobustLocks, Lifecycle

CONSTANTS
    UserTop, MmapMin, MaxLen,   \* UserMappings
    Spaces, First, SpaceTop, MaxVmas, MaxCalls, Frames, Prots   \* AddressSpace

VARIABLES
    part,
    vmas, vm_holes, u_panic,
    live, mm, wp, opened, calls

user == <<vmas, vm_holes, u_panic>>

space == <<live, mm, wp, opened, calls>>

U == INSTANCE UserMappings WITH Top <- UserTop, panic <- u_panic

A == INSTANCE AddressSpace WITH Top <- SpaceTop

MCInit ==
    /\ part \in {"robust", "exitwait", "procgroup", "user", "space"}
    /\ R!Init /\ W!Init /\ G!Init /\ U!Init /\ A!Init

\* A system without further processes, signals or system calls is at rest.
AtRest == UNCHANGED <<part, robust, exitwait, procgroup, user, space>>

MCNext ==
    \/ part = "robust" /\ R!Next /\ UNCHANGED <<part, exitwait, procgroup, user, space>>
    \/ part = "exitwait" /\ W!Next /\ UNCHANGED <<part, robust, procgroup, user, space>>
    \/ part = "procgroup" /\ G!Next /\ UNCHANGED <<part, robust, exitwait, user, space>>
    \/ part = "user" /\ U!Next /\ UNCHANGED <<part, robust, exitwait, procgroup, space>>
    \/ part = "space" /\ A!Next /\ UNCHANGED <<part, robust, exitwait, procgroup, user>>
    \/ AtRest

MCSpec == MCInit /\ [][MCNext]_<<part, robust, exitwait, procgroup, user, space>> /\ W!Fairness

------------------------------------------------------------------------------
(* The properties of the instances, as their modules state them.            *)

\* vm_holes is what the VMAs leave free (UserMappings).
HolesExact == part = "user" => U!HolesExact

\* The vma_set of a physical page is the set of VMAs that map it.
RmapExact == part = "space" => A!RmapExact

\* No private VMA may write to a page that it shares (do_wp_page).
CowIsolated == part = "space" => A!CowIsolated
==============================================================================
