--------------------------- MODULE MCUserMappings ---------------------------
(***************************************************************************)
(* One address space, for the assert of insert_vma.                        *)
(***************************************************************************)
EXTENDS UserMappings
=============================================================================
