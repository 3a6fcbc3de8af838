------------------------------ MODULE RwLockAbs ------------------------------
(***************************************************************************)
(* What a reader-writer lock promises its users: who may hold which guard, *)
(* and how guards are exchanged.  There is no lock word here and every     *)
(* operation is one step (docs/kernel/locking/rwlock.md, 2.1 and 2.2).     *)
(***************************************************************************)
CONSTANT Users

VARIABLES readers, upgraders, writers

absVars == <<readers, upgraders, writers>>

AbsInit == readers = {} /\ upgraders = {} /\ writers = {}

Unused(t) == t \notin readers \union upgraders \union writers

Read(t) ==
    /\ Unused(t) /\ upgraders = {} /\ writers = {}
    /\ readers' = readers \union {t}
    /\ UNCHANGED <<upgraders, writers>>

Write(t) ==
    /\ readers = {} /\ upgraders = {} /\ writers = {}
    /\ writers' = {t}
    /\ UNCHANGED <<readers, upgraders>>

UpgradeableRead(t) ==
    /\ Unused(t) /\ upgraders = {} /\ writers = {}
    /\ upgraders' = {t}
    /\ UNCHANGED <<readers, writers>>

Upgrade(t) ==
    /\ upgraders = {t} /\ readers = {}
    /\ upgraders' = {}
    /\ writers' = {t}
    /\ UNCHANGED readers

Downgrade(t) ==
    /\ t \in upgraders \union writers
    /\ upgraders' = upgraders \ {t}
    /\ writers' = writers \ {t}
    /\ readers' = readers \union {t}

Release(t) ==
    /\ t \in readers \union upgraders \union writers
    /\ readers' = readers \ {t}
    /\ upgraders' = upgraders \ {t}
    /\ writers' = writers \ {t}

AbsNext ==
    \E t \in Users : \/ Read(t) \/ Write(t) \/ UpgradeableRead(t)
                     \/ Upgrade(t) \/ Downgrade(t) \/ Release(t)

AbsSpec == AbsInit /\ [][AbsNext]_absVars
=============================================================================
