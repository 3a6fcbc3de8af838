------------------------------- MODULE ProcGroup -------------------------------
(***************************************************************************)
(* Process groups and sessions (process/process_group.rs, session.rs) with *)
(* the calls that change them: fork, setpgid, setsid, exit and the reaping *)
(* of a child.                                                             *)
(*                                                                         *)
(* A group and a session are reference counted objects.  ALL_PROCESS_GROUP *)
(* and the process_groups of a session own groups, ALL_SESSION owns        *)
(* sessions, a call owns what it has looked up until it returns; a process *)
(* and a group have a weak pointer to the group and the session they are   *)
(* in.  What an object does when its last owner lets it go (Drop) is part  *)
(* of the step that lets it go.  A session is named by its sid, which no   *)
(* two have at a time; groups with one pgid can coexist and have numbers.  *)
(*                                                                         *)
(* setpgid is two steps, the checks and the change, since it holds no lock *)
(* between them.  The other calls are one step each.                       *)
(***************************************************************************)
EXTENDS Naturals, FiniteSets

CONSTANTS
    Pids, InitPid,   \* the pids; that of the first process
    None,            \* no pid, no group, no session
    MaxGroups        \* bound: group objects at a time

Ids == 1 .. MaxGroups

VARIABLES
    group,      \* the group objects: pgid, processes, leader, session
    all_group,  \* ALL_PROCESS_GROUP: pgid -> group
    sess,       \* the session objects: process_groups (pgid -> group), leader
    all_sess,   \* the sids in ALL_SESSION
    pgrp,       \* process_group of each process
    life,       \* of each process: whether its pcb is there, and in what state
    children,   \* children of each process
    call,       \* the setpgid each process is in the middle of
    crash       \* how the kernel has stopped, if it has

objects == <<group, all_group, sess, all_sess, pgrp>>
vars == <<objects, life, children, call, crash>>

NoGroup == [pgid |-> None, processes |-> {}, leader |-> None, session |-> None]
NoMap == [i \in Pids |-> None]
NoSession == [process_groups |-> NoMap, leader |-> None]
NoCall == [pid |-> None, pgid |-> None, group |-> None, session |-> None]

Groups == [pgid : Pids \cup {None}, processes : SUBSET Pids,
           leader : Pids \cup {None}, session : Pids \cup {None}]
Calls == [pid : Pids \cup {None}, pgid : Pids \cup {None},
          group : Ids \cup {None}, session : Pids \cup {None}]

TypeOK ==
    /\ group \in [Ids -> Groups]
    /\ all_group \in [Pids -> Ids \cup {None}]
    /\ sess \in [Pids -> [process_groups : [Pids -> Ids \cup {None}],
                          leader : Pids \cup {None}]]
    /\ all_sess \subseteq Pids
    /\ pgrp \in [Pids -> Ids \cup {None}]
    /\ life \in [Pids -> {"none", "runs", "exited", "released"}]
    /\ children \in [Pids -> SUBSET Pids]
    /\ call \in [Pids -> Calls]
    /\ crash \in {None, "panic", "deadlock"}

\* the state of the objects as one value, which the operations below change in turn
Objects == [group |-> group, all_group |-> all_group, sess |-> sess,
            all_sess |-> all_sess, pgrp |-> pgrp, crash |-> crash]
Becomes(k) ==
    /\ group' = k.group /\ all_group' = k.all_group /\ sess' = k.sess
    /\ all_sess' = k.all_sess /\ pgrp' = k.pgrp /\ crash' = k.crash

\* do_create_pcb of the first process: a group and a session of its own
Init ==
    /\ group = [g \in Ids |-> IF g = 1
                  THEN [pgid |-> InitPid, processes |-> {InitPid},
                        leader |-> InitPid, session |-> InitPid]
                  ELSE NoGroup]
    /\ all_group = [i \in Pids |-> IF i = InitPid THEN 1 ELSE None]
    /\ sess = [s \in Pids |-> IF s = InitPid
                 THEN [process_groups |-> [i \in Pids |-> IF i = InitPid THEN 1 ELSE None],
                       leader |-> InitPid]
                 ELSE NoSession]
    /\ all_sess = {InitPid}
    /\ pgrp = [p \in Pids |-> IF p = InitPid THEN 1 ELSE None]
    /\ life = [p \in Pids |-> IF p = InitPid THEN "runs" ELSE "none"]
    /\ children = [p \in Pids |-> {}]
    /\ call = [p \in Pids |-> NoCall]
    /\ crash = None

------------------------------------------------------------------------------
(* References and Drop.  held: the groups and the sessions that calls in     *)
(* progress own.                                                            *)

HeldGroups == {call[p].group : p \in Pids}
HeldSessions == {call[p].session : p \in Pids}

IsOwned(k, g, held) ==
    \/ g \in held
    \/ \E i \in Pids : k.all_group[i] = g
    \/ \E s \in Pids, i \in Pids : k.sess[s].process_groups[i] = g

IsEmptySession(k, s) == k.sess[s].process_groups = NoMap

\* Session goes when neither ALL_SESSION nor a call owns it
DropSession(k, s, held) ==
    IF s = None \/ s \in k.all_sess \/ s \in held THEN k
    ELSE [k EXCEPT !.sess[s] = NoSession,
                   !.group = [g \in Ids |-> IF k.group[g].session = s
                                THEN [k.group[g] EXCEPT !.session = None]
                                ELSE k.group[g]]]

\* pgid i leaves the process_groups of session s
LeaveSession(k, s, i) ==
    IF s = None THEN k ELSE [k EXCEPT !.sess[s].process_groups[i] = None]

\* a session without groups leaves ALL_SESSION
Retire(k, s) == IF IsEmptySession(k, s) THEN [k EXCEPT !.all_sess = @ \ {s}] ELSE k

Unregister(k, s, held) ==
    IF s # None /\ IsEmptySession(k, s) THEN DropSession(Retire(k, s), s, held) ELSE k

\* the object is gone, and weak pointers to it lead nowhere
Freed(k, g) ==
    [k EXCEPT !.group[g] = NoGroup,
              !.pgrp = [p \in Pids |-> IF k.pgrp[p] = g THEN None ELSE k.pgrp[p]]]

\* impl Drop for ProcessGroup, when nothing owns g: its pgid leaves the session's
\* process_groups, and a session left without any leaves ALL_SESSION
DropGroup(k, g, heldg, helds) ==
    IF g = None \/ k.group[g] = NoGroup \/ IsOwned(k, g, heldg) THEN k
    ELSE LET s == k.group[g].session
         IN Freed(Unregister(LeaveSession(k, s, k.group[g].pgid), s, helds), g)

\* PGInner::remove_process
RemoveProcess(k, g, p) ==
    [k EXCEPT !.group[g].processes = @ \ {p},
              !.group[g].leader = IF p \in k.group[g].processes /\ @ = p THEN None ELSE @]

Join(k, p, g) == [k EXCEPT !.group[g].processes = @ \cup {p}, !.pgrp[p] = g]

\* an empty group leaves ALL_PROCESS_GROUP
Unlist(k, g) ==
    IF k.group[g].processes = {} THEN [k EXCEPT !.all_group[k.group[g].pgid] = None] ELSE k

Session(k, p) == IF k.pgrp[p] = None THEN None ELSE k.group[k.pgrp[p]].session

Crashed(k, how) == [k EXCEPT !.crash = how]

FreeId == CHOOSE g \in Ids : group[g] = NoGroup
HasFreeId == \E g \in Ids : group[g] = NoGroup

------------------------------------------------------------------------------
(* join_other_group.                                                        *)

\* the checks: the result, or "go"
Check(p, pgid) ==
    LET s == Session(Objects, p)
    IN IF pgrp[p] # None /\ group[pgrp[p]].pgid = pgid THEN "done"
       ELSE IF s = None THEN "panic"
       ELSE IF sess[s].leader = p THEN "EPERM"
       ELSE IF all_group[pgid] # None
         THEN IF sess[s].process_groups[pgid] # None THEN "go" ELSE "EPERM"
       ELSE IF pgid # p THEN "EPERM" ELSE "go"

\* Fault: a group that becomes empty stays in ALL_PROCESS_GROUP.
join_specified_group_leaves(k, p, g) ==
    LET old == k.pgrp[p]
        k1 == IF old = None THEN k ELSE RemoveProcess(k, old, p)
    IN IF old # None /\ k.group[old].pgid = k.group[g].pgid THEN k ELSE Join(k1, p, g)

\* Fault: the old group still lists the process.
join_specified_group_stays(k, p, g) ==
    IF k.pgrp[p] # None /\ k.group[k.pgrp[p]].pgid = k.group[g].pgid THEN k
    ELSE Join(k, p, g)

\* join_specified_group: a group that becomes empty leaves ALL_PROCESS_GROUP
join_specified_group(k, p, g) ==
    LET old == k.pgrp[p]
    IN IF old = None THEN Join(k, p, g)
       ELSE IF k.group[old].pgid = k.group[g].pgid THEN k
       ELSE DropGroup(Join(Unlist(RemoveProcess(k, old, p), old), p, g),
                      old, HeldGroups, HeldSessions)

\* join_new_group, the part that leaves the old group, with s owned by the call
LeaveGroup(k, p, s) ==
    LET old == k.pgrp[p]
        k1 == [RemoveProcess(k, old, p) EXCEPT !.pgrp[p] = None]
    IN IF k1.group[old].processes # {} THEN k1
       ELSE IF k.sess[s].process_groups[k.group[old].pgid] = None THEN Crashed(k1, "panic")
       ELSE DropGroup(LeaveSession(Unlist(k1, old), s, k.group[old].pgid),
                      old, HeldGroups, HeldSessions \cup {s})

\* group n of p, in session s and in ALL_PROCESS_GROUP
NewGroup(k, p, s, n) ==
    [k EXCEPT !.group[n] = [pgid |-> p, processes |-> {p}, leader |-> p, session |-> s],
              !.pgrp[p] = n, !.all_group[p] = n, !.sess[s].process_groups[p] = n]

\* the new group, made and registered with session_inner locked: what it replaces in
\* the session is dropped there and locks session_inner again
EnterNewGroup(k, p, s, n) ==
    LET old == k.sess[s].process_groups[p]
        k1 == NewGroup(k, p, s, n)
    IN IF k.crash # None THEN k
       ELSE IF old # None /\ ~IsOwned(k1, old, HeldGroups) THEN Crashed(k1, "deadlock")
       ELSE k1

join_new_group(k, p, n) ==
    LET s == Session(k, p)
    IN IF s = None THEN Crashed(k, "panic")
       ELSE DropSession(EnterNewGroup(LeaveGroup(k, p, s), p, s, n), s, HeldSessions)

\* Syscall::setpgid as far as the checks of join_other_group: for itself or a child
SetpgidCheck(c, p, pgid) ==
    /\ crash = None /\ life[c] = "runs" /\ call[c] = NoCall
    /\ p = c \/ p \in children[c]
    /\ life[p] \in {"runs", "exited"}
    /\ pgid = p \/ all_group[pgid] # None
    /\ CASE Check(p, pgid) = "panic" -> crash' = "panic" /\ UNCHANGED call
         [] Check(p, pgid) = "go" ->
              /\ call' = [call EXCEPT ![c] =
                   [pid |-> p, pgid |-> pgid, group |-> all_group[pgid],
                    session |-> IF all_group[pgid] = None THEN None ELSE Session(Objects, p)]]
              /\ UNCHANGED crash
         [] OTHER -> FALSE   \* an error, or nothing to do
    /\ UNCHANGED <<objects, life, children>>

\* the change, and what the call owned is released
SetpgidJoin(c) ==
    /\ crash = None /\ call[c] # NoCall /\ HasFreeId
    /\ LET g == call[c].group
           heldg == {call[q].group : q \in Pids \ {c}}
           helds == {call[q].session : q \in Pids \ {c}}
           k == IF g = None THEN join_new_group(Objects, call[c].pid, FreeId)
                            ELSE join_specified_group(Objects, call[c].pid, g)
       IN Becomes(IF k.crash # None THEN k
                  ELSE DropGroup(DropSession(k, call[c].session, helds), g, heldg, helds))
    /\ call' = [call EXCEPT ![c] = NoCall]
    /\ UNCHANGED <<life, children>>

------------------------------------------------------------------------------
(* setsid, fork, exit, and the end of a process.                            *)

\* session p with its leader, in ALL_SESSION
NewSession(k, p) ==
    [k EXCEPT !.sess[p] = [process_groups |-> NoMap, leader |-> p], !.all_sess = @ \cup {p}]

\* go_to_new_session, past is_session_leader and the errors
Setsid(p) ==
    /\ crash = None /\ life[p] = "runs" /\ call[p] = NoCall /\ HasFreeId
    /\ LET s == Session(Objects, p)
           n == FreeId
           k == LeaveGroup(Objects, p, s)
       IN IF s = None THEN Becomes(Crashed(Objects, "panic"))
          ELSE /\ sess[s].leader # p /\ group[pgrp[p]].leader # p
               /\ p \notin all_sess /\ all_group[p] = None
               /\ Becomes(IF k.crash # None THEN k
                          ELSE DropSession(NewGroup(NewSession(Retire(k, s), p), p, p, n),
                                           s, HeldSessions))
    /\ UNCHANGED <<life, children, call>>

\* copy_group of fork: the child joins its parent's group; the group and the session
\* that do_create_pcb made for it go
Fork(p, c) ==
    /\ crash = None /\ life[p] = "runs" /\ call[p] = NoCall /\ life[c] = "none"
    /\ Becomes(IF pgrp[p] = None THEN Crashed(Objects, "panic") ELSE Join(Objects, c, pgrp[p]))
    /\ life' = [life EXCEPT ![c] = "runs"]
    /\ children' = [children EXCEPT ![p] = @ \cup {c}]
    /\ UNCHANGED call

\* an empty group leaves ALL_PROCESS_GROUP and its session
Disband(k, g) ==
    LET s == k.group[g].session
    IN IF k.group[g].processes # {} THEN k
       ELSE Unregister(LeaveSession(Unlist(k, g), s, k.group[g].pgid), s, HeldSessions)

ForgetLeader(k, p) ==
    LET s == Session(k, p)
    IN IF s # None /\ k.sess[s].leader = p THEN [k EXCEPT !.sess[s].leader = None] ELSE k

clear_pg_and_session_reference(k, p) ==
    LET g == k.pgrp[p]
    IN IF g = None THEN k
       ELSE ForgetLeader(DropGroup(Disband(RemoveProcess(k, g, p), g), g,
                                   HeldGroups, HeldSessions), p)

\* ProcessManager::exit, and exit_notify: the first process adopts the children
Exit(p) ==
    /\ crash = None /\ p # InitPid /\ life[p] = "runs" /\ call[p] = NoCall
    /\ life' = [life EXCEPT ![p] = "exited"]
    /\ Becomes(clear_pg_and_session_reference(Objects, p))
    /\ children' = [children EXCEPT ![InitPid] = @ \cup children[p]]
    /\ UNCHANGED call

\* wait4 of an exited process: by its pid it clears the references again, by -1 or a
\* process group it does not
Reap(p, by_pid) ==
    /\ crash = None /\ life[p] = "exited"
    /\ life' = [life EXCEPT ![p] = "released"]
    /\ Becomes(IF by_pid THEN clear_pg_and_session_reference(Objects, p) ELSE Objects)
    /\ UNCHANGED <<children, call>>

Next ==
    \/ \E c \in Pids, p \in Pids, i \in Pids : SetpgidCheck(c, p, i)
    \/ \E c \in Pids : SetpgidJoin(c)
    \/ \E p \in Pids : Setsid(p)
    \/ \E p \in Pids, c \in Pids : Fork(p, c)
    \/ \E p \in Pids : Exit(p)
    \/ \E p \in Pids, b \in BOOLEAN : Reap(p, b)

Spec == Init /\ [][Next]_vars

------------------------------------------------------------------------------
(* Properties.                                                              *)

\* A process that has not exited is among the processes of the group it points to,
\* and a group lists no process that points to another: kill of a group reaches its
\* members and nobody else.
MembershipExact ==
    \A p \in Pids, g \in Ids :
        life[p] = "runs" => (p \in group[g].processes <=> pgrp[p] = g)

\* What is registered is in use: a group in ALL_PROCESS_GROUP is there under its own
\* pgid and has a process, a session in ALL_SESSION has a group.  The registries own
\* what they hold, so whatever is left behind in them is never freed.
RegistriesInUse ==
    crash = None =>
        /\ \A i \in Pids : all_group[i] # None =>
              group[all_group[i]].pgid = i /\ group[all_group[i]].processes # {}
        /\ \A s \in all_sess : ~IsEmptySession(Objects, s)
=============================================================================
