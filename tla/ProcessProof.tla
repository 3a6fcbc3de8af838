---------------------------- MODULE ProcessProof ----------------------------
(***************************************************************************)
(* Processes, for any number of them.  A process group lists its members,  *)
(* the registries of groups and sessions hold what is in use, and nobody   *)
(* sleeps in wait4 through the exit that is waited for.                    *)
(***************************************************************************)
EXTENDS Lifecycle, ListLemmas

------------------------------------------------------------------------------
(* Process groups and sessions.  The operations work on all the objects at  *)
(* once; each lemma says what one of them keeps, and the invariant is what  *)
(* all of them do.                                                          *)

\* The groups, and the processes and the sessions, with nobody.
Numbers == G!Ids \cup {Nobody}

Names == Pids \cup {Nobody}

\* Objects, by its type.
Tables == [group : [G!Ids -> G!Groups], all_group : [Pids -> Numbers],
           sess : [Pids -> [process_groups : [Pids -> Numbers], leader : Names]],
           all_sess : SUBSET Pids, pgrp : [Pids -> Numbers],
           crash : {Nobody, "panic", "deadlock"}]

\* Of the processes ps: a group lists exactly those that point to it.
Exact(k, ps) == \A p \in ps, g \in G!Ids : p \in k.group[g].processes <=> k.pgrp[p] = g

\* Registered groups have their pgid and a process.
Registered(k) ==
    \A i \in Pids : k.all_group[i] # Nobody =>
        k.group[k.all_group[i]].pgid = i /\ k.group[k.all_group[i]].processes # {}

\* Registered sessions, but those of ss, have a group.
InUse(k, ss) == \A s \in k.all_sess \ ss : ~G!IsEmptySession(k, s)

Sound(k, ss) == k.crash = Nobody => Registered(k) /\ InUse(k, ss)

\* Nobody is neither a process nor a group.
LEMMA NobodyIsOther == Nobody \notin Pids /\ Nobody \notin G!Ids
BY NobodyHasNoPid, GroupAssumption DEF G!Ids

\* A session that is dropped is not registered.
LEMMA DropSessionFields ==
  ASSUME NEW k \in Tables, NEW s \in Names, NEW held
  PROVE  LET r == G!DropSession(k, s, held)
         IN /\ r \in Tables
            /\ r.all_group = k.all_group /\ r.all_sess = k.all_sess /\ r.pgrp = k.pgrp
            /\ r.crash = k.crash
            /\ \A t \in Pids : t \in k.all_sess \/ t # s => r.sess[t] = k.sess[t]
            /\ \A g \in G!Ids : r.group[g].pgid = k.group[g].pgid
                                /\ r.group[g].processes = k.group[g].processes
<1>1. CASE s = Nobody \/ s \in k.all_sess \/ s \in held
  BY <1>1 DEF G!DropSession
<1>2. CASE ~(s = Nobody \/ s \in k.all_sess \/ s \in held)
  <2>1. s \in Pids
    BY <1>2 DEF Names
  <2>2. G!DropSession(k, s, held) =
          [k EXCEPT !.sess = [k.sess EXCEPT ![s] = G!NoSession],
                    !.group = [g \in G!Ids |-> IF k.group[g].session = s
                                 THEN [k.group[g] EXCEPT !.session = Nobody] ELSE k.group[g]]]
    BY <1>2 DEF G!DropSession
  <2> DEFINE ss == [k.sess EXCEPT ![s] = G!NoSession]
             gg == [g \in G!Ids |-> IF k.group[g].session = s
                      THEN [k.group[g] EXCEPT !.session = Nobody] ELSE k.group[g]]
             r == G!DropSession(k, s, held)
  <2>3. /\ k.group \in [G!Ids -> G!Groups]
        /\ k.sess \in [Pids -> [process_groups : [Pids -> Numbers], leader : Names]]
    BY DEF Tables
  <2>4. ss \in [Pids -> [process_groups : [Pids -> Numbers], leader : Names]]
    BY <2>3, <2>1 DEF G!NoSession, G!NoMap, Numbers, Names
  <2>5. /\ gg \in [G!Ids -> G!Groups]
        /\ \A g \in G!Ids : gg[g].pgid = k.group[g].pgid /\ gg[g].processes = k.group[g].processes
    BY SMTT(30), <2>3 DEF G!Groups
  <2>6. /\ r.sess = ss /\ r.group = gg /\ r.all_group = k.all_group /\ r.all_sess = k.all_sess
        /\ r.pgrp = k.pgrp /\ r.crash = k.crash
    BY <2>2 DEF Tables
  <2>7. r \in Tables
    BY ZenonT(40), <2>2, <2>4, <2>5 DEF Tables
  <2>8. \A t \in Pids : t \in k.all_sess \/ t # s => ss[t] = k.sess[t]
    BY <2>3, <1>2
  <2>. QED
    BY <2>5, <2>6, <2>7, <2>8
<1>. QED
  BY <1>1, <1>2

\* What the drop of an object does to the rest: nothing that matters.
Keeps(k, r) ==
    /\ r \in Tables /\ r.crash = k.crash
    /\ \A ps \in SUBSET Pids : Exact(k, ps) => Exact(r, ps)
    /\ \A ss : Sound(k, ss) => Sound(r, ss)
    /\ \A g \in G!Ids : r.group[g].processes \subseteq k.group[g].processes
    /\ \A p \in Pids : k.pgrp[p] = Nobody => r.pgrp[p] = Nobody

\* The groups are registered, and have the processes, that they had.
SameGroups(k, r) ==
    /\ r \in Tables /\ r.all_group = k.all_group /\ r.pgrp = k.pgrp /\ r.crash = k.crash
    /\ \A g \in G!Ids : r.group[g].pgid = k.group[g].pgid
                        /\ r.group[g].processes = k.group[g].processes
    /\ \A ss : InUse(k, ss) => InUse(r, ss)

\* That is enough.
LEMMA SameGroupsKeep ==
  ASSUME NEW k \in Tables, NEW r, SameGroups(k, r)
  PROVE  Keeps(k, r)
<1> USE DEF SameGroups
<1>1. \A ps \in SUBSET Pids : Exact(k, ps) => Exact(r, ps)
  BY DEF Exact
<1>2. Registered(k) => Registered(r)
  <2>1. \A i \in Pids : k.all_group[i] # Nobody => k.all_group[i] \in G!Ids
    BY DEF Tables, Numbers
  <2>. QED
    BY <2>1 DEF Registered
<1>3. \A ss : Sound(k, ss) => Sound(r, ss)
  BY <1>2 DEF Sound
<1>. QED
  BY <1>1, <1>3 DEF Keeps

\* The drop of a session.
LEMMA DropSessionKeeps ==
  ASSUME NEW k \in Tables, NEW s \in Names, NEW held
  PROVE  Keeps(k, G!DropSession(k, s, held))
<1> DEFINE r == G!DropSession(k, s, held)
<1>1. /\ r \in Tables
      /\ r.all_group = k.all_group /\ r.all_sess = k.all_sess /\ r.pgrp = k.pgrp
      /\ r.crash = k.crash
      /\ \A t \in Pids : t \in k.all_sess \/ t # s => r.sess[t] = k.sess[t]
      /\ \A g \in G!Ids : r.group[g].pgid = k.group[g].pgid
                          /\ r.group[g].processes = k.group[g].processes
  BY DropSessionFields
<1>2. \A ss : InUse(k, ss) => InUse(r, ss)
  <2>1. k.all_sess \subseteq Pids
    BY DEF Tables
  <2>. QED
    BY <1>1, <2>1 DEF InUse, G!IsEmptySession
<1>. HIDE DEF r
<1>3. Keeps(k, r)
  BY <1>1, <1>2, SameGroupsKeep DEF SameGroups
<1>. QED
  BY <1>3 DEF r

\* But for session s and its groups, everything is as it was.
ButSession(k, r, s) ==
    /\ r \in Tables
    /\ r.group = k.group /\ r.all_group = k.all_group /\ r.all_sess = k.all_sess
    /\ r.pgrp = k.pgrp /\ r.crash = k.crash
    /\ \A t \in Pids \ {s} : r.sess[t] = k.sess[t]

\* A session loses a group.
LEMMA LeaveSessionFields ==
  ASSUME NEW k \in Tables, NEW s \in Names, NEW i
  PROVE  ButSession(k, G!LeaveSession(k, s, i), s)
<1>1. CASE s = Nobody
  BY <1>1 DEF G!LeaveSession, ButSession
<1>2. CASE s # Nobody
  <2>1. s \in Pids /\ k.sess \in [Pids -> [process_groups : [Pids -> Numbers], leader : Names]]
    BY <1>2 DEF Names, Tables
  <2> DEFINE ss == [k.sess EXCEPT ![s].process_groups[i] = Nobody]
             r == G!LeaveSession(k, s, i)
  <2>2. r = [k EXCEPT !.sess = ss]
    BY <1>2 DEF G!LeaveSession
  <2>3. /\ ss \in [Pids -> [process_groups : [Pids -> Numbers], leader : Names]]
        /\ \A t \in Pids \ {s} : ss[t] = k.sess[t]
    BY ZenonT(40), <2>1 DEF Numbers
  <2> HIDE DEF ss, r
  <2>4. /\ r \in Tables /\ r.sess = ss /\ r.group = k.group /\ r.all_group = k.all_group
        /\ r.all_sess = k.all_sess /\ r.pgrp = k.pgrp /\ r.crash = k.crash
    BY ZenonT(40), <2>2, <2>3 DEF Tables
  <2>5. ButSession(k, r, s)
    BY ZenonT(40), <2>3, <2>4 DEF ButSession
  <2>. QED
    BY ZenonT(40), <2>5 DEF r
<1>. QED
  BY ZenonT(40), <1>1, <1>2

\* A session without groups is taken out of ALL_SESSION.
LEMMA RetireFields ==
  ASSUME NEW k \in Tables, NEW s \in Pids
  PROVE  LET r == G!Retire(k, s)
         IN /\ r \in Tables
            /\ r.group = k.group /\ r.all_group = k.all_group /\ r.sess = k.sess
            /\ r.pgrp = k.pgrp /\ r.crash = k.crash
            /\ r.all_sess = IF G!IsEmptySession(k, s) THEN k.all_sess \ {s} ELSE k.all_sess
<1>1. CASE ~G!IsEmptySession(k, s)
  BY <1>1 DEF G!Retire
<1>2. CASE G!IsEmptySession(k, s)
  <2> DEFINE r == G!Retire(k, s)
             aa == k.all_sess \ {s}
  <2>1. r = [k EXCEPT !.all_sess = aa]
    BY <1>2 DEF G!Retire
  <2>2. aa \in SUBSET Pids
    BY DEF Tables
  <2> HIDE DEF aa, r
  <2>3. /\ r \in Tables /\ r.sess = k.sess /\ r.group = k.group /\ r.all_group = k.all_group
        /\ r.all_sess = aa /\ r.pgrp = k.pgrp /\ r.crash = k.crash
    BY ZenonT(40), <2>1, <2>2 DEF Tables
  <2>. QED
    BY <2>3, <1>2 DEF r, aa
<1>. QED
  BY <1>1, <1>2

\* What the end of a group does to its session.
LEMMA SessionLosesGroup ==
  ASSUME NEW k \in Tables, NEW s \in Names, NEW i, NEW held
  PROVE  SameGroups(k, G!Unregister(G!LeaveSession(k, s, i), s, held))
<1> DEFINE k1 == G!LeaveSession(k, s, i)
           r == G!Unregister(k1, s, held)
<1>1. /\ k1 \in Tables
      /\ k1.group = k.group /\ k1.all_group = k.all_group /\ k1.all_sess = k.all_sess
      /\ k1.pgrp = k.pgrp /\ k1.crash = k.crash
      /\ \A t \in Pids \ {s} : k1.sess[t] = k.sess[t]
  <2>1. ButSession(k, k1, s)
    BY ZenonT(40), LeaveSessionFields
  <2> HIDE DEF k1
  <2>. QED
    BY ZenonT(40), <2>1 DEF ButSession
<1>2. k.all_sess \subseteq Pids
  BY DEF Tables
<1> HIDE DEF k1
<1>3. CASE s = Nobody \/ ~G!IsEmptySession(k1, s)
  <2>1. r = k1
    BY <1>3 DEF G!Unregister
  <2>2. \A ss : InUse(k, ss) => InUse(k1, ss)
    BY <1>1, <1>2, <1>3, NobodyIsOther DEF InUse, G!IsEmptySession
  <2> HIDE DEF r
  <2>. QED
    <3>1. SameGroups(k, r)
      BY <2>1, <2>2, <1>1 DEF SameGroups
    <3>. QED
      BY ZenonT(40), <3>1 DEF r, k1
<1>4. CASE ~(s = Nobody \/ ~G!IsEmptySession(k1, s))
  <2> DEFINE x == G!Retire(k1, s)
  <2>0. s \in Pids
    BY <1>4 DEF Names
  <2>1. r = G!DropSession(x, s, held)
    BY <1>4 DEF G!Unregister
  <2>2. /\ x \in Tables /\ x.sess = k1.sess /\ x.group = k1.group /\ x.all_group = k1.all_group
        /\ x.all_sess = k1.all_sess \ {s} /\ x.pgrp = k1.pgrp /\ x.crash = k1.crash
    BY <2>0, <1>1, <1>4, RetireFields
  <2> HIDE DEF x
  <2>3. /\ r \in Tables
        /\ r.all_group = x.all_group /\ r.all_sess = x.all_sess /\ r.pgrp = x.pgrp
        /\ r.crash = x.crash
        /\ \A t \in Pids : t \in x.all_sess \/ t # s => r.sess[t] = x.sess[t]
        /\ \A g \in G!Ids : r.group[g].pgid = x.group[g].pgid
                            /\ r.group[g].processes = x.group[g].processes
    BY <2>1, <2>2, DropSessionFields
  <2> HIDE DEF r
  <2>4. \A ss : InUse(k, ss) => InUse(r, ss)
    BY <2>2, <2>3, <1>1, <1>2 DEF InUse, G!IsEmptySession
  <2>5. SameGroups(k, r)
    BY <2>2, <2>3, <2>4, <1>1 DEF SameGroups
  <2>. QED
    BY ZenonT(40), <2>5 DEF r, k1
<1>. QED
  BY <1>3, <1>4

\* A group goes when nothing owns it, and those that still point to it point nowhere.
LEMMA DropGroupKeeps ==
  ASSUME NEW k \in Tables, NEW g \in Numbers, NEW heldg, NEW helds
  PROVE  Keeps(k, G!DropGroup(k, g, heldg, helds))
<1>1. CASE g = Nobody \/ k.group[g] = G!NoGroup \/ G!IsOwned(k, g, heldg)
  <2>1. G!DropGroup(k, g, heldg, helds) = k
    BY <1>1 DEF G!DropGroup
  <2>. QED
    BY <2>1 DEF Keeps
<1>2. CASE ~(g = Nobody \/ k.group[g] = G!NoGroup \/ G!IsOwned(k, g, heldg))
  <2> DEFINE s == k.group[g].session
             k2 == G!Unregister(G!LeaveSession(k, s, k.group[g].pgid), s, helds)
             r == G!DropGroup(k, g, heldg, helds)
  <2>1. r = G!Freed(k2, g)
    BY <1>2 DEF G!DropGroup
  <2>2. g \in G!Ids /\ k.group \in [G!Ids -> G!Groups]
    BY <1>2 DEF Numbers, Tables
  <2>3. s \in Names
    BY ZenonT(40), <2>2 DEF G!Groups, Names
  <2>4. /\ k2 \in Tables
        /\ k2.all_group = k.all_group /\ k2.pgrp = k.pgrp /\ k2.crash = k.crash
        /\ \A h \in G!Ids : k2.group[h].pgid = k.group[h].pgid
                            /\ k2.group[h].processes = k.group[h].processes
        /\ \A ss : InUse(k, ss) => InUse(k2, ss)
    <3>1. SameGroups(k, k2)
      BY ZenonT(40), <2>3, SessionLosesGroup
    <3> HIDE DEF k2
    <3>. QED
      BY ZenonT(40), <3>1 DEF SameGroups
  <2> HIDE DEF k2
  <2>5. /\ k2.group \in [G!Ids -> G!Groups] /\ k2.pgrp \in [Pids -> Numbers]
        /\ G!NoGroup \in G!Groups /\ G!NoGroup.processes = {}
    BY <2>4 DEF Tables, G!NoGroup, G!Groups
  <2> DEFINE gg == [k2.group EXCEPT ![g] = G!NoGroup]
             pp == [p \in Pids |-> IF k2.pgrp[p] = g THEN Nobody ELSE k2.pgrp[p]]
  <2>6. r = [k2 EXCEPT !.group = gg, !.pgrp = pp]
    BY <2>1 DEF G!Freed
  <2>7. /\ gg \in [G!Ids -> G!Groups] /\ pp \in [Pids -> Numbers]
        /\ gg[g].processes = {} /\ \A h \in G!Ids \ {g} : gg[h] = k2.group[h]
        /\ \A p \in Pids : pp[p] = IF k2.pgrp[p] = g THEN Nobody ELSE k2.pgrp[p]
    BY <2>2, <2>5 DEF Numbers
  <2> HIDE DEF gg, pp, r
  <2>8. /\ r \in Tables /\ r.group = gg /\ r.pgrp = pp /\ r.all_group = k2.all_group
        /\ r.sess = k2.sess /\ r.all_sess = k2.all_sess /\ r.crash = k2.crash
    BY ZenonT(40), <2>4, <2>6, <2>7 DEF Tables
  <2>9. \A ps \in SUBSET Pids : Exact(k, ps) => Exact(r, ps)
    BY <2>2, <2>4, <2>7, <2>8, NobodyIsOther DEF Exact
  <2>10. \A j \in Pids : k.all_group[j] # g
    BY <1>2 DEF G!IsOwned
  <2>11. Registered(k) => Registered(r)
    <3>1. \A j \in Pids : k.all_group[j] # Nobody => k.all_group[j] \in G!Ids
      BY DEF Tables, Numbers
    <3>. QED
      BY <2>4, <2>7, <2>8, <2>10, <3>1 DEF Registered
  <2>12. \A ss : InUse(k, ss) => InUse(r, ss)
    BY <2>4, <2>8 DEF InUse, G!IsEmptySession
  <2>13. \A ss : Sound(k, ss) => Sound(r, ss)
    BY <2>4, <2>8, <2>11, <2>12 DEF Sound
  <2>14. \A h \in G!Ids : r.group[h].processes \subseteq k.group[h].processes
    BY <2>4, <2>7, <2>8
  <2>15. \A p \in Pids : k.pgrp[p] = Nobody => r.pgrp[p] = Nobody
    BY <2>4, <2>7, <2>8
  <2>16. Keeps(k, r)
    BY <2>4, <2>8, <2>9, <2>13, <2>14, <2>15 DEF Keeps
  <2>. QED
    BY <2>16 DEF r
<1>. QED
  BY <1>1, <1>2

\* But for process p, which group g does not list, everything is as it was.
ButProcess(k, r, g, p) ==
    /\ r \in Tables
    /\ r.all_group = k.all_group /\ r.sess = k.sess /\ r.all_sess = k.all_sess
    /\ r.pgrp = k.pgrp /\ r.crash = k.crash
    /\ \A h \in G!Ids : /\ r.group[h].pgid = k.group[h].pgid
                        /\ r.group[h].session = k.group[h].session
                        /\ h # g => r.group[h].processes = k.group[h].processes
    /\ r.group[g].processes = k.group[g].processes \ {p}

\* A process leaves the list of a group.
LEMMA RemoveFields ==
  ASSUME NEW k \in Tables, NEW g \in G!Ids, NEW p \in Pids
  PROVE  ButProcess(k, G!RemoveProcess(k, g, p), g, p)
<1> DEFINE new == [k.group[g] EXCEPT !.processes = @ \ {p},
                     !.leader = IF p \in k.group[g].processes /\ @ = p THEN Nobody ELSE @]
           gg == [k.group EXCEPT ![g] = new]
           r == G!RemoveProcess(k, g, p)
<1>1. k.group \in [G!Ids -> G!Groups]
  BY DEF Tables
<1>2. /\ new \in G!Groups /\ new.pgid = k.group[g].pgid /\ new.session = k.group[g].session
      /\ new.processes = k.group[g].processes \ {p}
  BY ZenonT(40), <1>1 DEF G!Groups
<1>3. r = [k EXCEPT !.group = gg]
  BY ZenonT(40), <1>1 DEF G!RemoveProcess
<1> HIDE DEF new, r
<1>4. gg \in [G!Ids -> G!Groups] /\ gg[g] = new /\ \A h \in G!Ids \ {g} : gg[h] = k.group[h]
  BY <1>1, <1>2
<1> HIDE DEF gg
<1>5. /\ r \in Tables /\ r.group = gg /\ r.all_group = k.all_group /\ r.sess = k.sess
      /\ r.all_sess = k.all_sess /\ r.pgrp = k.pgrp /\ r.crash = k.crash
  BY ZenonT(40), <1>3, <1>4 DEF Tables
<1>6. ButProcess(k, r, g, p)
  BY ZenonT(40), <1>2, <1>4, <1>5 DEF ButProcess
<1>. QED
  BY ZenonT(40), <1>6 DEF r

\* Registered, but for group g, which may have lost its last process.
Nearly(k, g) ==
    \A i \in Pids : k.all_group[i] # Nobody =>
        /\ k.group[k.all_group[i]].pgid = i
        /\ k.all_group[i] # g => k.group[k.all_group[i]].processes # {}

\* No group lists p.
Absent(k, p) == \A g \in G!Ids : p \notin k.group[g].processes

\* A process leaves its group: it is in none.
LEMMA RemoveKeeps ==
  ASSUME NEW k \in Tables, NEW g \in G!Ids, NEW p \in Pids
  PROVE  LET r == G!RemoveProcess(k, g, p)
         IN /\ \A ps \in SUBSET Pids : Exact(k, ps) => Exact(r, ps \ {p})
            /\ \A ps \in SUBSET Pids : Exact(k, ps) /\ p \in ps /\ k.pgrp[p] = g => Absent(r, p)
            /\ Registered(k) => Nearly(r, g)
<1> DEFINE r == G!RemoveProcess(k, g, p)
<1>1. /\ r \in Tables
      /\ r.all_group = k.all_group /\ r.pgrp = k.pgrp
      /\ \A h \in G!Ids : /\ r.group[h].pgid = k.group[h].pgid
                          /\ h # g => r.group[h].processes = k.group[h].processes
      /\ r.group[g].processes = k.group[g].processes \ {p}
  <2>1. ButProcess(k, r, g, p)
    BY ZenonT(40), RemoveFields
  <2> HIDE DEF r
  <2>. QED
    BY ZenonT(40), <2>1 DEF ButProcess
<1> HIDE DEF r
<1>2. \A ps \in SUBSET Pids : Exact(k, ps) => Exact(r, ps \ {p})
  BY <1>1 DEF Exact
<1>3. \A ps \in SUBSET Pids : Exact(k, ps) /\ p \in ps /\ k.pgrp[p] = g => Absent(r, p)
  BY <1>1 DEF Exact, Absent
<1>4. Registered(k) => Nearly(r, g)
  <2>1. \A i \in Pids : k.all_group[i] # Nobody => k.all_group[i] \in G!Ids
    BY DEF Tables, Numbers
  <2>. QED
    BY <1>1, <2>1 DEF Registered, Nearly
<1>. QED
  BY <1>2, <1>3, <1>4 DEF r

\* A group that is empty leaves ALL_PROCESS_GROUP, so those left there have a process.
LEMMA UnlistKeeps ==
  ASSUME NEW k \in Tables, NEW g \in G!Ids
  PROVE  LET r == G!Unlist(k, g)
         IN /\ r \in Tables
            /\ r.group = k.group /\ r.sess = k.sess /\ r.all_sess = k.all_sess
            /\ r.pgrp = k.pgrp /\ r.crash = k.crash
            /\ Nearly(k, g) => Registered(r)
<1>1. CASE k.group[g].processes # {}
  <2>1. G!Unlist(k, g) = k
    BY <1>1 DEF G!Unlist
  <2>2. Nearly(k, g) => Registered(k)
    BY <1>1 DEF Nearly, Registered
  <2>. QED
    BY <2>1, <2>2
<1>2. CASE k.group[g].processes = {}
  <2> DEFINE i == k.group[g].pgid
             aa == [k.all_group EXCEPT ![i] = Nobody]
             r == G!Unlist(k, g)
  <2>1. r = [k EXCEPT !.all_group = aa]
    BY <1>2 DEF G!Unlist
  <2>2. k.all_group \in [Pids -> Numbers]
    BY DEF Tables
  <2>3. /\ aa \in [Pids -> Numbers]
        /\ \A j \in Pids : aa[j] = IF j = i THEN Nobody ELSE k.all_group[j]
    BY ZenonT(40), <2>2 DEF Numbers
  <2> HIDE DEF aa, r
  <2>4. /\ r \in Tables /\ r.sess = k.sess /\ r.group = k.group /\ r.all_group = aa
        /\ r.all_sess = k.all_sess /\ r.pgrp = k.pgrp /\ r.crash = k.crash
    BY ZenonT(40), <2>1, <2>3 DEF Tables
  <2>5. Nearly(k, g) => Registered(r)
    BY <2>3, <2>4 DEF Nearly, Registered
  <2>. QED
    BY <2>4, <2>5 DEF r
<1>. QED
  BY <1>1, <1>2

\* What an operation on the objects keeps, of the processes ps, of those in no group bs,
\* and of the sessions but ss.
Holds(k, ps, bs, ss) ==
    k \in Tables /\ Exact(k, ps) /\ Sound(k, ss) /\ \A q \in bs : k.pgrp[q] = Nobody

\* A process that no group lists joins one.
LEMMA JoinHolds ==
  ASSUME NEW k, NEW p \in Pids, NEW g \in G!Ids,
         NEW ps \in SUBSET Pids, NEW bs \in SUBSET Pids,
         p \notin bs, Holds(k, ps \ {p}, bs, {}), p \in ps => Absent(k, p)
  PROVE  Holds(G!Join(k, p, g), ps, bs, {})
<1> DEFINE new == [k.group[g] EXCEPT !.processes = @ \cup {p}]
           gg == [k.group EXCEPT ![g] = new]
           pp == [k.pgrp EXCEPT ![p] = g]
           r == G!Join(k, p, g)
<1>0. /\ k \in Tables /\ Exact(k, ps \ {p}) /\ Sound(k, {})
      /\ \A q \in bs : k.pgrp[q] = Nobody
  BY ZenonT(40) DEF Holds
<1>1. k.group \in [G!Ids -> G!Groups] /\ k.pgrp \in [Pids -> Numbers]
  BY <1>0 DEF Tables
<1>2. r = [k EXCEPT !.group = gg, !.pgrp = pp]
  BY <1>1 DEF G!Join
<1>3. /\ new \in G!Groups /\ new.pgid = k.group[g].pgid
      /\ new.processes = k.group[g].processes \cup {p}
  BY <1>1 DEF G!Groups
<1> HIDE DEF new, r
<1>4. /\ gg \in [G!Ids -> G!Groups] /\ gg[g] = new /\ \A h \in G!Ids \ {g} : gg[h] = k.group[h]
      /\ pp \in [Pids -> Numbers] /\ pp[p] = g /\ \A q \in Pids \ {p} : pp[q] = k.pgrp[q]
  BY <1>1, <1>3 DEF Numbers
<1> HIDE DEF gg, pp
<1>5. /\ r \in Tables /\ r.group = gg /\ r.pgrp = pp /\ r.all_group = k.all_group
      /\ r.sess = k.sess /\ r.all_sess = k.all_sess /\ r.crash = k.crash
  BY ZenonT(40), <1>0, <1>2, <1>4 DEF Tables
<1>6. Exact(r, ps)
  BY <1>0, <1>3, <1>4, <1>5 DEF Exact, Absent
<1>7. Registered(k) => Registered(r)
  <2>1. \A i \in Pids : k.all_group[i] # Nobody => k.all_group[i] \in G!Ids
    BY <1>0 DEF Tables, Numbers
  <2>. QED
    BY <1>3, <1>4, <1>5, <2>1 DEF Registered
<1>8. \A ss : InUse(k, ss) => InUse(r, ss)
  BY <1>5 DEF InUse, G!IsEmptySession
<1>9. \A q \in bs : r.pgrp[q] = Nobody
  BY <1>0, <1>4, <1>5
<1>10. Holds(r, ps, bs, {})
  BY ZenonT(40), <1>0, <1>5, <1>6, <1>7, <1>8, <1>9 DEF Holds, Sound
<1>. QED
  BY ZenonT(40), <1>10 DEF r

\* A process that is in no group gets one of its own, which puts its session to use.
LEMMA NewGroupHolds ==
  ASSUME NEW k, NEW p \in Pids, NEW s \in Pids, NEW n \in G!Ids,
         NEW ps \in SUBSET Pids, NEW bs \in SUBSET Pids,
         p \notin bs, Holds(k, ps, bs, {s}), k.pgrp[p] = Nobody, k.group[n].processes = {}
  PROVE  Holds(G!NewGroup(k, p, s, n), ps, bs, {})
<1> DEFINE new == [pgid |-> p, processes |-> {p}, leader |-> p, session |-> s]
           gg == [k.group EXCEPT ![n] = new]
           pp == [k.pgrp EXCEPT ![p] = n]
           aa == [k.all_group EXCEPT ![p] = n]
           tt == [k.sess EXCEPT ![s].process_groups[p] = n]
           r == G!NewGroup(k, p, s, n)
<1>0. k \in Tables /\ Exact(k, ps) /\ Sound(k, {s}) /\ \A q \in bs : k.pgrp[q] = Nobody
  BY ZenonT(40) DEF Holds
<1>1. /\ k.group \in [G!Ids -> G!Groups] /\ k.pgrp \in [Pids -> Numbers]
      /\ k.all_group \in [Pids -> Numbers]
      /\ k.sess \in [Pids -> [process_groups : [Pids -> Numbers], leader : Names]]
  BY <1>0 DEF Tables
<1>2. r = [k EXCEPT !.group = gg, !.pgrp = pp, !.all_group = aa, !.sess = tt]
  BY DEF G!NewGroup
<1>3. new \in G!Groups /\ new.pgid = p /\ new.processes = {p}
  BY DEF G!Groups
<1> HIDE DEF new, r
<1>4. /\ gg \in [G!Ids -> G!Groups] /\ gg[n] = new /\ \A h \in G!Ids \ {n} : gg[h] = k.group[h]
      /\ pp \in [Pids -> Numbers] /\ pp[p] = n /\ \A q \in Pids \ {p} : pp[q] = k.pgrp[q]
      /\ aa \in [Pids -> Numbers] /\ aa[p] = n /\ \A q \in Pids \ {p} : aa[q] = k.all_group[q]
  BY <1>1, <1>3 DEF Numbers
<1>5. /\ tt \in [Pids -> [process_groups : [Pids -> Numbers], leader : Names]]
      /\ tt[s].process_groups[p] = n /\ \A t \in Pids \ {s} : tt[t] = k.sess[t]
  <2> DEFINE mm == [k.sess[s].process_groups EXCEPT ![p] = n]
             ns == [k.sess[s] EXCEPT !.process_groups = mm]
  <2>1. mm \in [Pids -> Numbers] /\ mm[p] = n
    BY <1>1 DEF Numbers
  <2>2. tt = [k.sess EXCEPT ![s] = ns]
    OBVIOUS
  <2> HIDE DEF mm, tt
  <2>3. ns \in [process_groups : [Pids -> Numbers], leader : Names] /\ ns.process_groups = mm
    <3>1. k.sess[s] \in [process_groups : [Pids -> Numbers], leader : Names]
      BY ZenonT(40), <1>1
    <3>. QED
      BY <2>1, <3>1
  <2> HIDE DEF ns
  <2>. QED
    BY <1>1, <2>1, <2>2, <2>3
<1> HIDE DEF gg, pp, aa, tt
<1>6. /\ r \in Tables /\ r.group = gg /\ r.pgrp = pp /\ r.all_group = aa
      /\ r.sess = tt /\ r.all_sess = k.all_sess /\ r.crash = k.crash
  BY ZenonT(40), <1>0, <1>2, <1>4, <1>5 DEF Tables
<1>7. Exact(r, ps)
  BY <1>0, <1>3, <1>4, <1>6, NobodyIsOther DEF Exact
<1>8. Registered(k) => Registered(r)
  <2>1. \A i \in Pids : k.all_group[i] # Nobody => k.all_group[i] \in G!Ids
    BY <1>0 DEF Tables, Numbers
  <2>2. Registered(k) => \A i \in Pids : k.all_group[i] # n
    BY NobodyIsOther DEF Registered
  <2>. QED
    BY <1>3, <1>4, <1>6, <2>1, <2>2 DEF Registered
<1>9. InUse(k, {s}) => InUse(r, {})
  <2>1. k.all_sess \subseteq Pids
    BY <1>0 DEF Tables
  <2>2. tt[s].process_groups # G!NoMap
    BY <1>5, NobodyIsOther DEF G!NoMap
  <2>. QED
    BY ZenonT(40), <1>5, <1>6, <2>1, <2>2 DEF InUse, G!IsEmptySession
<1>10. \A q \in bs : r.pgrp[q] = Nobody
  BY <1>0, <1>4, <1>6
<1>11. Holds(r, ps, bs, {})
  BY ZenonT(40), <1>0, <1>6, <1>7, <1>8, <1>9, <1>10 DEF Holds, Sound
<1>. QED
  BY ZenonT(40), <1>11 DEF r

\* A drop keeps it.
LEMMA KeepsHolds ==
  ASSUME NEW k, NEW r, NEW ps \in SUBSET Pids, NEW bs \in SUBSET Pids, NEW ss,
         Keeps(k, r), Holds(k, ps, bs, ss)
  PROVE  Holds(r, ps, bs, ss)
BY DEF Keeps, Holds

\* A kernel that has stopped has nothing left to keep but the lists.
LEMMA CrashHolds ==
  ASSUME NEW k \in Tables, NEW how \in {"panic", "deadlock"},
         NEW ps \in SUBSET Pids, NEW bs \in SUBSET Pids, NEW ss,
         Exact(k, ps), \A q \in bs : k.pgrp[q] = Nobody
  PROVE  LET r == G!Crashed(k, how)
         IN Holds(r, ps, bs, ss) /\ r.pgrp = k.pgrp /\ r.group = k.group
<1> DEFINE r == G!Crashed(k, how)
<1>1. r = [k EXCEPT !.crash = how]
  BY DEF G!Crashed
<1> HIDE DEF r
<1>2. /\ r \in Tables /\ r.group = k.group /\ r.pgrp = k.pgrp /\ r.crash = how
  BY ZenonT(40), <1>1 DEF Tables
<1>3. r.crash # Nobody
  BY <1>2, GroupAssumption
<1>4. Exact(r, ps)
  BY <1>2 DEF Exact
<1>. QED
  BY <1>2, <1>3, <1>4 DEF Holds, Sound, r

\* join_specified_group: out of the old group, into the new one.
LEMMA SpecifiedHolds ==
  ASSUME NEW k, NEW p \in Pids, NEW g \in G!Ids, NEW ps \in SUBSET Pids, NEW bs \in SUBSET Pids,
         p \notin bs, Holds(k, ps, bs, {})
  PROVE  Holds(G!join_specified_group(k, p, g), ps, bs, {})
<1> DEFINE old == k.pgrp[p]
           r == G!join_specified_group(k, p, g)
<1>0. k \in Tables /\ Exact(k, ps) /\ Sound(k, {}) /\ \A q \in bs : k.pgrp[q] = Nobody
  BY DEF Holds
<1>1. old \in Numbers
  BY <1>0 DEF Tables
<1>2. CASE old = Nobody
  <2> DEFINE x == G!Join(k, p, g)
  <2>1. r = x
    BY <1>2 DEF G!join_specified_group
  <2>2. Exact(k, ps \ {p}) /\ (p \in ps => Absent(k, p))
    BY <1>0, <1>2, NobodyIsOther DEF Exact, Absent
  <2>3. Holds(k, ps \ {p}, bs, {})
    BY ZenonT(40), <1>0, <2>2 DEF Holds
  <2>4. Holds(x, ps, bs, {})
    BY ZenonT(40), <2>2, <2>3, JoinHolds
  <2> HIDE DEF x, r
  <2>. QED
    BY <2>1, <2>4 DEF r
<1>3. CASE old # Nobody /\ k.group[old].pgid = k.group[g].pgid
  <2>1. r = k
    BY <1>3 DEF G!join_specified_group
  <2>. QED
    BY <2>1
<1>4. CASE ~(old = Nobody \/ (old # Nobody /\ k.group[old].pgid = k.group[g].pgid))
  <2> DEFINE a == G!RemoveProcess(k, old, p)
             b == G!Unlist(a, old)
             x == G!Join(b, p, g)
  <2>0. old \in G!Ids
    BY ZenonT(40), <1>1, <1>4 DEF Numbers
  <2>1. r = G!DropGroup(x, old, G!HeldGroups, G!HeldSessions)
    BY ZenonT(40), <1>4 DEF G!join_specified_group
  <2>2. /\ a \in Tables /\ a.sess = k.sess /\ a.all_sess = k.all_sess
        /\ a.pgrp = k.pgrp /\ a.crash = k.crash
    <3>1. ButProcess(k, a, old, p)
      BY ZenonT(40), <1>0, <2>0, RemoveFields
    <3> HIDE DEF a, old
    <3>. QED
      BY ZenonT(40), <3>1 DEF ButProcess
  <2>3. /\ Exact(a, ps \ {p}) /\ (p \in ps => Absent(a, p))
        /\ Registered(k) => Nearly(a, old)
    BY ZenonT(40), <1>0, <2>0, RemoveKeeps
  <2> HIDE DEF a, old
  <2>4. /\ b \in Tables /\ b.group = a.group /\ b.sess = a.sess /\ b.all_sess = a.all_sess
        /\ b.pgrp = a.pgrp /\ b.crash = a.crash
        /\ Nearly(a, old) => Registered(b)
    BY ZenonT(40), <2>2, <2>0, UnlistKeeps
  <2> HIDE DEF b
  <2>5. Exact(b, ps \ {p}) /\ (p \in ps => Absent(b, p))
    BY SMTT(30), <2>3, <2>4 DEF Exact, Absent
  <2>6. InUse(k, {}) => InUse(b, {})
    BY ZenonT(40), <2>2, <2>4 DEF InUse, G!IsEmptySession
  <2>7. Holds(b, ps \ {p}, bs, {})
    BY ZenonT(40), <1>0, <2>2, <2>3, <2>4, <2>5, <2>6 DEF Holds, Sound
  <2>8. Holds(x, ps, bs, {}) /\ x \in Tables
    <3>1. Holds(x, ps, bs, {})
      BY ZenonT(40), <2>5, <2>7, JoinHolds
    <3> HIDE DEF x
    <3>. QED
      BY ZenonT(40), <3>1 DEF Holds
  <2> HIDE DEF x
  <2>9. Keeps(x, G!DropGroup(x, old, G!HeldGroups, G!HeldSessions))
    BY <1>1, <2>8, DropGroupKeeps
  <2> HIDE DEF r
  <2>. QED
    BY <2>1, <2>8, <2>9, KeepsHolds DEF r
<1>. QED
  BY <1>2, <1>3, <1>4

\* join_new_group and go_to_new_session leave the old group: the process is in none, and
\* only its session may be left without groups.
LEMMA LeaveGroupHolds ==
  ASSUME NEW k, NEW p \in Pids, NEW s \in Pids, NEW ps \in SUBSET Pids, NEW bs \in SUBSET Pids,
         k.pgrp[p] \in G!Ids, Holds(k, ps, bs, {})
  PROVE  LET r == G!LeaveGroup(k, p, s)
         IN /\ Holds(r, ps, bs, {s}) /\ r.pgrp[p] = Nobody
            /\ \A h \in G!Ids : r.group[h].processes \subseteq k.group[h].processes
<1> DEFINE old == k.pgrp[p]
           i == k.group[old].pgid
           a == G!RemoveProcess(k, old, p)
           pp == [a.pgrp EXCEPT ![p] = Nobody]
           k1 == [a EXCEPT !.pgrp[p] = Nobody]
           r == G!LeaveGroup(k, p, s)
<1>0. k \in Tables /\ Exact(k, ps) /\ Sound(k, {}) /\ \A q \in bs : k.pgrp[q] = Nobody
  BY DEF Holds
<1>1. /\ a \in Tables /\ a.all_group = k.all_group /\ a.sess = k.sess /\ a.all_sess = k.all_sess
      /\ a.pgrp = k.pgrp /\ a.crash = k.crash
      /\ \A h \in G!Ids : a.group[h].processes \subseteq k.group[h].processes
  <2>1. /\ a \in Tables /\ a.all_group = k.all_group /\ a.sess = k.sess
        /\ a.all_sess = k.all_sess /\ a.pgrp = k.pgrp /\ a.crash = k.crash
        /\ \A h \in G!Ids : h # old => a.group[h].processes = k.group[h].processes
        /\ a.group[old].processes = k.group[old].processes \ {p}
    <3>1. ButProcess(k, a, old, p)
      BY ZenonT(40), <1>0, RemoveFields
    <3> HIDE DEF a, old
    <3>. QED
      BY ZenonT(40), <3>1 DEF ButProcess
  <2> HIDE DEF a, old
  <2>2. ASSUME NEW h \in G!Ids PROVE a.group[h].processes \subseteq k.group[h].processes
    BY ZenonT(40), <2>1
  <2>. QED
    BY ZenonT(40), <2>1, <2>2
<1>2. /\ Exact(a, ps \ {p}) /\ (p \in ps => Absent(a, p))
      /\ Registered(k) => Nearly(a, old)
  BY <1>0, RemoveKeeps
<1>3. \/ k1.group[old].processes # {} /\ r = k1
      \/ k1.group[old].processes = {} /\ r = G!Crashed(k1, "panic")
      \/ /\ k1.group[old].processes = {}
         /\ r = G!DropGroup(G!LeaveSession(G!Unlist(k1, old), s, i), old,
                            G!HeldGroups, G!HeldSessions \cup {s})
  BY ZenonT(40) DEF G!LeaveGroup
<1>. old \in G!Ids
  OBVIOUS
<1> HIDE DEF a, r, old, i
<1>4. k1 = [a EXCEPT !.pgrp = pp]
  OBVIOUS
<1>5. pp \in [Pids -> Numbers] /\ pp[p] = Nobody /\ \A q \in Pids \ {p} : pp[q] = k.pgrp[q]
  BY <1>1 DEF Tables, Numbers
<1> HIDE DEF k1, pp
<1>6. /\ k1 \in Tables /\ k1.group = a.group /\ k1.pgrp = pp /\ k1.all_group = a.all_group
      /\ k1.sess = a.sess /\ k1.all_sess = a.all_sess /\ k1.crash = a.crash
  BY ZenonT(40), <1>1, <1>4, <1>5 DEF Tables
<1>7. Exact(k1, ps) /\ \A q \in bs : k1.pgrp[q] = Nobody
  <2>1. Exact(k1, ps \ {p})
    BY <1>1, <1>2, <1>5, <1>6 DEF Exact
  <2>2. p \in ps => \A g \in G!Ids : p \in k1.group[g].processes <=> k1.pgrp[p] = g
    BY <1>2, <1>5, <1>6, NobodyIsOther DEF Absent
  <2>3. Exact(k1, ps)
    BY <2>1, <2>2 DEF Exact
  <2>. QED
    BY ZenonT(40), <1>0, <1>5, <1>6, <2>3
<1>8. /\ Registered(k) => Nearly(k1, old)
      /\ \A ss : InUse(k, ss) => InUse(k1, ss)
  <2>1. Registered(k) => Nearly(k1, old)
    BY ZenonT(40), <1>2, <1>6 DEF Nearly
  <2>2. \A ss : InUse(k, ss) => InUse(k1, ss)
    BY ZenonT(40), <1>1, <1>6 DEF InUse, G!IsEmptySession
  <2>. QED
    BY ZenonT(40), <2>1, <2>2
<1>9. \A h \in G!Ids : k1.group[h].processes \subseteq k.group[h].processes
  BY ZenonT(40), <1>1, <1>6
<1>10. CASE k1.group[old].processes # {} /\ r = k1
  <2>1. Nearly(k1, old) => Registered(k1)
    BY ZenonT(40), <1>10 DEF Nearly, Registered
  <2>2. InUse(k1, {}) => InUse(k1, {s})
    BY ZenonT(40) DEF InUse
  <2>3. Holds(k1, ps, bs, {s})
    BY ZenonT(40), <1>0, <1>1, <1>6, <1>7, <1>8, <2>1, <2>2 DEF Holds, Sound
  <2>. QED
    BY ZenonT(40), <1>5, <1>6, <1>9, <1>10, <2>3 DEF r
<1>11. CASE r = G!Crashed(k1, "panic")
  <2>1. Holds(r, ps, bs, {s}) /\ r.pgrp = k1.pgrp /\ r.group = k1.group
    BY ZenonT(40), <1>6, <1>7, <1>11, CrashHolds
  <2>. QED
    BY ZenonT(40), <1>5, <1>6, <1>9, <2>1 DEF r
<1>12. CASE r = G!DropGroup(G!LeaveSession(G!Unlist(k1, old), s, i), old,
                            G!HeldGroups, G!HeldSessions \cup {s})
  <2> DEFINE b == G!Unlist(k1, old)
             x == G!LeaveSession(b, s, i)
  <2>1. /\ b \in Tables /\ b.group = k1.group /\ b.sess = k1.sess /\ b.all_sess = k1.all_sess
        /\ b.pgrp = k1.pgrp /\ b.crash = k1.crash
        /\ Nearly(k1, old) => Registered(b)
    BY <1>6, UnlistKeeps
  <2> HIDE DEF b
  <2>2. s \in Names /\ old \in Numbers
    BY ZenonT(40) DEF Names, Numbers
  <2>3. /\ x \in Tables /\ x.group = b.group /\ x.all_group = b.all_group
        /\ x.all_sess = b.all_sess /\ x.pgrp = b.pgrp /\ x.crash = b.crash
        /\ \A t \in Pids \ {s} : x.sess[t] = b.sess[t]
    <3>1. ButSession(b, x, s)
      BY ZenonT(40), <2>1, <2>2, LeaveSessionFields
    <3> HIDE DEF x
    <3>. QED
      BY ZenonT(40), <3>1 DEF ButSession
  <2>4. r = G!DropGroup(x, old, G!HeldGroups, G!HeldSessions \cup {s})
    BY ZenonT(40), <1>12 DEF b
  <2> HIDE DEF x
  <2>5. Exact(x, ps) /\ \A q \in bs : x.pgrp[q] = Nobody
    BY <1>7, <2>1, <2>3 DEF Exact
  <2>6. Registered(b) => Registered(x)
    BY ZenonT(40), <2>3 DEF Registered
  <2>7. InUse(k1, {}) => InUse(x, {s})
    <3>1. k1.all_sess \subseteq Pids
      BY ZenonT(40), <1>6 DEF Tables
    <3>. QED
      BY ZenonT(40), <2>1, <2>3, <3>1 DEF InUse, G!IsEmptySession
  <2>8. Holds(x, ps, bs, {s})
    BY ZenonT(40), <1>0, <1>1, <1>6, <1>8, <2>1, <2>3, <2>5, <2>6, <2>7 DEF Holds, Sound
  <2>9. Keeps(x, r)
    BY <2>2, <2>3, <2>4, DropGroupKeeps
  <2>10. Holds(r, ps, bs, {s})
    BY ZenonT(40), <2>8, <2>9, KeepsHolds
  <2>11. /\ \A h \in G!Ids : r.group[h].processes \subseteq k.group[h].processes
         /\ r.pgrp[p] = Nobody
    BY ZenonT(40), <1>5, <1>6, <1>9, <2>1, <2>3, <2>9 DEF Keeps
  <2>. QED
    BY ZenonT(40), <2>10, <2>11 DEF r
<1>. QED
  BY ZenonT(40), <1>3, <1>10, <1>11, <1>12

\* The new group of join_new_group, or the deadlock on the session's lock.
LEMMA EnterHolds ==
  ASSUME NEW k, NEW p \in Pids, NEW s \in Pids, NEW n \in G!Ids,
         NEW ps \in SUBSET Pids, NEW bs \in SUBSET Pids,
         p \notin bs, Holds(k, ps, bs, {s}), k.pgrp[p] = Nobody, k.group[n].processes = {}
  PROVE  Holds(G!EnterNewGroup(k, p, s, n), ps, bs, {})
<1> DEFINE k1 == G!NewGroup(k, p, s, n)
           r == G!EnterNewGroup(k, p, s, n)
<1>0. k \in Tables /\ Exact(k, ps) /\ Sound(k, {s}) /\ \A q \in bs : k.pgrp[q] = Nobody
  BY ZenonT(40) DEF Holds
<1>1. \/ k.crash # Nobody /\ r = k
      \/ r = G!Crashed(k1, "deadlock")
      \/ r = k1
  BY ZenonT(40) DEF G!EnterNewGroup
<1>2. Holds(k1, ps, bs, {})
  BY ZenonT(40), NewGroupHolds
<1> HIDE DEF k1, r
<1>3. k1 \in Tables /\ Exact(k1, ps) /\ \A q \in bs : k1.pgrp[q] = Nobody
  BY ZenonT(40), <1>2 DEF Holds
<1>4. CASE k.crash # Nobody /\ r = k
  BY <1>0, <1>4 DEF Holds, Sound, r
<1>5. CASE r = G!Crashed(k1, "deadlock")
  <2>1. Holds(r, ps, bs, {})
    BY ZenonT(40), <1>2, <1>3, <1>5, CrashHolds
  <2>. QED
    BY ZenonT(40), <2>1 DEF r
<1>6. CASE r = k1
  <2>1. Holds(r, ps, bs, {})
    BY <1>0, <1>2, <1>3, <1>6 DEF Holds
  <2>. QED
    BY <2>1 DEF r
<1>. QED
  BY <1>1, <1>4, <1>5, <1>6

\* The session of a process is known by its group.
LEMMA SessionOf ==
  ASSUME NEW k \in Tables, NEW p \in Pids
  PROVE  /\ G!Session(k, p) \in Names
         /\ G!Session(k, p) # Nobody => G!Session(k, p) \in Pids /\ k.pgrp[p] \in G!Ids
<1>1. k.pgrp[p] \in Numbers /\ k.group \in [G!Ids -> G!Groups]
  BY DEF Tables
<1>2. CASE k.pgrp[p] = Nobody
  BY ZenonT(40), <1>2 DEF G!Session, Names
<1>3. CASE k.pgrp[p] # Nobody
  <2>1. k.pgrp[p] \in G!Ids
    BY <1>1, <1>3 DEF Numbers
  <2>2. k.group[k.pgrp[p]].session \in Names
    BY ZenonT(40), <1>1, <2>1 DEF G!Groups, Names
  <2>. QED
    BY <1>3, <2>1, <2>2 DEF G!Session, Names
<1>. QED
  BY <1>2, <1>3

\* join_new_group.
LEMMA NewHolds ==
  ASSUME NEW k, NEW p \in Pids, NEW n \in G!Ids,
         NEW ps \in SUBSET Pids, NEW bs \in SUBSET Pids,
         p \notin bs, Holds(k, ps, bs, {}), k.group[n].processes = {}
  PROVE  Holds(G!join_new_group(k, p, n), ps, bs, {})
<1> DEFINE s == G!Session(k, p)
           a == G!LeaveGroup(k, p, s)
           b == G!EnterNewGroup(a, p, s, n)
           r == G!join_new_group(k, p, n)
<1>0. k \in Tables /\ Exact(k, ps) /\ \A q \in bs : k.pgrp[q] = Nobody
  BY DEF Holds
<1>1. CASE s = Nobody
  <2>1. r = G!Crashed(k, "panic")
    BY ZenonT(40), <1>1 DEF G!join_new_group
  <2> HIDE DEF r
  <2>2. Holds(r, ps, bs, {})
    BY ZenonT(40), <1>0, <2>1, CrashHolds
  <2>. QED
    BY ZenonT(40), <2>2 DEF r
<1>2. CASE s # Nobody
  <2>1. r = G!DropSession(b, s, G!HeldSessions)
    BY ZenonT(40), <1>2 DEF G!join_new_group
  <2>2. s \in Names /\ s \in Pids /\ k.pgrp[p] \in G!Ids
    BY ZenonT(40), <1>0, <1>2, SessionOf
  <2> HIDE DEF s
  <2>3. /\ Holds(a, ps, bs, {s}) /\ a.pgrp[p] = Nobody
        /\ \A h \in G!Ids : a.group[h].processes \subseteq k.group[h].processes
    BY ZenonT(40), <2>2, LeaveGroupHolds
  <2> HIDE DEF a
  <2>4. a.group[n].processes = {}
    BY <2>3
  <2>5. Holds(b, ps, bs, {})
    BY ZenonT(40), <2>2, <2>3, <2>4, EnterHolds
  <2> HIDE DEF b, r
  <2>6. Keeps(b, r)
    <3>1. b \in Tables
      BY ZenonT(40), <2>5 DEF Holds
    <3>. QED
      BY <2>1, <2>2, <3>1, DropSessionKeeps
  <2>7. Holds(r, ps, bs, {})
    BY ZenonT(40), <2>5, <2>6, KeepsHolds
  <2>. QED
    BY <2>7 DEF r
<1>. QED
  BY <1>1, <1>2

\* The new session of go_to_new_session and its first group; the old session goes when it
\* has none left.
LEMMA SetsidHolds ==
  ASSUME NEW k, NEW p \in Pids, NEW s \in Pids, NEW n \in G!Ids, NEW held,
         NEW ps \in SUBSET Pids, NEW bs \in SUBSET Pids,
         p \notin bs, Holds(k, ps, bs, {s}), k.pgrp[p] = Nobody, k.group[n].processes = {}
  PROVE  Holds(G!DropSession(G!NewGroup(G!NewSession(G!Retire(k, s), p), p, p, n), s, held),
               ps, bs, {})
<1> DEFINE a == G!Retire(k, s)
           tt == [a.sess EXCEPT ![p] = [process_groups |-> G!NoMap, leader |-> p]]
           aa == a.all_sess \cup {p}
           b == G!NewSession(a, p)
           c == G!NewGroup(b, p, p, n)
           r == G!DropSession(c, s, held)
<1>0. k \in Tables /\ Exact(k, ps) /\ Sound(k, {s}) /\ \A q \in bs : k.pgrp[q] = Nobody
  BY DEF Holds
<1>1. /\ a \in Tables
      /\ a.group = k.group /\ a.all_group = k.all_group /\ a.sess = k.sess
      /\ a.pgrp = k.pgrp /\ a.crash = k.crash
      /\ a.all_sess = IF G!IsEmptySession(k, s) THEN k.all_sess \ {s} ELSE k.all_sess
  BY ZenonT(40), <1>0, RetireFields
<1> HIDE DEF a
<1>2. b = [a EXCEPT !.sess = tt, !.all_sess = aa]
  BY DEF G!NewSession
<1>3. /\ tt \in [Pids -> [process_groups : [Pids -> Numbers], leader : Names]]
      /\ \A t \in Pids \ {p} : tt[t] = a.sess[t]
      /\ aa \in SUBSET Pids
  BY <1>1 DEF Tables, G!NoMap, Numbers, Names
<1> HIDE DEF b, tt, aa
<1>4. /\ b \in Tables
      /\ b.group = a.group /\ b.all_group = a.all_group /\ b.sess = tt
      /\ b.pgrp = a.pgrp /\ b.crash = a.crash /\ b.all_sess = aa
  BY ZenonT(40), <1>1, <1>2, <1>3 DEF Tables
<1>5. Exact(b, ps)
  BY SMTT(30), <1>0, <1>1, <1>4 DEF Exact
<1>6. Registered(k) => Registered(b)
  BY <1>1, <1>4 DEF Registered
<1>7. InUse(k, {s}) => InUse(b, {p})
  <2>1. ASSUME NEW t \in b.all_sess \ {p}
        PROVE  /\ t \in k.all_sess /\ b.sess[t] = k.sess[t]
               /\ t = s => ~G!IsEmptySession(k, s)
    BY <1>1, <1>3, <1>4 DEF aa
  <2>. QED
    BY ZenonT(40), <2>1 DEF InUse, G!IsEmptySession
<1>8. Sound(b, {p})
  BY ZenonT(40), <1>0, <1>1, <1>4, <1>6, <1>7 DEF Sound
<1>9. /\ b.pgrp[p] = Nobody /\ b.group[n].processes = {}
      /\ \A q \in bs : b.pgrp[q] = Nobody
  BY ZenonT(40), <1>0, <1>1, <1>4
<1>10. Holds(c, ps, bs, {}) /\ c \in Tables
  <2>1. Holds(b, ps, bs, {p})
    BY ZenonT(40), <1>4, <1>5, <1>8, <1>9 DEF Holds
  <2>2. Holds(c, ps, bs, {})
    BY ZenonT(40), <1>9, <2>1, NewGroupHolds
  <2> HIDE DEF c
  <2>. QED
    BY ZenonT(40), <2>2 DEF Holds
<1> HIDE DEF c
<1>11. Keeps(c, r)
  BY ZenonT(40), <1>10, DropSessionKeeps DEF Names
<1> HIDE DEF r
<1>12. Holds(r, ps, bs, {})
  BY ZenonT(40), <1>10, <1>11, KeepsHolds
<1>. QED
  BY ZenonT(40), <1>12 DEF r, c, b, a

\* The leader of a session is forgotten.
LEMMA ForgetKeeps ==
  ASSUME NEW k \in Tables, NEW p \in Pids
  PROVE  Keeps(k, G!ForgetLeader(k, p))
<1> DEFINE s == G!Session(k, p)
           r == G!ForgetLeader(k, p)
<1>1. CASE ~(s # Nobody /\ k.sess[s].leader = p)
  <2>1. r = k
    BY <1>1 DEF G!ForgetLeader
  <2>. QED
    BY <2>1 DEF Keeps
<1>2. CASE s # Nobody /\ k.sess[s].leader = p
  <2> DEFINE tt == [k.sess EXCEPT ![s].leader = Nobody]
  <2>1. r = [k EXCEPT !.sess = tt]
    BY <1>2 DEF G!ForgetLeader
  <2>2. s \in Pids /\ k.sess \in [Pids -> [process_groups : [Pids -> Numbers], leader : Names]]
    BY <1>2, SessionOf DEF Tables
  <2> HIDE DEF s
  <2>3. /\ tt \in [Pids -> [process_groups : [Pids -> Numbers], leader : Names]]
        /\ \A t \in Pids : tt[t].process_groups = k.sess[t].process_groups
    BY <2>2 DEF Names
  <2> HIDE DEF r, tt
  <2>4. /\ r \in Tables /\ r.group = k.group /\ r.pgrp = k.pgrp /\ r.all_group = k.all_group
        /\ r.sess = tt /\ r.all_sess = k.all_sess /\ r.crash = k.crash
    BY ZenonT(40), <2>1, <2>3 DEF Tables
  <2>5. \A ss : InUse(k, ss) => InUse(r, ss)
    <3>1. k.all_sess \subseteq Pids
      BY DEF Tables
    <3>. QED
      BY ZenonT(40), <2>3, <2>4, <3>1 DEF InUse, G!IsEmptySession
  <2>6. Keeps(k, r)
    BY <2>4, <2>5, SameGroupsKeep DEF SameGroups
  <2>. QED
    BY <2>6 DEF r
<1>. QED
  BY <1>1, <1>2

\* clear_pg_and_session_reference: the process is in no list, and what it was the last
\* user of is in no registry.
LEMMA ClearHolds ==
  ASSUME NEW k, NEW p \in Pids, NEW ps \in SUBSET Pids, NEW bs \in SUBSET Pids,
         Holds(k, ps, bs, {})
  PROVE  Holds(G!clear_pg_and_session_reference(k, p), ps \ {p}, bs, {})
<1> DEFINE g == k.pgrp[p]
           r == G!clear_pg_and_session_reference(k, p)
<1>0. k \in Tables /\ Exact(k, ps) /\ Sound(k, {}) /\ \A q \in bs : k.pgrp[q] = Nobody
  BY DEF Holds
<1>1. CASE g = Nobody
  <2>1. r = k
    BY <1>1 DEF G!clear_pg_and_session_reference
  <2>2. Exact(k, ps \ {p})
    BY <1>0 DEF Exact
  <2>. QED
    BY <2>1, <2>2 DEF Holds
<1>2. CASE g # Nobody
  <2> DEFINE a == G!RemoveProcess(k, g, p)
             b == G!Disband(a, g)
             c == G!DropGroup(b, g, G!HeldGroups, G!HeldSessions)
  <2>1. r = G!ForgetLeader(c, p)
    BY ZenonT(40), <1>2 DEF G!clear_pg_and_session_reference
  <2>2. g \in G!Ids /\ g \in Numbers
    BY ZenonT(40), <1>0, <1>2 DEF Tables, Numbers
  <2> HIDE DEF g
  <2>3. /\ a \in Tables /\ a.sess = k.sess /\ a.all_sess = k.all_sess
        /\ a.pgrp = k.pgrp /\ a.crash = k.crash
    <3>1. ButProcess(k, a, g, p)
      BY ZenonT(40), <1>0, <2>2, RemoveFields
    <3> HIDE DEF a
    <3>. QED
      BY ZenonT(40), <3>1 DEF ButProcess
  <2>4. Exact(a, ps \ {p}) /\ (Registered(k) => Nearly(a, g))
    BY ZenonT(40), <1>0, <2>2, RemoveKeeps
  <2> HIDE DEF a
  <2>5. InUse(k, {}) => InUse(a, {})
    BY ZenonT(40), <2>3 DEF InUse, G!IsEmptySession
  <2>6. Holds(b, ps \ {p}, bs, {})
    <3>1. CASE a.group[g].processes # {}
      <4>1. b = a
        BY ZenonT(40), <3>1 DEF G!Disband
      <4>2. Nearly(a, g) => Registered(a)
        BY <3>1 DEF Nearly, Registered
      <4> HIDE DEF b
      <4>. QED
        BY ZenonT(40), <1>0, <2>3, <2>4, <2>5, <4>1, <4>2 DEF Holds, Sound
    <3>2. CASE a.group[g].processes = {}
      <4> DEFINE s == a.group[g].session
                 i == a.group[g].pgid
                 x == G!Unlist(a, g)
      <4>1. b = G!Unregister(G!LeaveSession(x, s, i), s, G!HeldSessions)
        BY ZenonT(40), <3>2 DEF G!Disband
      <4>2. s \in Names
        BY ZenonT(40), <2>2, <2>3 DEF Tables, G!Groups, Names
      <4>3. /\ x \in Tables /\ x.group = a.group /\ x.sess = a.sess
            /\ x.all_sess = a.all_sess /\ x.pgrp = a.pgrp /\ x.crash = a.crash
            /\ Nearly(a, g) => Registered(x)
        BY ZenonT(40), <2>2, <2>3, UnlistKeeps
      <4> HIDE DEF x, b, s, i
      <4>4. SameGroups(x, b)
        BY ZenonT(40), <4>1, <4>2, <4>3, SessionLosesGroup
      <4>5. Keeps(x, b)
        BY ZenonT(40), <4>3, <4>4, SameGroupsKeep
      <4>6. Exact(x, ps \ {p})
        BY SMTT(30), <2>4, <4>3 DEF Exact
      <4>7. InUse(a, {}) => InUse(x, {})
        BY ZenonT(40), <4>3 DEF InUse, G!IsEmptySession
      <4>8. Holds(x, ps \ {p}, bs, {})
        BY ZenonT(40), <1>0, <2>3, <2>4, <2>5, <4>3, <4>6, <4>7 DEF Holds, Sound
      <4>. QED
        BY ZenonT(40), <4>5, <4>8, KeepsHolds
    <3>. QED
      BY ZenonT(40), <3>1, <3>2
  <2> HIDE DEF b
  <2>7. Holds(c, ps \ {p}, bs, {}) /\ c \in Tables
    <3>1. b \in Tables
      BY <2>6 DEF Holds
    <3>2. Keeps(b, c)
      BY <2>2, <3>1, DropGroupKeeps
    <3> HIDE DEF c
    <3>3. Holds(c, ps \ {p}, bs, {})
      BY <2>6, <3>2, KeepsHolds
    <3>. QED
      BY <3>3 DEF Holds
  <2> HIDE DEF c, r
  <2>8. Keeps(c, r)
    BY <2>1, <2>7, ForgetKeeps
  <2>9. Holds(r, ps \ {p}, bs, {})
    BY ZenonT(40), <2>7, <2>8, KeepsHolds
  <2>. QED
    BY <2>9 DEF r
<1>. QED
  BY <1>1, <1>2

\* The processes that have not exited, those not born, and the invariant: a process is in
\* the list of its group, one not born is in no group, and setpgid is for one that is.
Listed == {p \in Pids : life[p] \in {"runs", "none"}}

Unborn == {p \in Pids : life[p] = "none"}

GroupInv ==
    /\ life \in [Pids -> {"none", "runs", "exited", "released"}]
    /\ g_children \in [Pids -> SUBSET Pids]
    /\ call \in [Pids -> G!Calls]
    /\ \A c \in Pids : call[c] # G!NoCall => call[c].pid \in Pids \ Unborn
    /\ Holds(G!Objects, Listed, Unborn, {})

\* An action that makes the objects k.
LEMMA ObjectsBecome ==
  ASSUME NEW k \in Tables, G!Becomes(k)
  PROVE  G!Objects' = k
BY DEF G!Becomes, G!Objects, Tables

\* The objects, and the session and the group of a process.
LEMMA ObjectsFields ==
  /\ G!Objects.group = group /\ G!Objects.all_group = all_group /\ G!Objects.sess = sess
  /\ G!Objects.all_sess = all_sess /\ G!Objects.pgrp = pgrp /\ G!Objects.crash = crash
BY DEF G!Objects

\* The first process has a group and a session of its own.
LEMMA GroupInit == G!Init => GroupInv
<1> SUFFICES ASSUME G!Init PROVE GroupInv
  OBVIOUS
<1>1. InitPid \in Pids /\ 1 \in G!Ids /\ Nobody \notin Pids /\ Nobody \notin G!Ids
  BY GroupAssumption, NobodyIsOther DEF G!Ids
<1>2. /\ group \in [G!Ids -> G!Groups] /\ group[1].pgid = InitPid
      /\ \A g \in G!Ids : group[g].processes = IF g = 1 THEN {InitPid} ELSE {}
  BY ZenonT(40), <1>1 DEF G!Init, G!Groups, G!NoGroup
<1>3. /\ all_group \in [Pids -> Numbers] /\ pgrp \in [Pids -> Numbers]
      /\ all_sess \in SUBSET Pids /\ crash \in {Nobody, "panic", "deadlock"}
  BY ZenonT(40), <1>1 DEF G!Init, Numbers
<1>4. /\ sess \in [Pids -> [process_groups : [Pids -> Numbers], leader : Names]]
      /\ sess[InitPid].process_groups[InitPid] = 1
  BY ZenonT(40), <1>1 DEF G!Init, G!NoSession, G!NoMap, Numbers, Names
<1>5. G!Objects \in Tables
  BY <1>2, <1>3, <1>4 DEF G!Objects, Tables
<1>6. Exact(G!Objects, Listed)
  <2>1. \A p \in Pids, g \in G!Ids : p \in group[g].processes <=> pgrp[p] = g
    BY <1>1, <1>2 DEF G!Init
  <2>. QED
    BY ZenonT(40), <2>1, ObjectsFields DEF Exact, Listed
<1>7. Registered(G!Objects)
  <2>1. \A i \in Pids : all_group[i] # Nobody =>
          group[all_group[i]].pgid = i /\ group[all_group[i]].processes # {}
    BY ZenonT(40), <1>1, <1>2 DEF G!Init
  <2>. QED
    BY ZenonT(40), <2>1, ObjectsFields DEF Registered
<1>8. InUse(G!Objects, {})
  <2>1. all_sess = {InitPid} /\ sess[InitPid].process_groups # G!NoMap
    BY <1>1, <1>4 DEF G!Init, G!NoMap
  <2>. QED
    BY <2>1, ObjectsFields DEF InUse, G!IsEmptySession
<1>9. \A q \in Unborn : G!Objects.pgrp[q] = Nobody
  <2>1. \A q \in Pids : life[q] = "none" => pgrp[q] = Nobody
    BY ZenonT(40), <1>1 DEF G!Init
  <2>. QED
    BY <2>1, ObjectsFields DEF Unborn
<1>10. Holds(G!Objects, Listed, Unborn, {})
  BY ZenonT(40), <1>5, <1>6, <1>7, <1>8, <1>9 DEF Holds, Sound
<1>11. /\ life \in [Pids -> {"none", "runs", "exited", "released"}]
       /\ g_children \in [Pids -> SUBSET Pids]
       /\ call \in [Pids -> G!Calls] /\ \A c \in Pids : call[c] = G!NoCall
  BY DEF G!Init, G!Calls, G!NoCall
<1>. QED
  BY <1>10, <1>11 DEF GroupInv

\* Every step of fork, setpgid, setsid, exit and wait keeps the invariant.
LEMMA GroupStep == GroupInv /\ [G!Next]_(G!vars) => GroupInv'
<1> SUFFICES ASSUME GroupInv, [G!Next]_(G!vars) PROVE GroupInv'
  OBVIOUS
<1> DEFINE k == G!Objects
<1>1. /\ life \in [Pids -> {"none", "runs", "exited", "released"}]
      /\ g_children \in [Pids -> SUBSET Pids]
      /\ call \in [Pids -> G!Calls]
      /\ \A c \in Pids : call[c] # G!NoCall => call[c].pid \in Pids \ Unborn
      /\ Holds(k, Listed, Unborn, {})
  BY ZenonT(40) DEF GroupInv
<1>2. /\ k \in Tables /\ Exact(k, Listed) /\ \A q \in Unborn : k.pgrp[q] = Nobody
      /\ Listed \in SUBSET Pids /\ Unborn \in SUBSET Pids
  BY <1>1 DEF Holds, Listed, Unborn
<1>3. /\ k.group = group /\ k.all_group = all_group /\ k.sess = sess
      /\ k.all_sess = all_sess /\ k.pgrp = pgrp /\ k.crash = crash
  BY ZenonT(40), ObjectsFields
<1>4. G!HasFreeId => G!FreeId \in G!Ids /\ k.group[G!FreeId].processes = {}
  <2>1. G!HasFreeId => G!FreeId \in G!Ids /\ group[G!FreeId] = G!NoGroup
    BY ZenonT(40) DEF G!HasFreeId, G!FreeId
  <2>. QED
    BY <1>3, <2>1 DEF G!NoGroup
<1> HIDE DEF k
<1>5. CASE UNCHANGED G!vars
  <2>1. UNCHANGED <<G!Objects, life, g_children, call>>
    BY ZenonT(40), <1>5 DEF G!vars, G!objects, G!Objects
  <2>. QED
    BY ZenonT(40), <1>1, <2>1 DEF GroupInv, Listed, Unborn, k
<1>6. ASSUME NEW c \in Pids, NEW p \in Pids, NEW i \in Pids, G!SetpgidCheck(c, p, i)
      PROVE  GroupInv'
  <2>1. UNCHANGED <<life, g_children>> /\ Listed' = Listed /\ Unborn' = Unborn
    BY ZenonT(40), <1>6 DEF G!SetpgidCheck, Listed, Unborn
  <2>2. \/ UNCHANGED call /\ G!Becomes(G!Crashed(k, "panic"))
        \/ /\ UNCHANGED G!Objects
           /\ call' = [call EXCEPT ![c] =
                [pid |-> p, pgid |-> i, group |-> all_group[i],
                 session |-> IF all_group[i] = Nobody THEN Nobody ELSE G!Session(G!Objects, p)]]
    <3>1. \/ UNCHANGED <<call, G!objects>> /\ crash' = "panic"
          \/ /\ UNCHANGED <<G!objects, crash>>
             /\ call' = [call EXCEPT ![c] =
                  [pid |-> p, pgid |-> i, group |-> all_group[i],
                   session |-> IF all_group[i] = Nobody THEN Nobody ELSE G!Session(G!Objects, p)]]
      BY <1>6 DEF G!SetpgidCheck
    <3>2. CASE UNCHANGED <<call, G!objects>> /\ crash' = "panic"
      BY ZenonT(40), <1>2, <1>3, <3>2 DEF G!Becomes, G!Crashed, G!objects, Tables
    <3>3. UNCHANGED <<G!objects, crash>> => UNCHANGED G!Objects
      BY ZenonT(40) DEF G!objects, G!Objects
    <3>. QED
      BY <3>1, <3>2, <3>3
  <2>3. CASE UNCHANGED call /\ G!Becomes(G!Crashed(k, "panic"))
    <3>1. Holds(G!Crashed(k, "panic"), Listed, Unborn, {})
      BY <1>2, CrashHolds
    <3>2. G!Objects' = G!Crashed(k, "panic")
      BY <2>3, <3>1, ObjectsBecome DEF Holds
    <3>. QED
      BY ZenonT(40), <1>1, <2>1, <2>3, <3>1, <3>2 DEF GroupInv
  <2>4. ASSUME UNCHANGED G!Objects,
               call' = [call EXCEPT ![c] =
                 [pid |-> p, pgid |-> i, group |-> all_group[i],
                  session |-> IF all_group[i] = Nobody THEN Nobody ELSE G!Session(G!Objects, p)]]
        PROVE  GroupInv'
    <3> DEFINE new == [pid |-> p, pgid |-> i, group |-> all_group[i],
                       session |-> IF all_group[i] = Nobody THEN Nobody
                                   ELSE G!Session(G!Objects, p)]
    <3>1. all_group[i] \in Numbers /\ G!Session(G!Objects, p) \in Names
      BY ZenonT(40), <1>2, <1>3, SessionOf DEF Tables, k
    <3>2. new \in G!Calls /\ new.pid = p
      BY ZenonT(40), <3>1 DEF G!Calls, Numbers, Names
    <3>3. p \notin Unborn
      BY <1>6 DEF G!SetpgidCheck, Unborn
    <3> HIDE DEF new
    <3>4. call' = [call EXCEPT ![c] = new]
      BY <2>4 DEF new
    <3>5. /\ call' \in [Pids -> G!Calls]
          /\ \A q \in Pids : call'[q] # G!NoCall => call'[q].pid \in Pids \ Unborn
      BY ZenonT(40), <1>1, <3>2, <3>3, <3>4
    <3>. QED
      BY ZenonT(40), <1>1, <2>1, <2>4, <3>5 DEF GroupInv, k
  <2>. QED
    BY <2>2, <2>3, <2>4
<1>7. ASSUME NEW c \in Pids, G!SetpgidJoin(c)
      PROVE  GroupInv'
  <2> DEFINE g == call[c].group
             p == call[c].pid
             heldg == {call[q].group : q \in Pids \ {c}}
             helds == {call[q].session : q \in Pids \ {c}}
             x == IF g = Nobody THEN G!join_new_group(k, p, G!FreeId)
                                ELSE G!join_specified_group(k, p, g)
             y == G!DropSession(x, call[c].session, helds)
             z == G!DropGroup(y, g, heldg, helds)
  <2>1. UNCHANGED <<life, g_children>> /\ Listed' = Listed /\ Unborn' = Unborn
    BY ZenonT(40), <1>7 DEF G!SetpgidJoin, Listed, Unborn
  <2>2. call' = [call EXCEPT ![c] = G!NoCall] /\ call[c] # G!NoCall /\ G!HasFreeId
    BY ZenonT(40), <1>7 DEF G!SetpgidJoin
  <2>3. G!Becomes(x) \/ G!Becomes(z)
    BY ZenonT(40), <1>7 DEF G!SetpgidJoin, k
  <2>4. g \in Numbers /\ call[c].session \in Names /\ p \in Pids /\ p \notin Unborn
    BY <1>1, <2>2 DEF G!Calls, Numbers, Names
  <2> HIDE DEF g, p, heldg, helds
  <2>5. Holds(x, Listed, Unborn, {})
    <3>1. CASE g = Nobody
      <4>1. x = G!join_new_group(k, p, G!FreeId)
        BY ZenonT(40), <3>1
      <4> HIDE DEF x
      <4>. QED
        BY ZenonT(40), <1>1, <1>2, <1>4, <2>2, <2>4, <4>1, NewHolds
    <3>2. CASE g # Nobody
      <4>1. x = G!join_specified_group(k, p, g) /\ g \in G!Ids
        BY <2>4, <3>2 DEF Numbers
      <4> HIDE DEF x
      <4>. QED
        BY <1>1, <1>2, <2>4, <4>1, SpecifiedHolds
    <3>. QED
      BY ZenonT(40), <3>1, <3>2
  <2> HIDE DEF x
  <2>6. Keeps(x, y)
    <3>1. x \in Tables
      BY <2>5 DEF Holds
    <3>. QED
      BY <2>4, <3>1, DropSessionKeeps
  <2> HIDE DEF y
  <2>7. Keeps(y, z)
    <3>1. y \in Tables
      BY <2>6 DEF Keeps
    <3>. QED
      BY ZenonT(40), <2>4, <3>1, DropGroupKeeps
  <2> HIDE DEF z
  <2>8. Holds(z, Listed, Unborn, {})
    BY <1>2, <2>5, <2>6, <2>7, KeepsHolds
  <2>9. G!Objects' = x \/ G!Objects' = z
    BY <2>3, <2>5, <2>8, ObjectsBecome DEF Holds
  <2>10. /\ call' \in [Pids -> G!Calls]
         /\ \A q \in Pids : call'[q] # G!NoCall => call'[q].pid \in Pids \ Unborn
    <3>1. G!NoCall \in G!Calls
      BY ZenonT(40) DEF G!NoCall, G!Calls
    <3>. QED
      BY ZenonT(40), <1>1, <2>2, <3>1
  <2>. QED
    BY <1>1, <2>1, <2>5, <2>8, <2>9, <2>10 DEF GroupInv
<1>8. ASSUME NEW p \in Pids, G!Setsid(p)
      PROVE  GroupInv'
  <2> DEFINE s == G!Session(k, p)
             x == G!LeaveGroup(k, p, s)
             n == G!FreeId
             y == G!DropSession(G!NewGroup(G!NewSession(G!Retire(x, s), p), p, p, n),
                                s, G!HeldSessions)
             z == G!Crashed(k, "panic")
  <2>1. UNCHANGED <<life, g_children, call>> /\ Listed' = Listed /\ Unborn' = Unborn
    BY ZenonT(40), <1>8 DEF G!Setsid, Listed, Unborn
  <2>2. G!HasFreeId /\ p \notin Unborn
    BY ZenonT(40), <1>8 DEF G!Setsid, Unborn
  <2>3. \/ G!Becomes(z)
        \/ s # Nobody /\ x.crash # Nobody /\ G!Becomes(x)
        \/ s # Nobody /\ G!Becomes(y)
    BY ZenonT(40), <1>8 DEF G!Setsid, k
  <2>4. s # Nobody => s \in Pids /\ k.pgrp[p] \in G!Ids
    BY ZenonT(40), <1>2, SessionOf
  <2> HIDE DEF s
  <2>5. s # Nobody => /\ Holds(x, Listed, Unborn, {s}) /\ x.pgrp[p] = Nobody
                      /\ \A h \in G!Ids : x.group[h].processes \subseteq k.group[h].processes
    BY ZenonT(40), <1>1, <1>2, <2>4, LeaveGroupHolds
  <2> HIDE DEF x, n
  <2>6. s # Nobody => Holds(y, Listed, Unborn, {})
    <3>1. n \in G!Ids /\ (s # Nobody => x.group[n].processes = {})
      BY ZenonT(40), <1>4, <2>2, <2>5 DEF n
    <3>. QED
      BY ZenonT(40), <1>2, <2>2, <2>4, <2>5, <3>1, SetsidHolds
  <2>7. Holds(z, Listed, Unborn, {})
    BY ZenonT(40), <1>2, CrashHolds
  <2>8. s # Nobody /\ x.crash # Nobody => Holds(x, Listed, Unborn, {})
    BY ZenonT(40), <2>5 DEF Holds, Sound
  <2> HIDE DEF y, z
  <2>9. Holds(G!Objects', Listed, Unborn, {})
    BY ZenonT(40), <2>3, <2>6, <2>7, <2>8, ObjectsBecome DEF Holds
  <2>. QED
    BY <1>1, <2>1, <2>9 DEF GroupInv
<1>9. ASSUME NEW p \in Pids, NEW c \in Pids, G!Fork(p, c)
      PROVE  GroupInv'
  <2> DEFINE x == G!Crashed(k, "panic")
             y == G!Join(k, c, pgrp[p])
  <2>1. /\ life' = [life EXCEPT ![c] = "runs"] /\ life[c] = "none" /\ UNCHANGED call
        /\ g_children' = [g_children EXCEPT ![p] = @ \cup {c}]
        /\ G!Becomes(x) \/ (pgrp[p] # Nobody /\ G!Becomes(y))
    BY ZenonT(40), <1>9 DEF G!Fork, k
  <2>2. Listed' = Listed /\ Unborn' = Unborn \ {c} /\ c \in Unborn
    BY ZenonT(40), <1>1, <2>1 DEF Listed, Unborn
  <2>3. Holds(x, Listed, Unborn, {})
    BY ZenonT(40), <1>2, CrashHolds
  <2>4. pgrp[p] # Nobody => Holds(y, Listed, Unborn \ {c}, {})
    <3>1. pgrp[p] # Nobody => pgrp[p] \in G!Ids
      BY ZenonT(40), <1>2, <1>3 DEF Tables, Numbers
    <3>2. Exact(k, Listed \ {c}) /\ (c \in Listed => Absent(k, c))
      BY <1>2, <2>2, NobodyIsOther DEF Exact, Absent
    <3>3. Holds(k, Listed \ {c}, Unborn \ {c}, {})
      BY ZenonT(40), <1>1, <1>2, <3>2 DEF Holds
    <3>. QED
      BY ZenonT(40), <1>2, <3>1, <3>2, <3>3, JoinHolds
  <2> HIDE DEF x, y
  <2>5. Holds(G!Objects', Listed, Unborn \ {c}, {})
    BY ZenonT(40), <2>1, <2>3, <2>4, ObjectsBecome DEF Holds
  <2>6. /\ life' \in [Pids -> {"none", "runs", "exited", "released"}]
        /\ g_children' \in [Pids -> SUBSET Pids]
    BY ZenonT(40), <1>1, <2>1
  <2>. QED
    BY ZenonT(40), <1>1, <2>1, <2>2, <2>5, <2>6 DEF GroupInv
<1>10. ASSUME NEW p \in Pids, G!Exit(p)
       PROVE  GroupInv'
  <2> DEFINE x == G!clear_pg_and_session_reference(k, p)
  <2>1. /\ life' = [life EXCEPT ![p] = "exited"] /\ life[p] = "runs" /\ UNCHANGED call
        /\ g_children' = [g_children EXCEPT ![InitPid] = @ \cup g_children[p]]
        /\ G!Becomes(x)
    BY ZenonT(40), <1>10 DEF G!Exit, k
  <2>2. Listed' = Listed \ {p} /\ Unborn' = Unborn
    BY ZenonT(40), <1>1, <2>1 DEF Listed, Unborn
  <2>3. Holds(x, Listed \ {p}, Unborn, {})
    BY ZenonT(40), <1>1, <1>2, ClearHolds
  <2> HIDE DEF x
  <2>4. G!Objects' = x
    BY <2>1, <2>3, ObjectsBecome DEF Holds
  <2>5. /\ life' \in [Pids -> {"none", "runs", "exited", "released"}]
        /\ g_children' \in [Pids -> SUBSET Pids]
    BY ZenonT(40), <1>1, <2>1
  <2>. QED
    BY ZenonT(40), <1>1, <2>1, <2>2, <2>3, <2>4, <2>5 DEF GroupInv
<1>11. ASSUME NEW p \in Pids, NEW b \in BOOLEAN, G!Reap(p, b)
       PROVE  GroupInv'
  <2> DEFINE x == G!clear_pg_and_session_reference(k, p)
  <2>1. /\ life' = [life EXCEPT ![p] = "released"] /\ life[p] = "exited"
        /\ UNCHANGED <<g_children, call>> /\ (G!Becomes(x) \/ G!Becomes(k))
    BY <1>11 DEF G!Reap, k
  <2>2. Listed' = Listed /\ Unborn' = Unborn /\ p \notin Listed
    BY <1>1, <2>1 DEF Listed, Unborn
  <2>3. Holds(x, Listed \ {p}, Unborn, {}) /\ Listed \ {p} = Listed
    BY ZenonT(40), <1>1, <1>2, <2>2, ClearHolds
  <2> HIDE DEF x
  <2>4. G!Objects' = x \/ G!Objects' = k
    BY <1>2, <2>1, <2>3, ObjectsBecome DEF Holds
  <2>5. life' \in [Pids -> {"none", "runs", "exited", "released"}]
    BY <1>1, <2>1
  <2>. QED
    BY ZenonT(40), <1>1, <2>1, <2>2, <2>3, <2>4, <2>5 DEF GroupInv
<1>. QED
  BY <1>5, <1>6, <1>7, <1>8, <1>9, <1>10, <1>11 DEF G!Next

\* The invariant holds in every state.
LEMMA GroupInvariant == G!Spec => []GroupInv
BY GroupInit, GroupStep, PTL DEF G!Spec

\* The variables of the groups and sessions keep their types.
THEOREM GroupTypeCorrect == G!Spec => []G!TypeOK
<1>1. GroupInv => G!TypeOK
  BY ObjectsFields DEF GroupInv, Holds, Tables, G!TypeOK, Numbers, Names
<1>. QED
  BY <1>1, GroupInvariant, PTL

\* Whatever fork, setpgid, setsid, exit and wait do, and however setpgid of several
\* callers interleaves: of the processes that have not exited, a group lists exactly
\* those that point to it.
THEOREM MembersAreExact == G!Spec => []MembershipExact
<1>1. GroupInv => MembershipExact
  BY ZenonT(40), ObjectsFields DEF GroupInv, Holds, Exact, Listed, MembershipExact, G!MembershipExact
<1>. QED
  BY <1>1, GroupInvariant, PTL

\* As long as the kernel has not stopped, ALL_PROCESS_GROUP holds no empty group and
\* ALL_SESSION no empty session, so neither keeps what nobody uses.
THEOREM RegistriesAreInUse == G!Spec => []RegistriesInUse
<1>1. GroupInv => RegistriesInUse
  BY ObjectsFields DEF GroupInv, Holds, Sound, Registered, InUse, RegistriesInUse,
     G!RegistriesInUse
<1>. QED
  BY <1>1, GroupInvariant, PTL

------------------------------------------------------------------------------
(* The end of a process and wait4.                                          *)

ExitStates == {"none", "Runnable", "Blocked", "Exited", "released"}

ExitPCs == {"user", "nap", "find", "check", "sleep", "asleep", "scan", "doze",
            "mark_dead", "notify", "end"}

\* The queue of a process is dead once it has been woken; a process that waits for a pid
\* has one; and one that sleeps is in a queue that is yet to be woken.
ExitInv ==
    /\ state \in [Pids -> ExitStates] /\ w_pc \in [Pids -> ExitPCs] /\ dead \in [Pids -> BOOLEAN]
    /\ queue \in [Pids -> Seq(Pids)] /\ target \in [Pids -> Pids \cup {Nobody}]
    /\ \A p \in Pids : dead[p] <=> w_pc[p] \in {"notify", "end"}
    /\ \A p \in Pids : w_pc[p] \in {"find", "check", "sleep", "asleep"} => target[p] \in Pids
    /\ \A p \in Pids : w_pc[p] = "asleep" /\ state[p] = "Blocked" =>
                         /\ Has(queue[target[p]], p)
                         /\ w_pc[target[p]] \notin {"notify", "end"}

\* Has of the instance is the one of the lemmas.
LEMMA ExitHas == \A s, x : W!Has(s, x) <=> Has(s, x)
BY DEF W!Has, Has

\* A wake-up blocks nobody.
LEMMA WakesOnly ==
  ASSUME ExitInv, NEW ps, W!Wakes(ps)
  PROVE  /\ state' \in [Pids -> ExitStates]
         /\ \A p \in Pids : state'[p] = "Blocked" => state[p] = "Blocked" /\ p \notin ps
<1>1. state \in [Pids -> ExitStates]
  BY ZenonT(40) DEF ExitInv
<1>. QED
  BY <1>1 DEF W!Wakes, ExitStates

\* A state that is set.
LEMMA StateSet ==
  ASSUME ExitInv, NEW p \in Pids, NEW s \in ExitStates, state' = [state EXCEPT ![p] = s]
  PROVE  /\ state' \in [Pids -> ExitStates] /\ state'[p] = s
         /\ \A q \in Pids : q # p => state'[q] = state[q]
<1>1. state \in [Pids -> ExitStates]
  BY ZenonT(40) DEF ExitInv
<1>. QED
  BY <1>1

\* A step of p that leaves the queues alone, and does not put p to sleep in one.
LEMMA ExitMove ==
  ASSUME ExitInv, NEW p \in Pids, NEW to \in ExitPCs, w_pc' = [w_pc EXCEPT ![p] = to],
         to # "asleep", to \in {"notify", "end"} <=> w_pc[p] \in {"notify", "end"},
         UNCHANGED <<dead, queue>>, state' \in [Pids -> ExitStates],
         \A q \in Pids : q # p /\ state'[q] = "Blocked" => state[q] = "Blocked",
         target' \in [Pids -> Pids \cup {Nobody}], \A q \in Pids : q # p => target'[q] = target[q],
         to \in {"find", "check", "sleep"} => target'[p] \in Pids
  PROVE  ExitInv'
<1>1. /\ w_pc' \in [Pids -> ExitPCs] /\ w_pc'[p] = to
      /\ \A q \in Pids : q # p => w_pc'[q] = w_pc[q]
  BY DEF ExitInv
<1>2. /\ dead' \in [Pids -> BOOLEAN] /\ queue' \in [Pids -> Seq(Pids)]
      /\ \A q \in Pids : dead'[q] <=> w_pc'[q] \in {"notify", "end"}
  BY ZenonT(30), <1>1 DEF ExitInv
<1>3. \A q \in Pids : w_pc'[q] \in {"find", "check", "sleep", "asleep"} => target'[q] \in Pids
  BY <1>1 DEF ExitInv
<1>4. ASSUME NEW q \in Pids, w_pc'[q] = "asleep", state'[q] = "Blocked"
      PROVE  Has(queue'[target'[q]], q) /\ w_pc'[target'[q]] \notin {"notify", "end"}
  <2>1. q # p /\ w_pc[q] = "asleep" /\ state[q] = "Blocked" /\ target'[q] = target[q]
    BY <1>1, <1>4
  <2>2. target[q] \in Pids /\ Has(queue[target[q]], q) /\ w_pc[target[q]] \notin {"notify", "end"}
    BY ZenonT(40), <2>1 DEF ExitInv
  <2>. QED
    BY <1>1, <2>1, <2>2
<1>. QED
  BY ZenonT(40), <1>1, <1>2, <1>3, <1>4 DEF ExitInv

\* A step that moves nobody.
LEMMA ExitStill ==
  ASSUME ExitInv, UNCHANGED <<w_pc, dead, queue, target>>, state' \in [Pids -> ExitStates],
         \A q \in Pids : state'[q] = "Blocked" => state[q] = "Blocked"
  PROVE  ExitInv'
BY ZenonT(40) DEF ExitInv

\* wait4 returns.
LEMMA ExitReturn ==
  ASSUME ExitInv, NEW p \in Pids, W!Return(p), w_pc[p] \notin {"notify", "end"},
         UNCHANGED <<dead, queue>>, state' \in [Pids -> ExitStates],
         \A q \in Pids : q # p /\ state'[q] = "Blocked" => state[q] = "Blocked"
  PROVE  ExitInv'
<1>1. w_pc' = [w_pc EXCEPT ![p] = "user"] /\ target' = [target EXCEPT ![p] = Nobody]
  BY ZenonT(40) DEF W!Return
<1>2. target \in [Pids -> Pids \cup {Nobody}]
  BY ZenonT(40) DEF ExitInv
<1>3. target' \in [Pids -> Pids \cup {Nobody}] /\ \A q \in Pids : q # p => target'[q] = target[q]
  BY <1>1, <1>2
<1>. QED
  BY ZenonT(40), <1>1, <1>3, ExitMove DEF ExitPCs

\* mark_dead and the wake-up: those who wait in the queue are woken when it dies.
LEMMA ExitWakes == ASSUME ExitInv, NEW p \in Pids, W!ExitWake(p) PROVE ExitInv'
<1>1. /\ w_pc[p] = "mark_dead" /\ w_pc' = [w_pc EXCEPT ![p] = "notify"]
      /\ dead' = [dead EXCEPT ![p] = TRUE] /\ queue' = [queue EXCEPT ![p] = <<>>]
      /\ target' = target /\ W!Wakes({q \in Pids : W!Has(queue[p], q)})
  BY DEF W!ExitWake, W!wait, W!Goto
<1>2. /\ state' \in [Pids -> ExitStates]
      /\ \A q \in Pids : state'[q] = "Blocked" => state[q] = "Blocked" /\ ~Has(queue[p], q)
  BY <1>1, WakesOnly, ExitHas
<1>3. /\ queue' \in [Pids -> Seq(Pids)] /\ w_pc' \in [Pids -> ExitPCs] /\ dead' \in [Pids -> BOOLEAN]
      /\ w_pc'[p] = "notify" /\ dead'[p]
      /\ \A q \in Pids : q # p => w_pc'[q] = w_pc[q] /\ dead'[q] = dead[q] /\ queue'[q] = queue[q]
  <2>1. <<>> \in Seq(Pids) /\ "notify" \in ExitPCs
    BY DEF ExitPCs
  <2>. QED
    BY ZenonT(40), <1>1, <2>1 DEF ExitInv
<1>4. ASSUME NEW q \in Pids, w_pc'[q] = "asleep", state'[q] = "Blocked"
      PROVE  Has(queue'[target'[q]], q) /\ w_pc'[target'[q]] \notin {"notify", "end"}
  <2>1. w_pc[q] = "asleep" /\ state[q] = "Blocked" /\ ~Has(queue[p], q)
    BY <1>1, <1>2, <1>3, <1>4
  <2>2. target[q] \in Pids /\ Has(queue[target[q]], q) /\ w_pc[target[q]] \notin {"notify", "end"}
    BY ZenonT(40), <2>1 DEF ExitInv
  <2>. QED
    BY <1>1, <1>3, <2>1, <2>2
<1>5. \A q \in Pids : dead'[q] <=> w_pc'[q] \in {"notify", "end"}
  BY <1>1, <1>3 DEF ExitInv
<1>6. \A q \in Pids : w_pc'[q] \in {"find", "check", "sleep", "asleep"} => target'[q] \in Pids
  BY <1>1, <1>3 DEF ExitInv
<1>7. target' \in [Pids -> Pids \cup {Nobody}]
  BY ZenonT(40), <1>1 DEF ExitInv
<1>. QED
  BY ZenonT(40), <1>2, <1>3, <1>4, <1>5, <1>6, <1>7 DEF ExitInv

\* The other steps of an exit.
LEMMA ExitExits ==
  ASSUME ExitInv, NEW p \in Pids, W!ExitState(p) \/ W!ExitNotify(p)
  PROVE  ExitInv'
<1>0. state \in [Pids -> ExitStates] /\ target \in [Pids -> Pids \cup {Nobody}]
  BY ZenonT(40) DEF ExitInv
<1>1. CASE W!ExitState(p)
  <2>1. /\ w_pc[p] = "user" /\ w_pc' = [w_pc EXCEPT ![p] = "mark_dead"]
        /\ state' = [state EXCEPT ![p] = "Exited"] /\ UNCHANGED <<dead, queue, target>>
    BY <1>1 DEF W!ExitState, W!wait, W!Goto
  <2>2. "Exited" \in ExitStates /\ "mark_dead" \in ExitPCs
    BY DEF ExitStates, ExitPCs
  <2>. QED
    BY ZenonT(40), <1>0, <2>1, <2>2, StateSet, ExitMove
<1>2. CASE W!ExitNotify(p)
  <2>1. /\ w_pc[p] = "notify" /\ w_pc' = [w_pc EXCEPT ![p] = "end"]
        /\ UNCHANGED <<dead, queue, target>> /\ "end" \in ExitPCs
        /\ state' = state \/ W!Wakes({parent[p]})
    BY ZenonT(40), <1>2 DEF W!ExitNotify, W!wait, W!Goto, ExitPCs
  <2>2. /\ state' \in [Pids -> ExitStates]
        /\ \A q \in Pids : state'[q] = "Blocked" => state[q] = "Blocked"
    BY <1>0, <2>1, WakesOnly
  <2>. QED
    BY ZenonT(40), <1>0, <2>1, <2>2, ExitMove
<1>. QED
  BY <1>1, <1>2

\* WaitQueue::sleep: a process goes to sleep in a queue that is not dead.
LEMMA ExitSleep == ASSUME ExitInv, NEW p \in Pids, W!Sleep(p) PROVE ExitInv'
<1>1. w_pc[p] = "sleep" /\ UNCHANGED <<dead, target>>
  BY DEF W!Sleep, W!wait
<1>2. PICK c \in Pids : c = target[p]
  BY ZenonT(40), <1>1 DEF ExitInv
<1>3. CASE dead[c]
  <2>1. w_pc' = [w_pc EXCEPT ![p] = "find"] /\ UNCHANGED <<state, queue>> /\ "find" \in ExitPCs
    BY <1>2, <1>3 DEF W!Sleep, ExitPCs
  <2>2. state \in [Pids -> ExitStates] /\ target \in [Pids -> Pids \cup {Nobody}]
    BY ZenonT(40) DEF ExitInv
  <2>. QED
    BY ZenonT(40), <1>1, <1>2, <2>1, <2>2, ExitMove
<1>4. CASE ~dead[c]
  <2>1. /\ w_pc' = [w_pc EXCEPT ![p] = "asleep"] /\ state' = [state EXCEPT ![p] = "Blocked"]
        /\ queue' = [queue EXCEPT ![c] = Append(queue[c], p)]
    BY <1>2, <1>4 DEF W!Sleep
  <2>2. queue \in [Pids -> Seq(Pids)] /\ queue[c] \in Seq(Pids)
    BY DEF ExitInv
  <2>3. /\ Append(queue[c], p) \in Seq(Pids)
        /\ \A x : Has(Append(queue[c], p), x) <=> Has(queue[c], x) \/ x = p
    BY ZenonT(40), <2>2, AppendHas
  <2>4. /\ queue' \in [Pids -> Seq(Pids)] /\ queue'[c] = Append(queue[c], p)
        /\ \A q \in Pids : q # c => queue'[q] = queue[q]
    BY ZenonT(40), <2>1, <2>2, <2>3
  <2>5. /\ w_pc' \in [Pids -> ExitPCs] /\ state' \in [Pids -> ExitStates] /\ w_pc'[p] = "asleep"
        /\ \A q \in Pids : q # p => w_pc'[q] = w_pc[q] /\ state'[q] = state[q]
    <3>1. "asleep" \in ExitPCs /\ "Blocked" \in ExitStates
      BY DEF ExitPCs, ExitStates
    <3>. QED
      BY ZenonT(40), <2>1, <3>1 DEF ExitInv
  <2>6. w_pc[c] \notin {"notify", "end"}
    BY <1>1, <1>4 DEF ExitInv
  <2>7. ASSUME NEW q \in Pids, w_pc'[q] = "asleep", state'[q] = "Blocked"
        PROVE  Has(queue'[target'[q]], q) /\ w_pc'[target'[q]] \notin {"notify", "end"}
    <3>1. CASE q = p
      BY ZenonT(40), <1>1, <1>2, <2>3, <2>4, <2>5, <2>6, <3>1
    <3>2. CASE q # p
      <4>1. target[q] \in Pids /\ Has(queue[target[q]], q) /\ w_pc[target[q]] \notin {"notify", "end"}
        BY ZenonT(40), <2>5, <2>7, <3>2 DEF ExitInv
      <4>. QED
        BY ZenonT(40), <1>1, <2>3, <2>4, <2>5, <4>1
    <3>. QED
      BY <3>1, <3>2
  <2>8. \A q \in Pids : dead'[q] <=> w_pc'[q] \in {"notify", "end"}
    BY ZenonT(40), <1>1, <2>5 DEF ExitInv
  <2>9. \A q \in Pids : w_pc'[q] \in {"find", "check", "sleep", "asleep"} => target'[q] \in Pids
    BY <1>1, <2>5 DEF ExitInv
  <2>10. dead' \in [Pids -> BOOLEAN] /\ target' \in [Pids -> Pids \cup {Nobody}]
    BY ZenonT(40), <1>1 DEF ExitInv
  <2>. QED
    BY ZenonT(40), <2>4, <2>5, <2>7, <2>8, <2>9, <2>10 DEF ExitInv
<1>. QED
  BY ZenonT(40), <1>3, <1>4

\* do_waitpid.
LEMMA ExitCheck == ASSUME ExitInv, NEW p \in Pids, W!Check(p) PROVE ExitInv'
<1>0. /\ state \in [Pids -> ExitStates] /\ target \in [Pids -> Pids \cup {Nobody}]
      /\ {"sleep"} \subseteq ExitPCs /\ {"released"} \subseteq ExitStates
  BY ZenonT(40) DEF ExitInv, ExitPCs, ExitStates
<1>1. w_pc[p] = "check" /\ UNCHANGED <<dead, queue>>
  BY DEF W!Check
<1>2. PICK c \in Pids : c = target[p]
  BY ZenonT(40), <1>1 DEF ExitInv
<1>3. CASE w_pc' = [w_pc EXCEPT ![p] = "sleep"] /\ UNCHANGED <<state, target>>
  BY ZenonT(40), <1>0, <1>1, <1>2, <1>3, ExitMove
<1>4. CASE W!Return(p) /\ state' = state
  BY <1>0, <1>1, <1>4, ExitReturn
<1>5. CASE W!Return(p) /\ state' = [state EXCEPT ![c] = "released"]
  BY <1>0, <1>1, <1>5, StateSet, ExitReturn
<1>. QED
  BY <1>2, <1>3, <1>4, <1>5 DEF W!Check, W!wait

\* One round of wait4 for any child.
LEMMA ExitScan == ASSUME ExitInv, NEW p \in Pids, W!Scan(p) PROVE ExitInv'
<1>0. /\ state \in [Pids -> ExitStates] /\ target \in [Pids -> Pids \cup {Nobody}]
      /\ {"doze"} \subseteq ExitPCs /\ {"released", "Blocked"} \subseteq ExitStates
  BY ZenonT(40) DEF ExitInv, ExitPCs, ExitStates
<1>1. w_pc[p] = "scan" /\ UNCHANGED <<dead, queue>>
  BY ZenonT(40) DEF W!Scan
<1>2. \/ W!Return(p) /\ state' = state
      \/ W!Return(p) /\ \E c : state' = [state EXCEPT ![c] = "released"]
      \/ /\ w_pc' = [w_pc EXCEPT ![p] = "doze"] /\ state' = [state EXCEPT ![p] = "Blocked"]
         /\ target' = target
  BY ZenonT(40) DEF W!Scan, W!wait
<1>3. CASE W!Return(p) /\ state' = state
  BY <1>0, <1>1, <1>3, ExitReturn
<1>4. ASSUME NEW c, W!Return(p), state' = [state EXCEPT ![c] = "released"] PROVE ExitInv'
  <2>1. /\ state' \in [Pids -> ExitStates]
        /\ \A q \in Pids : state'[q] = "Blocked" => state[q] = "Blocked"
    BY ZenonT(40), <1>0, <1>4
  <2>. QED
    BY <1>1, <1>4, <2>1, ExitReturn
<1>5. CASE /\ w_pc' = [w_pc EXCEPT ![p] = "doze"] /\ state' = [state EXCEPT ![p] = "Blocked"]
           /\ target' = target
  BY ZenonT(40), <1>0, <1>1, <1>5, StateSet, ExitMove
<1>. QED
  BY ZenonT(40), <1>2, <1>3, <1>4, <1>5

\* The other steps of wait4.
LEMMA ExitWaits ==
  ASSUME ExitInv, NEW p \in Pids, W!Find(p) \/ W!Awake(p) \/ W!Handle(p) \/ W!Doze(p)
  PROVE  ExitInv'
<1>0. /\ state \in [Pids -> ExitStates] /\ target \in [Pids -> Pids \cup {Nobody}]
      /\ "find" \in ExitPCs /\ "check" \in ExitPCs /\ "scan" \in ExitPCs
  BY ZenonT(40) DEF ExitInv, ExitPCs
<1>1. CASE W!Find(p)
  <2>1. /\ w_pc[p] = "find" /\ w_pc' = [w_pc EXCEPT ![p] = "check"]
        /\ UNCHANGED <<state, dead, queue, target>>
    BY <1>1 DEF W!Find, W!wait, W!Goto
  <2>2. target[p] \in Pids
    BY ZenonT(40), <2>1 DEF ExitInv
  <2>. QED
    BY ZenonT(40), <1>0, <2>1, <2>2, ExitMove
<1>2. CASE W!Awake(p)
  <2>1. /\ w_pc[p] = "asleep" /\ UNCHANGED <<state, dead, queue>>
        /\ W!Return(p) \/ (w_pc' = [w_pc EXCEPT ![p] = "find"] /\ target' = target)
    BY <1>2 DEF W!Awake, W!wait
  <2>2. target[p] \in Pids
    BY ZenonT(40), <2>1 DEF ExitInv
  <2>3. CASE W!Return(p)
    BY <1>0, <2>1, <2>3, ExitReturn
  <2>4. CASE w_pc' = [w_pc EXCEPT ![p] = "find"] /\ target' = target
    BY ZenonT(40), <1>0, <2>1, <2>2, <2>4, ExitMove
  <2>. QED
    BY ZenonT(40), <2>1, <2>3, <2>4
<1>3. CASE W!Handle(p)
  <2>1. UNCHANGED <<w_pc, state, dead, queue, target>>
    BY <1>3 DEF W!Handle, W!wait
  <2>. QED
    BY ZenonT(40), <1>0, <2>1, ExitStill
<1>4. CASE W!Doze(p)
  <2>1. /\ w_pc[p] = "doze" /\ w_pc' = [w_pc EXCEPT ![p] = "scan"] /\ W!Wakes({p})
        /\ UNCHANGED <<dead, queue, target>>
    BY <1>4 DEF W!Doze, W!wait, W!Goto
  <2>. QED
    BY ZenonT(40), <1>0, <2>1, WakesOnly, ExitMove
<1>. QED
  BY ZenonT(40), <1>1, <1>2, <1>3, <1>4

\* What a process does in user mode.
LEMMA ExitUser ==
  ASSUME ExitInv, NEW p \in Pids,
         \/ \E c \in Pids : W!Fork(p, c)
         \/ \E c \in Pids \cup {Nobody}, opt \in BOOLEAN : W!Wait4(p, c, opt)
         \/ W!Nap(p)
  PROVE  ExitInv'
<1>0. /\ state \in [Pids -> ExitStates] /\ target \in [Pids -> Pids \cup {Nobody}]
      /\ "find" \in ExitPCs /\ "scan" \in ExitPCs /\ "nap" \in ExitPCs
      /\ "Runnable" \in ExitStates /\ "Blocked" \in ExitStates
  BY ZenonT(40) DEF ExitInv, ExitPCs, ExitStates
<1>1. ASSUME NEW c \in Pids, W!Fork(p, c) PROVE ExitInv'
  <2>1. state' = [state EXCEPT ![c] = "Runnable"] /\ UNCHANGED <<w_pc, dead, queue, target>>
    BY ZenonT(40), <1>1 DEF W!Fork, W!wait
  <2>2. /\ state' \in [Pids -> ExitStates] /\ state'[c] = "Runnable"
        /\ \A q \in Pids : q # c => state'[q] = state[q]
    BY ZenonT(40), <1>0, <2>1, StateSet
  <2>. QED
    BY <2>1, <2>2, ExitStill
<1>2. ASSUME NEW c \in Pids \cup {Nobody}, NEW opt \in BOOLEAN, W!Wait4(p, c, opt) PROVE ExitInv'
  <2>1. /\ w_pc[p] = "user" /\ w_pc' = [w_pc EXCEPT ![p] = IF c = Nobody THEN "scan" ELSE "find"]
        /\ target' = [target EXCEPT ![p] = c] /\ UNCHANGED <<state, dead, queue>>
    BY ZenonT(40), <1>2 DEF W!Wait4, W!Goto
  <2>2. /\ target' \in [Pids -> Pids \cup {Nobody}] /\ target'[p] = c
        /\ \A q \in Pids : q # p => target'[q] = target[q]
    BY ZenonT(40), <1>0, <2>1
  <2>3. CASE c = Nobody
    <3>1. w_pc' = [w_pc EXCEPT ![p] = "scan"]
      BY <2>1, <2>3
    <3>. QED
      BY ZenonT(40), <1>0, <2>1, <2>2, <3>1, ExitMove
  <2>4. CASE c # Nobody
    <3>1. w_pc' = [w_pc EXCEPT ![p] = "find"] /\ target'[p] \in Pids
      BY <2>1, <2>2, <2>4
    <3>2. w_pc[p] = "user" /\ UNCHANGED <<dead, queue>> /\ state' = state
      BY ZenonT(40), <2>1
    <3>. QED
      BY ZenonT(40), <1>0, <2>2, <3>1, <3>2, ExitMove
  <2>. QED
    BY ZenonT(40), <2>3, <2>4
<1>3. CASE W!Nap(p)
  <2>1. /\ w_pc[p] = "user" /\ w_pc' = [w_pc EXCEPT ![p] = "nap"]
        /\ state' = [state EXCEPT ![p] = "Blocked"] /\ UNCHANGED <<dead, queue, target>>
    BY ZenonT(40), <1>3 DEF W!Nap, W!wait, W!Goto
  <2>. QED
    BY ZenonT(40), <1>0, <2>1, StateSet, ExitMove
<1>. QED
  BY ZenonT(40), <1>1, <1>2, <1>3

\* What others do to it.
LEMMA ExitOthers == ASSUME ExitInv, NEW p \in Pids, W!NapEnds(p) \/ W!Signal(p) PROVE ExitInv'
<1>0. target \in [Pids -> Pids \cup {Nobody}] /\ "user" \in ExitPCs
  BY ZenonT(40) DEF ExitInv, ExitPCs
<1>1. CASE W!NapEnds(p)
  <2>1. /\ w_pc[p] = "nap" /\ w_pc' = [w_pc EXCEPT ![p] = "user"] /\ W!Wakes({p})
        /\ UNCHANGED <<dead, queue, target>>
    BY ZenonT(40), <1>1 DEF W!NapEnds, W!wait, W!Goto
  <2>. QED
    BY ZenonT(40), <1>0, <2>1, WakesOnly, ExitMove
<1>2. CASE W!Signal(p)
  <2>1. W!Wakes({p}) /\ UNCHANGED <<w_pc, dead, queue, target>>
    BY ZenonT(40), <1>2 DEF W!Signal, W!wait
  <2>. QED
    BY ZenonT(40), <2>1, WakesOnly, ExitStill
<1>. QED
  BY ZenonT(40), <1>1, <1>2

\* For any processes: nobody sleeps in the queue of a process that has woken its queue,
\* whenever the exit falls between the look at the child's state and the sleep.
THEOREM ExitsAreSeen == W!Spec => []NoSleepThroughExit
<1>1. W!Init => ExitInv
  <2>. SUFFICES ASSUME W!Init PROVE ExitInv
    OBVIOUS
  <2>1. /\ state \in [Pids -> ExitStates] /\ w_pc \in [Pids -> ExitPCs] /\ dead \in [Pids -> BOOLEAN]
        /\ queue \in [Pids -> Seq(Pids)] /\ target \in [Pids -> Pids \cup {Nobody}]
    BY DEF W!Init, ExitStates, ExitPCs
  <2>2. \A p \in Pids : w_pc[p] = "user" /\ dead[p] = FALSE
    BY DEF W!Init
  <2>. QED
    BY <2>1, <2>2 DEF ExitInv
<1>2. ExitInv /\ [W!Next]_W!vars => ExitInv'
  <2>. SUFFICES ASSUME ExitInv, [W!Next]_W!vars PROVE ExitInv'
    OBVIOUS
  <2>1. CASE UNCHANGED W!vars
    BY ZenonT(40), <2>1 DEF W!vars, W!wait, ExitInv
  <2>2. ASSUME NEW p \in Pids, W!Kernel(p) PROVE ExitInv'
    BY ZenonT(40), <2>2, ExitWakes, ExitExits, ExitCheck, ExitSleep, ExitScan, ExitWaits, ExitOthers
       DEF W!Kernel
  <2>3. ASSUME NEW p \in Pids, W!User(p) PROVE ExitInv'
    BY ZenonT(40), <2>3, ExitUser, ExitExits DEF W!User
  <2>. QED
    BY ZenonT(40), <2>1, <2>2, <2>3, ExitOthers DEF W!Next
<1>3. ExitInv => NoSleepThroughExit
  BY ZenonT(40), ExitHas DEF ExitInv, NoSleepThroughExit, W!NoSleepThroughExit
<1>. QED
  BY <1>1, <1>2, <1>3, PTL DEF W!Spec
=============================================================================
