----------------------------- MODULE RobustList -----------------------------
(***************************************************************************)
(* What ProcessManager::exit does to futex words: the wake and the clear   *)
(* of clear_child_tid, and the walk of the robust list                     *)
(* (libs/futex/futex.rs), while the other threads go on locking.           *)
(*                                                                         *)
(* The words are read and written one after the other with plain accesses; *)
(* the other threads use compare-and-swap.  futex_wait and futex_wake are  *)
(* those of module Futex, here a set of sleepers for each word.            *)
(***************************************************************************)
EXTENDS Naturals, FiniteSets

CONSTANTS
    Procs, Locks,    \* threads; the words of their robust locks
    None             \* no thread, no word

VARIABLES
    mem,             \* each word: its owner, FUTEX_WAITERS, FUTEX_OWNER_DIED
    tid,             \* whether the word at clear_child_tid is still set
    bucket,          \* the words that have a bucket in FUTEX_DATA
    sleep,           \* the word each thread is asleep on, or None
    joiner,          \* a thread asleep on the word at p's clear_child_tid
    pc,              \* where each thread is
    todo,            \* the entries of its robust list that are left
    at, uval, mval,  \* the locals of handle_futex_death
    cut              \* history: the walk was given up after an error

locals == <<todo, at, uval, mval, cut>>
vars == <<mem, tid, bucket, sleep, joiner, pc, locals>>

Word(t, w, d) == [tid |-> t, waiters |-> w, died |-> d]
Zero == Word(None, FALSE, FALSE)
Words == [tid : Procs \cup {None}, waiters : BOOLEAN, died : BOOLEAN]

TypeOK ==
    /\ mem \in [Locks -> Words] /\ tid \in [Procs -> BOOLEAN]
    /\ bucket \subseteq Locks
    /\ sleep \in [Procs -> Locks \cup {None}]
    /\ joiner \in [Procs -> Procs \cup {None}]
    /\ pc \in [Procs -> {"user", "clear", "next", "test", "write", "wake", "dead"}]
    /\ todo \in [Procs -> SUBSET Locks] /\ at \in [Procs -> Locks \cup {None}]
    /\ uval \in [Procs -> Words] /\ mval \in [Procs -> Words]
    /\ cut \in [Procs -> BOOLEAN]

Init ==
    /\ mem = [l \in Locks |-> Zero] /\ tid = [p \in Procs |-> TRUE]
    /\ bucket = {} /\ sleep = [p \in Procs |-> None] /\ joiner = [p \in Procs |-> None]
    /\ pc = [p \in Procs |-> "user"]
    /\ todo = [p \in Procs |-> {}] /\ at = [p \in Procs |-> None]
    /\ uval = [p \in Procs |-> Zero] /\ mval = [p \in Procs |-> Zero]
    /\ cut = [p \in Procs |-> FALSE]

Goto(p, from, to) == pc[p] = from /\ pc' = [pc EXCEPT ![p] = to]
Awake(p) == pc[p] = "user" /\ sleep[p] = None /\ \A x \in Procs : joiner[x] # p

------------------------------------------------------------------------------
(* User code: a robust lock, and the join of a thread.                      *)

\* the word is free, or its owner has died: take it, and enter it in the list
Acquire(p, l) ==
    /\ Awake(p) /\ mem[l].tid = None
    /\ mem' = [mem EXCEPT ![l] = Word(p, @.waiters, FALSE)]
    /\ todo' = [todo EXCEPT ![p] = @ \cup {l}]
    /\ UNCHANGED <<tid, bucket, sleep, joiner, pc, at, uval, mval, cut>>

\* it is not: say that somebody waits
Contend(p, l) ==
    /\ Awake(p) /\ mem[l].tid \notin {None, p} /\ ~mem[l].waiters
    /\ mem' = [mem EXCEPT ![l].waiters = TRUE]
    /\ UNCHANGED <<tid, bucket, sleep, joiner, pc, locals>>

\* futex_wait for the word as it was seen by Contend
Sleep(p, l) ==
    /\ Awake(p) /\ mem[l].tid \notin {None, p} /\ mem[l].waiters
    /\ sleep' = [sleep EXCEPT ![p] = l]
    /\ bucket' = bucket \cup {l}
    /\ UNCHANGED <<mem, tid, joiner, pc, locals>>

\* futex_wake(l, 1): somebody who sleeps on l runs on
WakeOne(l) ==
    IF \E s \in Procs : sleep[s] = l
      THEN \E s \in Procs :
             /\ sleep[s] = l
             /\ sleep' = [sleep EXCEPT ![s] = None]
             /\ bucket' = IF \E r \in Procs \ {s} : sleep[r] = l THEN bucket ELSE bucket \ {l}
      ELSE UNCHANGED <<sleep, bucket>>

Unlock(p, l) ==
    /\ Awake(p) /\ mem[l].tid = p
    /\ mem' = [mem EXCEPT ![l] = Zero]
    /\ todo' = [todo EXCEPT ![p] = @ \ {l}]
    /\ IF mem[l].waiters THEN WakeOne(l) ELSE UNCHANGED <<sleep, bucket>>
    /\ UNCHANGED <<tid, joiner, pc, at, uval, mval, cut>>

\* futex_wait for the word of p's clear_child_tid, which is still set
Join(p, j) ==
    /\ Awake(j) /\ j # p /\ tid[p] /\ joiner[p] = None
    /\ joiner' = [joiner EXCEPT ![p] = j]
    /\ UNCHANGED <<mem, tid, bucket, sleep, pc, locals>>

------------------------------------------------------------------------------
(* exit().                                                                  *)

\* futex_wake of clear_child_tid ...
Exit(p) ==
    /\ Awake(p) /\ Goto(p, "user", "clear")
    /\ joiner' = [joiner EXCEPT ![p] = None]
    /\ UNCHANGED <<mem, tid, bucket, sleep, locals>>

\* ... and then clear_user
Clear(p) ==
    /\ Goto(p, "clear", "next")
    /\ tid' = [tid EXCEPT ![p] = FALSE]
    /\ UNCHANGED <<mem, bucket, sleep, joiner, locals>>

\* FutexIterator::next and the first read of handle_futex_death
DeathRead(p) ==
    /\ pc[p] = "next"
    /\ \/ \E l \in todo[p] :
            /\ at' = [at EXCEPT ![p] = l] /\ uval' = [uval EXCEPT ![p] = mem[l]]
            /\ todo' = [todo EXCEPT ![p] = @ \ {l}]
            /\ Goto(p, "next", "test")
       \/ /\ todo[p] = {} /\ Goto(p, "next", "dead")
          /\ UNCHANGED <<at, uval, todo>>
    /\ UNCHANGED <<mem, tid, bucket, sleep, joiner, mval, cut>>

Marked(p) == Word(None, uval[p].waiters, TRUE)

\* Fault: a lock that nobody waits for is left as it is.
DeathTestWaiters(p) ==
    /\ \/ /\ uval[p].tid # p \/ ~uval[p].waiters
          /\ Goto(p, "test", "next")
          /\ UNCHANGED <<uval, mval>>
       \/ /\ uval[p].tid = p /\ uval[p].waiters /\ mem[at[p]] # Marked(p)
          /\ Goto(p, "test", "write")
          /\ uval' = [uval EXCEPT ![p] = mem[at[p]]]
          /\ mval' = [mval EXCEPT ![p] = Marked(p)]
       \/ /\ uval[p].tid = p /\ uval[p].waiters /\ mem[at[p]] = Marked(p)
          /\ Goto(p, "test", IF mem[at[p]].waiters THEN "wake" ELSE "next")
          /\ UNCHANGED <<uval, mval>>
    /\ UNCHANGED <<mem, tid, bucket, sleep, joiner, todo, at, cut>>

\* the loop: another owner ends it; a word that is not yet as it shall be is
\* remembered and then written; one that is wakes a waiter
DeathTest(p) ==
    /\ \/ /\ uval[p].tid # p
          /\ Goto(p, "test", "next")
          /\ UNCHANGED <<uval, mval>>
       \/ /\ uval[p].tid = p /\ mem[at[p]] # Marked(p)
          /\ Goto(p, "test", "write")
          /\ uval' = [uval EXCEPT ![p] = mem[at[p]]]
          /\ mval' = [mval EXCEPT ![p] = Marked(p)]
       \/ /\ uval[p].tid = p /\ mem[at[p]] = Marked(p)
          /\ Goto(p, "test", IF mem[at[p]].waiters THEN "wake" ELSE "next")
          /\ UNCHANGED <<uval, mval>>
    /\ UNCHANGED <<mem, tid, bucket, sleep, joiner, todo, at, cut>>

DeathWrite(p) ==
    /\ Goto(p, "write", "test")
    /\ mem' = [mem EXCEPT ![at[p]] = mval[p]]
    /\ UNCHANGED <<tid, bucket, sleep, joiner, locals>>

\* futex_wake; without a bucket it fails, and exit_robust_list returns
DeathWake(p) ==
    /\ IF at[p] \in bucket
         THEN WakeOne(at[p]) /\ Goto(p, "wake", "next") /\ UNCHANGED cut
         ELSE /\ Goto(p, "wake", "dead")
              /\ cut' = [cut EXCEPT ![p] = TRUE]
              /\ UNCHANGED <<sleep, bucket>>
    /\ UNCHANGED <<mem, tid, joiner, todo, at, uval, mval>>

Step(p) ==
    \/ \E l \in Locks : Acquire(p, l) \/ Contend(p, l) \/ Sleep(p, l) \/ Unlock(p, l)
    \/ \E j \in Procs : Join(p, j)
    \/ Exit(p) \/ Clear(p) \/ DeathRead(p) \/ DeathTest(p) \/ DeathWrite(p) \/ DeathWake(p)

Next == \E p \in Procs : Step(p)
Spec == Init /\ [][Next]_vars

------------------------------------------------------------------------------
\* When exit_robust_list has walked the whole list, no word of it names the dead
\* thread: whoever finds the lock taken finds a live owner, or OWNER_DIED.
DeadOwnsNothing ==
    \A p \in Procs : pc[p] = "dead" /\ ~cut[p] => \A l \in Locks : mem[l].tid # p
==============================================================================
