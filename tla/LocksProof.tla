----------------------------- MODULE LocksProof -----------------------------
(***************************************************************************)
(* Proofs about the sleeping lock and the wait queue, for any processes    *)
(* and wakers: the instances M and Q of SleepLocks.                        *)
(*                                                                         *)
(* The mutex: one guard at most, and is_locked set exactly while there is  *)
(* one, is inductive with the types.  That wait_list holds a process once  *)
(* gives the bound on its length.                                          *)
(*                                                                         *)
(* The wait queue: where a blocked process can be found, and by which      *)
(* wake-up it will be found once an event, a death or a fatal signal has   *)
(* happened, at every point between the two.                               *)
(***************************************************************************)
EXTENDS SleepLocks, ListLemmas

\* Mutex: TypeOK without the bound on wait_list.
MutexTypes ==
    /\ is_locked \in BOOLEAN
    /\ m_wait_list \in Seq(Procs)
    /\ m_state \in [Procs -> {"Runnable", "Blocked"}]
    /\ m_pc \in [Procs -> M!PCs]
    /\ m_target \in [Procs -> Procs \cup {None}]

MutexInv == MutexTypes /\ M!MutualExclusion /\ M!WaitListDistinct

------------------------------------------------------------------------------
(* The invariant.                                                           *)

\* Nobody holds the mutex when it is created.
LEMMA MutexInit == M!Init => MutexInv
<1>. SUFFICES ASSUME M!Init PROVE MutexInv
  OBVIOUS
<1>1. MutexTypes
  <2>1. m_wait_list \in Seq(Procs)
    BY DEF M!Init
  <2>2. is_locked \in BOOLEAN
    BY ZenonT(40) DEF M!Init
  <2>3. m_state \in [Procs -> {"Runnable", "Blocked"}] /\ m_pc \in [Procs -> M!PCs]
    BY DEF M!Init, M!PCs
  <2>4. m_target \in [Procs -> Procs \cup {None}]
    BY DEF M!Init
  <2>. QED
    BY <2>1, <2>2, <2>3, <2>4 DEF MutexTypes
<1>2. M!Holders = {}
  BY DEF M!Init, M!Holders
<1>3. M!MutualExclusion
  BY <1>2 DEF M!Init, M!MutualExclusion
<1>4. M!WaitListDistinct
  BY DEF M!Init, M!WaitListDistinct
<1>. QED
  BY <1>1, <1>3, <1>4 DEF MutexInv

\* Every step of lock(), try_lock(), __sleep() and unlock(), and every signal,
\* keeps the types.
LEMMA MutexStepTypes ==
  ASSUME MutexInv, NEW p \in Procs, M!Step(p)
  PROVE  MutexTypes' /\ M!WaitListDistinct'
<1>. USE DEF MutexInv, MutexTypes, M!Goto
<1>d. M!WaitListDistinct <=> Distinct(m_wait_list)
  BY DEF M!WaitListDistinct, Distinct
<1>e. M!WaitListDistinct' <=> Distinct(m_wait_list')
  BY DEF M!WaitListDistinct, Distinct
<1>1. CASE M!Enqueue(p)
  <2>1. m_wait_list' \in Seq(Procs) /\ Distinct(m_wait_list')
    <3>1. CASE M!InWaitList(p)
      BY <1>1, <3>1, <1>d DEF M!Enqueue
    <3>2. CASE ~M!InWaitList(p)
      BY <1>1, <3>2, <1>d, AppendDistinct DEF M!Enqueue, M!InWaitList, Has
    <3>. QED
      BY <3>1, <3>2
  <2>. QED
    BY <1>1, <2>1, <1>e DEF M!Enqueue, M!PCs
<1>2. CASE M!UnlockPop(p)
  <2>1. /\ Head(m_wait_list) \in Procs
        /\ Tail(m_wait_list) \in Seq(Procs)
        /\ Distinct(Tail(m_wait_list))
    BY <1>2, <1>d, TailKeeps, TailDistinct DEF M!UnlockPop
  <2>. QED
    BY ZenonT(40), <1>2, <2>1, <1>e DEF M!UnlockPop, M!PCs
<1>3. CASE ~M!Enqueue(p) /\ ~M!UnlockPop(p)
  <2>1. UNCHANGED m_wait_list
    BY <1>3 DEF M!Step, M!Begin, M!Acquire, M!Sleep, M!Resume, M!TryLock, M!UnlockAlone,
                M!Wakeup, M!Interrupt
  <2>2. M!WaitListDistinct'
    BY <2>1 DEF M!WaitListDistinct
  <2>3. is_locked' \in BOOLEAN
    BY ZenonT(40), <1>3 DEF M!Step, M!Begin, M!Acquire, M!Sleep, M!Resume, M!TryLock, M!UnlockAlone,
                M!Wakeup, M!Interrupt
  <2>4. m_state' \in [Procs -> {"Runnable", "Blocked"}]
    BY <1>3 DEF M!Step, M!Begin, M!Acquire, M!Sleep, M!Resume, M!TryLock, M!UnlockAlone,
                M!Wakeup, M!Interrupt
  <2>5. m_pc' \in [Procs -> M!PCs]
    BY <1>3 DEF M!Step, M!Begin, M!Acquire, M!Sleep, M!Resume, M!TryLock, M!UnlockAlone,
                M!Wakeup, M!Interrupt, M!PCs
  <2>6. m_target' \in [Procs -> Procs \cup {None}]
    BY <1>3 DEF M!Step, M!Begin, M!Acquire, M!Sleep, M!Resume, M!TryLock, M!UnlockAlone,
                M!Wakeup, M!Interrupt
  <2>. QED
    BY <2>1, <2>2, <2>3, <2>4, <2>5, <2>6
<1>. QED
  BY <1>1, <1>2, <1>3

\* Every step keeps is_locked exact and the guard unique.
LEMMA MutexStepExclusion ==
  ASSUME MutexInv, NEW p \in Procs, M!Step(p)
  PROVE  M!MutualExclusion'
<1>. USE DEF MutexInv, MutexTypes, M!Goto
<1>1. CASE M!Acquire(p) \/ M!TryLock(p)
  <2>1. M!Holders = {} /\ is_locked' = TRUE
    BY <1>1 DEF M!Acquire, M!TryLock, M!MutualExclusion
  <2>2. M!Holders' = {p}
    BY <1>1, <2>1 DEF M!Acquire, M!TryLock, M!Holders
  <2>. QED
    BY <2>1, <2>2 DEF M!MutualExclusion
<1>2. CASE M!UnlockAlone(p) \/ M!UnlockPop(p)
  <2>1. p \in M!Holders /\ is_locked' = FALSE
    BY <1>2 DEF M!UnlockAlone, M!UnlockPop, M!Holders
  <2>2. M!Holders' = {}
    BY <1>2, <2>1 DEF M!UnlockAlone, M!UnlockPop, M!Holders, M!MutualExclusion
  <2>. QED
    BY <2>1, <2>2 DEF M!MutualExclusion
<1>3. CASE M!Begin(p) \/ M!Enqueue(p) \/ M!Sleep(p) \/ M!Resume(p) \/ M!Wakeup(p) \/ M!Interrupt(p)
  <2>1. UNCHANGED is_locked
    BY <1>3 DEF M!Begin, M!Enqueue, M!Sleep, M!Resume, M!Wakeup, M!Interrupt
  <2>2. M!Holders' = M!Holders
    BY <1>3 DEF M!Begin, M!Enqueue, M!Sleep, M!Resume, M!Wakeup, M!Interrupt, M!Holders
  <2>. QED
    BY <2>1, <2>2 DEF M!MutualExclusion
<1>. QED
  BY <1>1, <1>2, <1>3 DEF M!Step

\* The invariant is inductive.
LEMMA MutexNext == MutexInv /\ [M!Next]_M!vars => MutexInv'
<1>. SUFFICES ASSUME MutexInv, [M!Next]_M!vars PROVE MutexInv'
  OBVIOUS
<1>1. CASE M!Next
  <2>1. PICK p \in Procs : M!Step(p)
    BY <1>1 DEF M!Next
  <2>. QED
    BY <2>1, MutexStepTypes, MutexStepExclusion DEF MutexInv
<1>2. CASE UNCHANGED M!vars
  BY <1>2 DEF M!vars, MutexInv, MutexTypes, M!MutualExclusion, M!Holders, M!WaitListDistinct
<1>. QED
  BY <1>1, <1>2

\* The invariant holds in every behaviour.
LEMMA MutexAlways == M!Spec => []MutexInv
BY MutexInit, MutexNext, PTL DEF M!Spec

------------------------------------------------------------------------------
\* However lock(), try_lock(), unlock() and signals interleave, there is one
\* guard at most, and is_locked is set exactly while there is one; so the
\* assert of unlock() never fires.
THEOREM MutexExcludes == M!Spec => []MutualExclusion
<1>1. MutexInv => MutualExclusion
  BY DEF MutexInv, MutualExclusion
<1>. QED
  BY MutexAlways, <1>1, PTL

\* No process is in wait_list twice, however often a signal woke it and it
\* went back to sleep in lock().
THEOREM ListedOnce == M!Spec => []M!WaitListDistinct
<1>1. MutexInv => M!WaitListDistinct
  BY DEF MutexInv
<1>. QED
  BY MutexAlways, <1>1, PTL

------------------------------------------------------------------------------
(* The wait queue: the invariant.                                           *)

\* TypeOK without the bounds on the lists.
QueueTypes ==
    /\ wait_list \in Seq(Waiters) /\ kept \in Seq(Waiters)
    /\ dead \in BOOLEAN /\ cond \in BOOLEAN /\ event \subseteq Waiters
    /\ qlock \in Wakers \cup {None}
    /\ state \in [Waiters -> {"Runnable", Q!BlockedI, Q!BlockedU}]
    /\ sender \in [Waiters -> {"none", "blocked", "other", "wake"}]
    /\ q_pc \in [Waiters -> Q!PCs]
    /\ wpc \in [Wakers -> Q!WPCs]
    /\ mode \in [Wakers -> Modes \cup Q!AllModes \cup {None}]
    /\ target \in [Wakers -> Waiters \cup {None}]

\* Who is inside the queue's lock, and what is then known of the list: the lock is
\* held by the waker in the section, which found the list non-empty; to_push_back is
\* filled by wakeup_all alone; a process is in hand exactly until it is woken.
LockSections ==
    /\ \A w \in Wakers : wpc[w] \in {"front", "scan"} <=> qlock = w
    /\ \A w \in Wakers : wpc[w] = "front" => wait_list # <<>> /\ kept = <<>>
    /\ \A w \in Wakers : wpc[w] = "wake" <=> target[w] # None
    /\ qlock = None => kept = <<>>

\* wakeup_all puts back nobody that sleeps interruptibly.
KeptRunOrUninterruptible == \A p \in Waiters : Has(kept, p) => state[p] # Q!BlockedI

\* From mark_sleep until schedule() returns.
Waiting(p) == q_pc[p] \in {"test", "parked"}

\* Where a wake-up finds p.
Found(p) == Has(wait_list, p) \/ Has(kept, p) \/ \E w \in Wakers : target[w] = p

\* p joined the list before it was marked blocked, and wherever an entry of a blocked
\* process went, it is still there.
BlockedIsListed == \A p \in Waiters : Waiting(p) /\ state[p] # "Runnable" => Found(p)

\* Who has not joined the list is not blocked.  Between calls nobody is in the macro, and
\* in the macro sleeps are interruptible.
EventWaits ==
    /\ \A p \in Waiters : q_pc[p] \in {"idle", "prepare", "test_err"} => state[p] = "Runnable"
    /\ \A p \in Waiters : q_pc[p] = "idle" => p \notin event
    /\ \A p \in Waiters : p \in event => state[p] # Q!BlockedU

\* A wakeup_all that has yet to run, or has yet to come to p, or a wakeup that holds p.
WillWake(p) ==
    \E w \in Wakers :
        \/ wpc[w] = "lock" /\ mode[w] \in {"all", "all_intr"}
        \/ wpc[w] = "scan" /\ Has(wait_list, p)
        \/ wpc[w] = "wake" /\ target[w] = p

\* While the event lasts that a wakeup_all announces, whoever sleeps on for it will be woken.
EventWakes ==
    cond /\ raised \in {"all", "all_intr"}
      => \A p \in Waiters :
           p \in event /\ q_pc[p] = "parked" /\ state[p] # "Runnable" => WillWake(p)

\* Once the queue is dead, whoever is blocked interruptibly will be woken.
DeathWakes ==
    dead => \A p \in Waiters : Waiting(p) /\ state[p] = Q!BlockedI => WillWake(p)

\* After the three steps of a fatal signal its receiver is not blocked in the macro.
FatalWoke ==
    \A p \in Waiters :
        p \in event /\ p \in fatal /\ p \in sig /\ sender[p] = "none" /\ Waiting(p)
          => state[p] = "Runnable"

QueueInv ==
    /\ QueueTypes /\ LockSections /\ KeptRunOrUninterruptible /\ BlockedIsListed
    /\ EventWaits /\ EventWakes /\ DeathWakes /\ FatalWoke

------------------------------------------------------------------------------
(* The operators of Lists, as the instance sees them.                       *)

LEMMA QueueRetained ==
  ASSUME NEW s, NEW S
  PROVE  Q!Retained(s, S) = Retained(s, S)
BY DEF Retained, Q!Retained, Kept, Q!Kept, Ascending, Q!Ascending

LEMMA QueueHas ==
  ASSUME NEW s, NEW e
  PROVE  Q!Has(s, e) <=> Has(s, e)
BY DEF Has, Q!Has

------------------------------------------------------------------------------
(* The wait queue: the steps.                                               *)

LEMMA QueueInit == Q!Init => QueueInv
<1>. SUFFICES ASSUME Q!Init PROVE QueueInv
  OBVIOUS
<1>1. QueueTypes
  <2>1. wait_list \in Seq(Waiters) /\ kept \in Seq(Waiters)
    BY DEF Q!Init
  <2>2. mode \in [Wakers -> Modes \cup Q!AllModes \cup {None}]
    BY DEF Q!Init
  <2>3. target \in [Wakers -> Waiters \cup {None}]
    BY DEF Q!Init
  <2>. QED
    BY ZenonT(40), <2>1, <2>2, <2>3 DEF Q!Init, QueueTypes, Q!PCs, Q!WPCs
<1>2. LockSections
  BY NoneIsNobody DEF Q!Init, LockSections
<1>3. KeptRunOrUninterruptible
  BY EmptyHasNot DEF Q!Init, KeptRunOrUninterruptible
<1>4. BlockedIsListed /\ EventWaits /\ EventWakes /\ DeathWakes /\ FatalWoke
  BY DEF Q!Init, BlockedIsListed, Waiting, EventWaits, EventWakes, DeathWakes, FatalWoke,
     Q!BlockedU, Q!BlockedI
<1>. QED
  BY <1>1, <1>2, <1>3, <1>4 DEF QueueInv

USE DEF QueueInv, QueueTypes, Q!Goto, Q!WGoto, Q!SetState, Q!queue, Q!env, Q!signals,
        Q!waiter, Q!waker, Q!BlockedI, Q!BlockedU

\* The first test of the macro.
LEMMA QueueEventBegin ==
  ASSUME QueueInv, NEW p \in Waiters, Q!EventBegin(p)
  PROVE  QueueInv'
<1>. USE DEF Q!EventBegin
<1>1. QueueTypes' /\ LockSections' /\ KeptRunOrUninterruptible'
  BY DEF LockSections, KeptRunOrUninterruptible, Q!PCs
<1>2. EventWaits' /\ BlockedIsListed' /\ FatalWoke'
  BY DEF EventWaits, BlockedIsListed, FatalWoke, Waiting, Found
<1>3. EventWakes' /\ DeathWakes'
  BY DEF EventWakes, DeathWakes, Waiting, WillWake
<1>. QED
  BY <1>1, <1>2, <1>3

\* The test after prepare_to_wait_event.
LEMMA QueueTest ==
  ASSUME QueueInv, NEW p \in Waiters, Q!Test(p)
  PROVE  QueueInv'
<1>. USE DEF Q!Test
<1>1. QueueTypes' /\ LockSections' /\ KeptRunOrUninterruptible'
  BY DEF LockSections, KeptRunOrUninterruptible, Q!PCs
<1>2. EventWaits' /\ BlockedIsListed' /\ FatalWoke'
  BY DEF EventWaits, BlockedIsListed, FatalWoke, Waiting, Found
<1>3. EventWakes' /\ DeathWakes'
  BY DEF EventWakes, DeathWakes, Waiting, WillWake
<1>. QED
  BY <1>1, <1>2, <1>3

\* The test after an error.
LEMMA QueueTestErr ==
  ASSUME QueueInv, NEW p \in Waiters, Q!TestErr(p)
  PROVE  QueueInv'
<1>. USE DEF Q!TestErr
<1>1. QueueTypes' /\ LockSections' /\ KeptRunOrUninterruptible'
  BY DEF LockSections, KeptRunOrUninterruptible, Q!PCs
<1>2. EventWaits' /\ BlockedIsListed' /\ FatalWoke'
  BY DEF EventWaits, BlockedIsListed, FatalWoke, Waiting, Found
<1>3. EventWakes' /\ DeathWakes'
  BY DEF EventWakes, DeathWakes, Waiting, WillWake
<1>. QED
  BY <1>1, <1>2, <1>3

\* Schedule() returns.
LEMMA QueueResume ==
  ASSUME QueueInv, NEW p \in Waiters, Q!Resume(p)
  PROVE  QueueInv'
<1>. USE DEF Q!Resume
<1>1. QueueTypes' /\ LockSections' /\ KeptRunOrUninterruptible'
  BY DEF LockSections, KeptRunOrUninterruptible, Q!PCs
<1>2. EventWaits' /\ BlockedIsListed' /\ FatalWoke'
  BY DEF EventWaits, BlockedIsListed, FatalWoke, Waiting, Found
<1>3. EventWakes' /\ DeathWakes'
  BY DEF EventWakes, DeathWakes, Waiting, WillWake
<1>. QED
  BY <1>1, <1>2, <1>3

\* Finish_wait takes the lock of the state.
LEMMA QueueFinishLock ==
  ASSUME QueueInv, NEW p \in Waiters, Q!FinishLock(p)
  PROVE  QueueInv'
<1>. USE DEF Q!FinishLock
<1>1. QueueTypes' /\ LockSections' /\ KeptRunOrUninterruptible'
  BY DEF LockSections, KeptRunOrUninterruptible, Q!PCs
<1>2. EventWaits' /\ BlockedIsListed' /\ FatalWoke'
  BY DEF EventWaits, BlockedIsListed, FatalWoke, Waiting, Found
<1>3. EventWakes' /\ DeathWakes'
  BY DEF EventWakes, DeathWakes, Waiting, WillWake
<1>. QED
  BY <1>1, <1>2, <1>3

\* Signal_wake_up sets the flag.
LEMMA QueueSignalFlag ==
  ASSUME QueueInv, NEW p \in Waiters, Q!SignalFlag(p)
  PROVE  QueueInv'
<1>. USE DEF Q!SignalFlag
<1>1. QueueTypes' /\ LockSections' /\ KeptRunOrUninterruptible'
  BY DEF LockSections, KeptRunOrUninterruptible, Q!PCs
<1>2. EventWaits' /\ BlockedIsListed' /\ FatalWoke'
  BY DEF EventWaits, BlockedIsListed, FatalWoke, Waiting, Found
<1>3. EventWakes' /\ DeathWakes'
  BY DEF EventWakes, DeathWakes, Waiting, WillWake
<1>. QED
  BY <1>1, <1>2, <1>3

\* Signal_wake_up wakes.
LEMMA QueueSignalWake ==
  ASSUME QueueInv, NEW p \in Waiters, Q!SignalWake(p)
  PROVE  QueueInv'
<1>. USE DEF Q!SignalWake
<1>1. QueueTypes' /\ LockSections' /\ KeptRunOrUninterruptible'
  BY DEF LockSections, KeptRunOrUninterruptible, Q!PCs
<1>2. EventWaits' /\ BlockedIsListed' /\ FatalWoke'
  BY DEF EventWaits, BlockedIsListed, FatalWoke, Waiting, Found
<1>3. EventWakes' /\ DeathWakes'
  BY DEF EventWakes, DeathWakes, Waiting, WillWake
<1>. QED
  BY <1>1, <1>2, <1>3

\* A signal is handled.
LEMMA QueueHandleSignal ==
  ASSUME QueueInv, NEW p \in Waiters, Q!HandleSignal(p)
  PROVE  QueueInv'
<1>. USE DEF Q!HandleSignal
<1>1. QueueTypes' /\ LockSections' /\ KeptRunOrUninterruptible'
  BY DEF LockSections, KeptRunOrUninterruptible, Q!PCs
<1>2. EventWaits' /\ BlockedIsListed' /\ FatalWoke'
  BY DEF EventWaits, BlockedIsListed, FatalWoke, Waiting, Found
<1>3. EventWakes' /\ DeathWakes'
  BY DEF EventWakes, DeathWakes, Waiting, WillWake
<1>. QED
  BY <1>1, <1>2, <1>3

\* The condition becomes false.
LEMMA QueueConsume ==
  ASSUME QueueInv, NEW p \in Waiters, Q!Consume(p)
  PROVE  QueueInv'
<1>. USE DEF Q!Consume
<1>1. QueueTypes' /\ LockSections' /\ KeptRunOrUninterruptible'
  BY ZenonT(40) DEF LockSections, KeptRunOrUninterruptible, Q!PCs
<1>2. EventWaits' /\ BlockedIsListed' /\ FatalWoke'
  BY DEF EventWaits, BlockedIsListed, FatalWoke, Waiting, Found
<1>3. EventWakes' /\ DeathWakes'
  BY DEF EventWakes, DeathWakes, Waiting, WillWake
<1>. QED
  BY <1>1, <1>2, <1>3

\* Signal_wake_up reads the state.
LEMMA QueueSignalRead ==
  ASSUME QueueInv, NEW p \in Waiters, NEW kill \in BOOLEAN, Q!SignalRead(p, kill)
  PROVE  QueueInv'
<1>. USE DEF Q!SignalRead
<1>1. QueueTypes' /\ LockSections' /\ KeptRunOrUninterruptible'
  BY DEF LockSections, KeptRunOrUninterruptible, Q!PCs
<1>2. EventWaits' /\ BlockedIsListed' /\ FatalWoke'
  BY DEF EventWaits, BlockedIsListed, FatalWoke, Waiting, Found
<1>3. EventWakes' /\ DeathWakes'
  BY DEF EventWakes, DeathWakes, Waiting, WillWake
<1>. QED
  BY <1>1, <1>2, <1>3

\* mark_sleep and push_back.
LEMMA QueueEnqueue ==
  ASSUME QueueInv, NEW p \in Waiters, NEW st, Q!Enqueue(p, st)
  PROVE  /\ wait_list' \in Seq(Waiters)
         /\ \A x : Has(wait_list', x) <=> Has(wait_list, x) \/ x = p
<1>1. wait_list' = Append(wait_list, p) /\ wait_list \in Seq(Waiters)
  BY DEF Q!Enqueue, QueueInv, QueueTypes
<1>. QED
  BY <1>1, AppendHas

\* prepare_to_wait_event.
LEMMA QueuePrepare ==
  ASSUME QueueInv, NEW p \in Waiters, Q!Prepare(p)
  PROVE  QueueInv'
<1>. USE DEF Q!Prepare
<1>a. CASE dead \/ p \in sig
  <2>1. QueueTypes' /\ LockSections' /\ KeptRunOrUninterruptible'
    BY ZenonT(40), <1>a DEF LockSections, KeptRunOrUninterruptible, Q!PCs, Q!WPCs
  <2>2. EventWaits' /\ BlockedIsListed' /\ FatalWoke'
    BY <1>a DEF EventWaits, BlockedIsListed, FatalWoke, Waiting, Found, LockSections
  <2>3. EventWakes' /\ DeathWakes'
    BY <1>a DEF EventWakes, DeathWakes, Waiting, WillWake, LockSections
  <2>. QED
    BY <2>1, <2>2, <2>3
<1>b. CASE ~(dead \/ p \in sig)
  <2>. USE DEF Q!Enqueue
  <2>0. /\ wait_list' \in Seq(Waiters)
        /\ \A x : Has(wait_list', x) <=> Has(wait_list, x) \/ x = p
    BY <1>b, QueueEnqueue
  <2>1. QueueTypes' /\ LockSections' /\ KeptRunOrUninterruptible'
    BY <1>b, <2>0, NoneIsNobody, EmptyHasNot DEF LockSections, KeptRunOrUninterruptible,
       Q!PCs, Q!WPCs
  <2>2. EventWaits' /\ BlockedIsListed' /\ FatalWoke'
    <3>1. EventWaits'
      BY ZenonT(40), <1>b DEF EventWaits
    <3>2. BlockedIsListed'
      BY <1>b, <2>0 DEF BlockedIsListed, Waiting, Found
    <3>3. FatalWoke'
      BY ZenonT(40), <1>b DEF FatalWoke, Waiting
    <3>. QED
      BY <3>1, <3>2, <3>3
  <2>3. EventWakes' /\ DeathWakes'
    BY <1>b, <2>0, NoneIsNobody, EmptyHasNot DEF EventWakes, DeathWakes, Waiting, WillWake,
       LockSections
  <2>. QED
    BY <2>1, <2>2, <2>3
<1>. QED
  BY <1>a, <1>b

\* Sleep, and sleep_uninterruptible.
LEMMA QueueSleep ==
  ASSUME QueueInv, NEW p \in Waiters, NEW st \in {Q!BlockedI, Q!BlockedU}, Q!Sleep(p, st)
  PROVE  QueueInv'
<1>. USE DEF Q!Sleep, Q!Enqueue
<1>0. /\ wait_list' \in Seq(Waiters)
      /\ \A x : Has(wait_list', x) <=> Has(wait_list, x) \/ x = p
  BY ZenonT(40), QueueEnqueue
<1>1. QueueTypes' /\ LockSections' /\ KeptRunOrUninterruptible'
  BY <1>0, NoneIsNobody, EmptyHasNot DEF LockSections, KeptRunOrUninterruptible, Q!PCs, Q!WPCs
<1>2. EventWaits' /\ BlockedIsListed' /\ FatalWoke'
  BY <1>0, NoneIsNobody, EmptyHasNot DEF EventWaits, BlockedIsListed, FatalWoke, Waiting,
     Found, LockSections
<1>3. EventWakes' /\ DeathWakes'
  BY <1>0, NoneIsNobody DEF EventWakes, DeathWakes, EventWaits, Waiting, WillWake, LockSections
<1>. QED
  BY <1>1, <1>2, <1>3

\* The sleeps without can_sleep.
LEMMA QueueSleepUninterruptible ==
  ASSUME QueueInv, NEW p \in Waiters, Q!SleepUninterruptible(p)
  PROVE  QueueInv'
<1>. USE DEF Q!SleepUninterruptible, Q!Enqueue
<1>0. /\ wait_list' \in Seq(Waiters)
      /\ \A x : Has(wait_list', x) <=> Has(wait_list, x) \/ x = p
  BY ZenonT(40), QueueEnqueue
<1>1. QueueTypes' /\ LockSections' /\ KeptRunOrUninterruptible'
  BY <1>0, NoneIsNobody, EmptyHasNot DEF LockSections, KeptRunOrUninterruptible, Q!PCs, Q!WPCs
<1>2. EventWaits' /\ BlockedIsListed' /\ FatalWoke'
  BY <1>0, NoneIsNobody, EmptyHasNot DEF EventWaits, BlockedIsListed, FatalWoke, Waiting,
     Found, LockSections
<1>3. EventWakes' /\ DeathWakes'
  BY <1>0, NoneIsNobody DEF EventWakes, DeathWakes, EventWaits, Waiting, WillWake, LockSections
<1>. QED
  BY ZenonT(40), <1>1, <1>2, <1>3

\* finish_wait takes the process off the list, wherever and however often it is there.
LEMMA QueueFinishWait ==
  ASSUME QueueInv, NEW p \in Waiters, Q!FinishWait(p)
  PROVE  QueueInv'
<1>. USE DEF Q!FinishWait
<1>0. /\ wait_list' \in Seq(Waiters)
      /\ \A x \in Waiters : Has(wait_list', x) <=> Has(wait_list, x) /\ x # p
  BY QueueRetained, RetainedHas
<1>1. QueueTypes' /\ LockSections' /\ KeptRunOrUninterruptible'
  BY <1>0, NoneIsNobody, EmptyHasNot DEF LockSections, KeptRunOrUninterruptible, Q!PCs, Q!WPCs
<1>2. EventWaits' /\ BlockedIsListed' /\ FatalWoke'
  <2>1. EventWaits'
    BY DEF EventWaits
  <2>2. BlockedIsListed'
    BY ZenonT(40), <1>0 DEF BlockedIsListed, Waiting, Found
  <2>3. FatalWoke'
    BY DEF FatalWoke, Waiting
  <2>. QED
    BY <2>1, <2>2, <2>3
<1>3. EventWakes' /\ DeathWakes'
  <2>1. ASSUME NEW q \in Waiters, q # p, WillWake(q) PROVE WillWake(q)'
    BY <1>0, <2>1 DEF WillWake
  <2>2. EventWakes'
    BY <2>1 DEF EventWakes
  <2>3. DeathWakes'
    BY <2>1 DEF DeathWakes, Waiting
  <2>. QED
    BY ZenonT(40), <2>2, <2>3
<1>. QED
  BY ZenonT(40), <1>1, <1>2, <1>3

\* The event happens and is announced.
LEMMA QueuePost ==
  ASSUME QueueInv, NEW w \in Wakers, NEW how \in Modes, Q!Post(w, how)
  PROVE  QueueInv'
<1>. USE NoneIsNobody DEF Q!Post
<1>1. QueueTypes' /\ LockSections' /\ KeptRunOrUninterruptible'
  BY ZenonT(40) DEF LockSections, KeptRunOrUninterruptible, Q!WPCs, Q!AllModes
<1>2. EventWaits' /\ BlockedIsListed' /\ FatalWoke'
  BY DEF EventWaits, BlockedIsListed, FatalWoke, Waiting, Found, LockSections
<1>3. EventWakes' /\ DeathWakes'
  BY DEF EventWakes, DeathWakes, EventWaits, Waiting, WillWake, LockSections
<1>. QED
  BY ZenonT(40), <1>1, <1>2, <1>3

\* mark_dead.
LEMMA QueueMarkDead ==
  ASSUME QueueInv, NEW w \in Wakers, Q!MarkDead(w)
  PROVE  QueueInv'
<1>. USE NoneIsNobody DEF Q!MarkDead
<1>1. QueueTypes' /\ LockSections' /\ KeptRunOrUninterruptible'
  BY DEF LockSections, KeptRunOrUninterruptible, Q!WPCs, Q!AllModes
<1>2. EventWaits' /\ BlockedIsListed' /\ FatalWoke'
  BY DEF EventWaits, BlockedIsListed, FatalWoke, Waiting, Found, LockSections
<1>3. EventWakes' /\ DeathWakes'
  BY DEF EventWakes, DeathWakes, EventWaits, Waiting, WillWake, LockSections
<1>. QED
  BY <1>1, <1>2, <1>3

\* A wake-up of an empty list.
LEMMA QueueWakeNobody ==
  ASSUME QueueInv, NEW w \in Wakers, Q!WakeNobody(w)
  PROVE  QueueInv'
<1>. USE NoneIsNobody DEF Q!WakeNobody, Q!Return
<1>1. QueueTypes' /\ LockSections' /\ KeptRunOrUninterruptible'
  BY EmptyHasNot DEF LockSections, KeptRunOrUninterruptible, Q!WPCs, Q!AllModes
<1>2. EventWaits' /\ BlockedIsListed' /\ FatalWoke'
  BY EmptyHasNot DEF EventWaits, BlockedIsListed, FatalWoke, Waiting, Found, LockSections
<1>3. EventWakes' /\ DeathWakes'
  BY EmptyHasNot DEF EventWakes, DeathWakes, EventWaits, Waiting, WillWake, LockSections,
     BlockedIsListed, Found, KeptRunOrUninterruptible
<1>. QED
  BY ZenonT(40), <1>1, <1>2, <1>3

\* A wake-up takes the lock.
LEMMA QueueWakeLock ==
  ASSUME QueueInv, NEW w \in Wakers, Q!WakeLock(w)
  PROVE  QueueInv'
<1>. USE NoneIsNobody DEF Q!WakeLock
<1>1. QueueTypes' /\ LockSections' /\ KeptRunOrUninterruptible'
  BY EmptyHasNot DEF LockSections, KeptRunOrUninterruptible, Q!WPCs, Q!AllModes
<1>2. EventWaits' /\ BlockedIsListed' /\ FatalWoke'
  BY EmptyHasNot DEF EventWaits, BlockedIsListed, FatalWoke, Waiting, Found, LockSections
<1>3. EventWakes' /\ DeathWakes'
  BY EmptyHasNot DEF EventWakes, DeathWakes, EventWaits, Waiting, WillWake, LockSections,
     BlockedIsListed, Found, KeptRunOrUninterruptible
<1>. QED
  BY ZenonT(40), <1>1, <1>2, <1>3

\* wakeup gives up at the first process.
LEMMA QueueWakeMismatch ==
  ASSUME QueueInv, NEW w \in Wakers, Q!WakeMismatch(w)
  PROVE  QueueInv'
<1>. USE NoneIsNobody DEF Q!WakeMismatch, Q!Return
<1>1. QueueTypes' /\ LockSections' /\ KeptRunOrUninterruptible'
  BY ZenonT(40), EmptyHasNot DEF LockSections, KeptRunOrUninterruptible, Q!WPCs, Q!AllModes
<1>2. EventWaits' /\ BlockedIsListed' /\ FatalWoke'
  BY EmptyHasNot DEF EventWaits, BlockedIsListed, FatalWoke, Waiting, Found, LockSections
<1>3. EventWakes' /\ DeathWakes'
  BY EmptyHasNot DEF EventWakes, DeathWakes, EventWaits, Waiting, WillWake, LockSections,
     BlockedIsListed, Found, KeptRunOrUninterruptible
<1>. QED
  BY ZenonT(40), <1>1, <1>2, <1>3

\* wakeup pops the first process.
LEMMA QueueWakePop ==
  ASSUME QueueInv, NEW w \in Wakers, Q!WakePop(w)
  PROVE  QueueInv'
<1>. USE NoneIsNobody DEF Q!WakePop
<1>0. /\ wait_list # <<>>
      /\ Head(wait_list) \in Waiters /\ wait_list' \in Seq(Waiters)
      /\ \A x : Has(wait_list, x) => x = Head(wait_list) \/ Has(wait_list', x)
      /\ \A x : Has(wait_list', x) => Has(wait_list, x)
  <2>1. wait_list # <<>>
    BY DEF LockSections
  <2>. QED
    BY ZenonT(40), <2>1, TailKeeps
<1>1. QueueTypes' /\ LockSections' /\ KeptRunOrUninterruptible'
  BY ZenonT(40), <1>0, EmptyHasNot DEF LockSections, KeptRunOrUninterruptible, Q!WPCs, Q!AllModes
<1>2. EventWaits' /\ BlockedIsListed' /\ FatalWoke'
  <2>1. EventWaits' /\ FatalWoke'
    BY ZenonT(40) DEF EventWaits, FatalWoke, Waiting
  <2>2. ASSUME NEW x \in Waiters, Found(x) PROVE Found(x)'
    <3>1. target'[w] = Head(wait_list) /\ \A v \in Wakers : v # w => target'[v] = target[v]
      OBVIOUS
    <3>2. target[w] # x
      BY ZenonT(40) DEF LockSections
    <3>. QED
      BY ZenonT(40), <1>0, <2>2, <3>1, <3>2 DEF Found
  <2>3. BlockedIsListed'
    BY <2>2 DEF BlockedIsListed, Waiting
  <2>. QED
    BY ZenonT(40), <2>1, <2>3
<1>3. EventWakes' /\ DeathWakes'
  <2>1. ASSUME NEW x \in Waiters, WillWake(x) PROVE WillWake(x)'
    <3>1. PICK v \in Wakers : \/ wpc[v] = "lock" /\ mode[v] \in {"all", "all_intr"}
                              \/ wpc[v] = "scan" /\ Has(wait_list, x)
                              \/ wpc[v] = "wake" /\ target[v] = x
      BY <2>1 DEF WillWake
    <3>2. v # w /\ wpc[v] # "scan"
      BY <3>1 DEF LockSections
    <3>. QED
      BY ZenonT(40), <3>1, <3>2 DEF WillWake
  <2>. QED
    BY ZenonT(40), <2>1 DEF EventWakes, DeathWakes, Waiting
<1>. QED
  BY ZenonT(40), <1>1, <1>2, <1>3

\* wakeup wakes the process it popped.
LEMMA QueueWakeTarget ==
  ASSUME QueueInv, NEW w \in Wakers, Q!WakeTarget(w)
  PROVE  QueueInv'
<1>. USE NoneIsNobody DEF Q!WakeTarget, Q!Return
<1>0. target[w] \in Waiters
  BY DEF LockSections
<1>1. QueueTypes' /\ LockSections' /\ KeptRunOrUninterruptible'
  BY <1>0 DEF LockSections, KeptRunOrUninterruptible, Q!WPCs, Q!AllModes
<1>2. EventWaits' /\ BlockedIsListed' /\ FatalWoke'
  BY <1>0 DEF EventWaits, BlockedIsListed, FatalWoke, Waiting, Found, LockSections
<1>3. EventWakes' /\ DeathWakes'
  <2>1. ASSUME NEW x \in Waiters, WillWake(x), x # target[w] PROVE WillWake(x)'
    BY <2>1 DEF WillWake
  <2>2. /\ state'[target[w]] = "Runnable"
        /\ \A x \in Waiters : x # target[w] => state'[x] = state[x]
    BY <1>0
  <2>. QED
    BY <2>1, <2>2 DEF EventWakes, DeathWakes, Waiting
<1>. QED
  BY ZenonT(40), <1>1, <1>2, <1>3

\* wakeup_all wakes the first process, or keeps it.
LEMMA QueueScanOne ==
  ASSUME QueueInv, NEW w \in Wakers, Q!ScanOne(w)
  PROVE  QueueInv'
<1>. USE NoneIsNobody DEF Q!ScanOne
<1>0. /\ wait_list # <<>>
      /\ Head(wait_list) \in Waiters /\ wait_list' \in Seq(Waiters)
      /\ \A x : Has(wait_list, x) => x = Head(wait_list) \/ Has(wait_list', x)
      /\ \A x : Has(wait_list', x) => Has(wait_list, x)
  <2>1. wait_list # <<>>
    BY DEF LockSections
  <2>. QED
    BY ZenonT(40), <2>1, TailKeeps
<1>a. kept' \in Seq(Waiters)
  <2>. DEFINE p == Head(wait_list)
  <2>. QED
    BY <1>0
<1>b. \A x : Has(kept', x) => Has(kept, x) \/ (x = Head(wait_list) /\ state[x] # Q!BlockedI)
  BY <1>0, AppendHas
<1>c. \A x : Has(kept, x) => Has(kept', x)
  BY <1>0, AppendHas
<1>d. \/ state'[Head(wait_list)] = "Runnable"
      \/ Has(kept', Head(wait_list)) /\ state'[Head(wait_list)] # Q!BlockedI
  BY <1>0, AppendHas
<1>e. /\ state' \in [Waiters -> {"Runnable", Q!BlockedI, Q!BlockedU}]
      /\ \A x \in Waiters : state'[x] = state[x] \/ state'[x] = "Runnable"
      /\ \A x \in Waiters : x # Head(wait_list) => state'[x] = state[x]
  BY ZenonT(40), <1>0
<1>1. QueueTypes' /\ LockSections' /\ KeptRunOrUninterruptible'
  <2>1. QueueTypes'
    BY <1>0, <1>a, <1>e DEF Q!WPCs
  <2>2. LockSections'
    BY ZenonT(40), <1>0 DEF LockSections
  <2>3. KeptRunOrUninterruptible'
    BY <1>0, <1>b, <1>e DEF KeptRunOrUninterruptible
  <2>. QED
    BY ZenonT(40), <2>1, <2>2, <2>3
<1>2. EventWaits' /\ BlockedIsListed' /\ FatalWoke'
  <2>1. EventWaits'
    BY ZenonT(40), <1>e DEF EventWaits
  <2>2. BlockedIsListed'
    BY <1>0, <1>c, <1>d, <1>e DEF BlockedIsListed, Waiting, Found
  <2>3. FatalWoke'
    BY <1>e DEF FatalWoke, Waiting
  <2>. QED
    BY ZenonT(40), <2>1, <2>2, <2>3
<1>3. EventWakes' /\ DeathWakes'
  <2>1. ASSUME NEW p \in Waiters, WillWake(p), state'[p] = Q!BlockedI PROVE WillWake(p)'
    BY <1>0, <1>d, <1>e, <2>1 DEF WillWake, LockSections
  <2>2. EventWakes'
    BY <1>e, <2>1 DEF EventWakes, EventWaits
  <2>3. DeathWakes'
    BY <1>e, <2>1 DEF DeathWakes, Waiting
  <2>. QED
    BY ZenonT(40), <2>2, <2>3
<1>. QED
  BY ZenonT(40), <1>1, <1>2, <1>3

\* wakeup_all puts back what it kept.
LEMMA QueueScanEnd ==
  ASSUME QueueInv, NEW w \in Wakers, Q!ScanEnd(w)
  PROVE  QueueInv'
<1>. USE NoneIsNobody DEF Q!ScanEnd, Q!Return
<1>1. QueueTypes' /\ LockSections' /\ KeptRunOrUninterruptible'
  BY EmptyHasNot DEF LockSections, KeptRunOrUninterruptible, Q!WPCs, Q!AllModes
<1>2. EventWaits' /\ BlockedIsListed' /\ FatalWoke'
  BY EmptyHasNot DEF EventWaits, BlockedIsListed, FatalWoke, Waiting, Found, LockSections
<1>3. EventWakes' /\ DeathWakes'
  BY ZenonT(40), EmptyHasNot DEF EventWakes, DeathWakes, EventWaits, Waiting, WillWake, LockSections,
     BlockedIsListed, Found, KeptRunOrUninterruptible
<1>. QED
  BY ZenonT(40), <1>1, <1>2, <1>3

HIDE DEF QueueInv, QueueTypes, Q!Goto, Q!WGoto, Q!SetState, Q!queue, Q!env, Q!signals,
         Q!waiter, Q!waker, Q!BlockedI, Q!BlockedU

\* The invariant is inductive.
LEMMA QueueNext == QueueInv /\ [Q!Next]_Q!vars => QueueInv'
<1>. SUFFICES ASSUME QueueInv, [Q!Next]_Q!vars PROVE QueueInv'
  OBVIOUS
<1>1. ASSUME NEW p \in Waiters, Q!WaiterStep(p) PROVE QueueInv'
  BY <1>1, QueueEventBegin, QueuePrepare, QueueTest, QueueTestErr, QueueResume,
     QueueFinishLock, QueueFinishWait, QueueSleep, QueueSleepUninterruptible,
     QueueSignalRead, QueueSignalFlag, QueueSignalWake, QueueHandleSignal, QueueConsume
     DEF Q!WaiterStep
<1>2. ASSUME NEW w \in Wakers, Q!WakerStep(w) PROVE QueueInv'
  BY ZenonT(40), <1>2, QueuePost, QueueMarkDead, QueueWakeNobody, QueueWakeLock, QueueWakeMismatch,
     QueueWakePop, QueueWakeTarget, QueueScanOne, QueueScanEnd DEF Q!WakerStep
<1>3. CASE UNCHANGED Q!vars
  <2>1. UNCHANGED <<wait_list, kept, dead, qlock, cond, raised, event, state, sig, fatal,
                    sender, q_pc, wpc, mode, target>>
    BY ZenonT(40), <1>3 DEF Q!vars, Q!queue, Q!env, Q!signals, Q!waiter, Q!waker
  <2>2. QueueTypes' /\ LockSections' /\ KeptRunOrUninterruptible'
    BY ZenonT(40), <2>1 DEF QueueInv, QueueTypes, LockSections, KeptRunOrUninterruptible
  <2>3. BlockedIsListed' /\ EventWaits' /\ FatalWoke'
    BY ZenonT(40), <2>1 DEF QueueInv, BlockedIsListed, EventWaits, FatalWoke, Waiting, Found
  <2>4. EventWakes' /\ DeathWakes'
    BY ZenonT(40), <2>1 DEF QueueInv, EventWakes, DeathWakes, Waiting, WillWake
  <2>. QED
    BY ZenonT(40), <2>2, <2>3, <2>4 DEF QueueInv
<1>. QED
  BY <1>1, <1>2, <1>3 DEF Q!Next

\* The invariant holds in every behaviour.
LEMMA QueueAlways == Q!Spec => []QueueInv
BY QueueInit, QueueNext, PTL DEF Q!Spec

------------------------------------------------------------------------------
\* Any number of processes and wakers: a process that sleeps on the queue is in the list,
\* in to_push_back of a wakeup_all, or popped by a wakeup that is about to wake it.
THEOREM SleepersAreListed == Q!Spec => []SleeperIsListed
<1>1. QueueInv => SleeperIsListed
  BY ZenonT(40), QueueHas DEF QueueInv, BlockedIsListed, Waiting, Found, SleeperIsListed, Q!SleeperIsListed,
     Q!Asleep, Q!Listed
<1>. QED
  BY QueueAlways, <1>1, PTL

\* Once the event has happened and the wakeup_all that follows is over, nobody sleeps on in
\* wq_wait_event_interruptible!, however its steps and theirs interleave.
THEOREM EventsAreSeen == Q!Spec => []NoSleepThroughEvent
<1>1. QueueInv => NoSleepThroughEvent
  <2>. SUFFICES ASSUME QueueInv, cond, raised \in {"all", "all_intr"},
                       \A w \in Wakers : wpc[w] = "idle",
                       NEW p \in event, Q!Asleep(p)
                PROVE  FALSE
    BY DEF NoSleepThroughEvent, Q!NoSleepThroughEvent
  <2>1. p \in Waiters
    BY ZenonT(40) DEF QueueInv, QueueTypes
  <2>2. WillWake(p)
    BY ZenonT(40), <2>1 DEF QueueInv, EventWakes, Q!Asleep
  <2>. QED
    BY ZenonT(40), <2>2 DEF WillWake
<1>. QED
  BY QueueAlways, <1>1, PTL

\* After mark_dead and the wakeup_all of the exiting owner nobody is left asleep
\* interruptibly, whether it was about to sleep or comes later.
THEOREM DeadQueuesDrain == Q!Spec => []DeadQueueDrains
<1>1. QueueInv => DeadQueueDrains
  BY DEF QueueInv, DeathWakes, Waiting, WillWake, DeadQueueDrains, Q!DeadQueueDrains
<1>. QED
  BY QueueAlways, <1>1, PTL

\* A fatal signal reaches whoever waits in the macro, wherever the three steps of
\* signal_wake_up fall among those of the waiter.
THEOREM FatalSignalsReach == Q!Spec => []FatalSignalReaches
<1>1. QueueInv => FatalSignalReaches
  BY DEF QueueInv, QueueTypes, FatalWoke, Waiting, FatalSignalReaches, Q!FatalSignalReaches,
     Q!Asleep
<1>. QED
  BY QueueAlways, <1>1, PTL

------------------------------------------------------------------------------
(* How long the list of a mutex can be, which takes counting.               *)

INSTANCE FiniteSetTheorems

\* A list without repetitions is no longer than what it is drawn from.
LEMMA DistinctBound ==
  ASSUME NEW S, IsFiniteSet(S), NEW s \in Seq(S), Distinct(s)
  PROVE  Cardinality(S) \in Nat /\ Len(s) <= Cardinality(S)
<1>1. s \in Injection(1 .. Len(s), S)
  BY DEF Injection, IsInjective, Distinct
<1>2. Cardinality(1 .. Len(s)) <= Cardinality(S)
  BY <1>1, FS_Injection
<1>3. Len(s) \in Nat /\ Cardinality(1 .. Len(s)) = IF 1 > Len(s) THEN 0 ELSE Len(s) - 1 + 1
  BY FS_Interval
<1>. QED
  BY <1>2, <1>3, FS_CardinalityType

\* Of finitely many processes: every variable keeps its type, and wait_list is never
\* longer than there are processes.
THEOREM MutexTypeCorrect ==
  ASSUME IsFiniteSet(Procs)
  PROVE  M!Spec => []M!TypeOK
<1>1. MutexInv => M!TypeOK
  <2>. SUFFICES ASSUME MutexInv PROVE M!TypeOK
    OBVIOUS
  <2>1. Len(m_wait_list) <= Cardinality(Procs)
    <3>1. Distinct(m_wait_list)
      BY DEF MutexInv, M!WaitListDistinct, Distinct
    <3>. QED
      BY <3>1, DistinctBound DEF MutexInv, MutexTypes
  <2>2. Cardinality(Procs) = M!Cardinality(Procs)
    BY DEF Cardinality, M!Cardinality
  <2>. QED
    BY <2>1, <2>2 DEF MutexInv, MutexTypes, M!TypeOK
<1>. QED
  BY MutexAlways, <1>1, PTL
=============================================================================
