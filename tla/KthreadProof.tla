----------------------------- MODULE KthreadProof -----------------------------
(***************************************************************************)
(* The reference counting and the asserts of the kernel thread mechanism   *)
(* are right for every finite set of requests, the lock of a run queue     *)
(* excludes and its owner never spins on it for any set of processors, and *)
(* every completion is taken once for any set of waiters.                  *)
(*                                                                         *)
(* The argument: a request moves through its life (in the list, in the     *)
(* hand of kthreadd, with its thread, answered) and Life says what each    *)
(* part of the state is at each point.  The raw pointer exists from the    *)
(* pop to the failure of the fork, or to the first step of the thread, and *)
(* these cannot both happen.  Awake says why a thread whose creator has    *)
(* not woken it cannot have left its sleep without should_stop.            *)
(* lock_on_who is stored only by the CPU that has the lock word, so from   *)
(* that store to the drop of the guard it names that CPU.                  *)
(***************************************************************************)
EXTENDS Kthread, CpuWaits, Integers, ListLemmas

\* TypeOK without the bounds on list and strong.
Types ==
    /\ list \in Seq(Requests)
    /\ dpc \in {"top", "fork", "error", "drop", "window", "parked"}
    /\ cur \in Requests \cup {None}
    /\ dstate \in {"Runnable", "Blocked"}
    /\ chld \in BOOLEAN
    /\ created \in [Requests -> {"NotCreated", "Created", "ErrorOccured"}]
    /\ result \in [Requests -> BOOLEAN]
    /\ unsafe \in [Requests -> BOOLEAN]
    /\ strong \in [Requests -> Int]
    /\ cpc \in [Requests -> {"new", "listed", "poll", "got", "failed",
                             "running", "stop", "stopping", "done"}]
    /\ tpc \in [Requests -> {"none", "born", "parsed", "created", "asleep", "check",
                             "run", "exit", "notify", "gone"}]
    /\ tstate \in [Requests -> {"None", "Runnable", "Blocked", "Exited"}]
    /\ should_stop \in [Requests -> BOOLEAN]
    /\ woken \in [Requests -> BOOLEAN] /\ ran \in [Requests -> BOOLEAN]
    /\ panicked \in BOOLEAN

Waiting(r) == cpc[r] \in {"listed", "poll"}

\* Where a request is, and what that says of its creator and its thread.
Life(r) ==
    /\ Has(list, r) => /\ Waiting(r) /\ cur # r /\ tpc[r] = "none"
                       /\ created[r] = "NotCreated"
    /\ cpc[r] = "new" => cur # r /\ tpc[r] = "none" /\ created[r] = "NotCreated"
    /\ cur = r /\ dpc \in {"fork", "error"} =>
         Waiting(r) /\ tpc[r] = "none" /\ created[r] = "NotCreated"
    /\ tpc[r] \in {"born", "parsed"} => Waiting(r)
    /\ created[r] = "Created" <=> tpc[r] \notin {"none", "born", "parsed"}
    /\ created[r] = "ErrorOccured" => tpc[r] = "none"
    /\ cpc[r] \in {"got", "running", "stop", "stopping", "done"} => created[r] = "Created"
    /\ cpc[r] = "failed" => created[r] = "ErrorOccured"

\* kthreadd has a request in its hand from the pop to the end of the loop body.
Hand == cur = None <=> dpc \in {"top", "window", "parked"}

\* A thread that has left its first sleep was woken by its creator, or told to
\* stop; and it has exited only at the end.
Awake(r) ==
    /\ \/ tpc[r] \in {"check", "run", "exit", "notify", "gone"}
       \/ tpc[r] = "asleep" /\ tstate[r] # "Blocked"
       => woken[r] \/ should_stop[r]
    /\ cpc[r] \in {"new", "listed", "poll", "got", "failed"} => ~woken[r] /\ ~should_stop[r]
    /\ cpc[r] \in {"stop", "stopping", "done"} => should_stop[r]
    /\ tstate[r] = "Exited" => tpc[r] \in {"notify", "gone"}
    /\ ran[r] => woken[r]

Counted(r) ==
    /\ strong[r] = B(Waiting(r)) + B(Has(list, r) \/ cur = r)
                     + B(unsafe[r]) + B(tpc[r] \in {"parsed", "created"})
    /\ unsafe[r] <=> (dpc = "fork" /\ cur = r) \/ tpc[r] = "born"

Inv ==
    /\ Types /\ Distinct(list) /\ Hand /\ ~panicked
    /\ \A r \in Requests : Life(r) /\ Awake(r) /\ Counted(r)

------------------------------------------------------------------------------
\* The calls of a creator preserve the invariant.
LEMMA CreatorInv ==
  ASSUME Inv, NEW r \in Requests, CreatorStep(r)
  PROVE  Inv'
<1>. USE DEF Inv, Types, Hand, Waiting
<1>1. CASE Push(r)
  <2>1. ~Has(list, r)
    BY ZenonT(40), <1>1 DEF Push, Creator, Life
  <2>2. list' \in Seq(Requests) /\ Distinct(list')
    BY <1>1, <2>1, AppendDistinct DEF Push
  <2>3. \A q \in Requests : Has(list', q) <=> Has(list, q) \/ q = r
    BY <1>1, AppendHas DEF Push
  <2>4. Types' /\ Distinct(list)' /\ Hand' /\ ~panicked'
    BY <1>1, <2>2 DEF Push, Creator, thread
  <2>5. ASSUME NEW q \in Requests PROVE Life(q)'
    BY <1>1, <2>3 DEF Push, Creator, thread, Life
  <2>6. ASSUME NEW q \in Requests PROVE Awake(q)'
    BY <1>1 DEF Push, Creator, thread, Awake
  <2>7. ASSUME NEW q \in Requests PROVE Counted(q)'
    <3>1. CASE q = r
      BY <1>1, <2>1, <2>3, <3>1 DEF Push, Creator, thread, Life, Counted, B
    <3>2. CASE q # r
      BY <1>1, <2>3, <3>2 DEF Push, Creator, thread, Counted, B
    <3>. QED
      BY <3>1, <3>2
  <2>. QED
    BY <2>4, <2>5, <2>6, <2>7
<1>2. CASE WakeDaemon(r)
  <2>1. Types' /\ Distinct(list)' /\ Hand' /\ ~panicked'
    BY <1>2 DEF WakeDaemon, Creator, daemon, info, thread
  <2>2. ASSUME NEW q \in Requests PROVE Life(q)'
    BY <1>2 DEF WakeDaemon, Creator, daemon, info, thread, Life
  <2>3. ASSUME NEW q \in Requests PROVE Awake(q)'
    BY <1>2 DEF WakeDaemon, Creator, daemon, info, thread, Life, Awake
  <2>4. ASSUME NEW q \in Requests PROVE Counted(q)'
    BY <1>2 DEF WakeDaemon, Creator, daemon, info, thread, Life, Counted, B
  <2>. QED
    BY <2>1, <2>2, <2>3, <2>4
<1>3. CASE PollOk(r)
  <2>1. Types' /\ Distinct(list)' /\ Hand' /\ ~panicked'
    BY <1>3 DEF PollOk, Creator, daemon, info, thread, Drop
  <2>2. ASSUME NEW q \in Requests PROVE Life(q)'
    BY <1>3 DEF PollOk, Creator, daemon, info, thread, Drop, Life
  <2>3. ASSUME NEW q \in Requests PROVE Awake(q)'
    BY <1>3 DEF PollOk, Creator, daemon, info, thread, Drop, Life, Awake
  <2>4. ASSUME NEW q \in Requests PROVE Counted(q)'
    BY <1>3 DEF PollOk, Creator, daemon, info, thread, Drop, Life, Counted, B
  <2>. QED
    BY <2>1, <2>2, <2>3, <2>4
<1>4. CASE PollError(r)
  <2>1. Types' /\ Distinct(list)' /\ Hand' /\ ~panicked'
    BY <1>4 DEF PollError, Creator, daemon, info, thread
  <2>2. ASSUME NEW q \in Requests PROVE Life(q)'
    BY <1>4 DEF PollError, Creator, daemon, info, thread, Life
  <2>3. ASSUME NEW q \in Requests PROVE Awake(q)'
    BY <1>4 DEF PollError, Creator, daemon, info, thread, Life, Awake
  <2>4. ASSUME NEW q \in Requests PROVE Counted(q)'
    BY <1>4 DEF PollError, Creator, daemon, info, thread, Life, Counted, B
  <2>. QED
    BY <2>1, <2>2, <2>3, <2>4
<1>5. CASE Run(r)
  <2>0. panicked' = FALSE
    BY <1>5 DEF Run, Creator, Awake
  <2>1. Types' /\ Distinct(list)' /\ Hand' /\ ~panicked'
    BY <1>5, <2>0 DEF Run, Creator, daemon, info, thread, WakeupThread
  <2>2. ASSUME NEW q \in Requests PROVE Life(q)'
    BY <1>5 DEF Run, Creator, daemon, info, thread, WakeupThread, Life
  <2>3. ASSUME NEW q \in Requests PROVE Awake(q)'
    BY <1>5 DEF Run, Creator, daemon, info, thread, WakeupThread, Life, Awake
  <2>4. ASSUME NEW q \in Requests PROVE Counted(q)'
    BY <1>5 DEF Run, Creator, daemon, info, thread, WakeupThread, Life, Counted, B
  <2>. QED
    BY <2>1, <2>2, <2>3, <2>4
<1>6. CASE StopFlag(r)
  <2>1. Types' /\ Distinct(list)' /\ Hand' /\ ~panicked'
    BY <1>6 DEF StopFlag, Creator, daemon, info, thread
  <2>2. ASSUME NEW q \in Requests PROVE Life(q)'
    BY <1>6 DEF StopFlag, Creator, daemon, info, thread, Life
  <2>3. ASSUME NEW q \in Requests PROVE Awake(q)'
    BY <1>6 DEF StopFlag, Creator, daemon, info, thread, Life, Awake
  <2>4. ASSUME NEW q \in Requests PROVE Counted(q)'
    BY <1>6 DEF StopFlag, Creator, daemon, info, thread, Life, Counted, B
  <2>. QED
    BY <2>1, <2>2, <2>3, <2>4
<1>7. CASE StopWake(r)
  <2>1. Types' /\ Distinct(list)' /\ Hand' /\ ~panicked'
    BY <1>7 DEF StopWake, Creator, daemon, info, thread, WakeupThread
  <2>2. ASSUME NEW q \in Requests PROVE Life(q)'
    BY <1>7 DEF StopWake, Creator, daemon, info, thread, WakeupThread, Life
  <2>3. ASSUME NEW q \in Requests PROVE Awake(q)'
    BY <1>7 DEF StopWake, Creator, daemon, info, thread, WakeupThread, Life, Awake
  <2>4. ASSUME NEW q \in Requests PROVE Counted(q)'
    BY <1>7 DEF StopWake, Creator, daemon, info, thread, WakeupThread, Life, Counted, B
  <2>. QED
    BY <2>1, <2>2, <2>3, <2>4
<1>8. CASE StopReturn(r)
  <2>1. Types' /\ Distinct(list)' /\ Hand' /\ ~panicked'
    BY <1>8 DEF StopReturn, Creator, daemon, info, thread
  <2>2. ASSUME NEW q \in Requests PROVE Life(q)'
    BY <1>8 DEF StopReturn, Creator, daemon, info, thread, Life
  <2>3. ASSUME NEW q \in Requests PROVE Awake(q)'
    BY <1>8 DEF StopReturn, Creator, daemon, info, thread, Life, Awake
  <2>4. ASSUME NEW q \in Requests PROVE Counted(q)'
    BY <1>8 DEF StopReturn, Creator, daemon, info, thread, Life, Counted, B
  <2>. QED
    BY <2>1, <2>2, <2>3, <2>4
<1>. QED
  BY ZenonT(40), <1>1, <1>2, <1>3, <1>4, <1>5, <1>6, <1>7, <1>8 DEF CreatorStep

\* So does kthreadd.
LEMMA DaemonInv ==
  ASSUME Inv, DaemonStep
  PROVE  Inv'
<1>. USE DEF Inv, Types, Hand, Waiting
<1>1. CASE Take
  <2>. DEFINE h == Head(list)
  <2>1. h \in Requests /\ list' \in Seq(Requests) /\ Distinct(list')
    BY <1>1, TailDistinct DEF Take
  <2>2. Has(list, h) /\ \A q \in Requests : Has(list', q) <=> Has(list, q) /\ q # h
    BY <1>1, TailDistinct, TailKeeps DEF Take
  <2>3. Waiting(h) /\ tpc[h] = "none" /\ created[h] = "NotCreated"
    BY <2>1, <2>2 DEF Life
  <2>4. unsafe[h] = FALSE
    BY <1>1, <2>1, <2>3 DEF Take, Daemon, Counted
  <2>. HIDE DEF h
  <2>5. /\ dpc = "top" /\ dpc' = "fork" /\ cur' = h /\ panicked' = FALSE /\ cur = None
        /\ unsafe' = [unsafe EXCEPT ![h] = TRUE]
        /\ strong' = [strong EXCEPT ![h] = @ + 1]
        /\ UNCHANGED <<dstate, chld, created, result, thread, cpc, woken>>
    BY <1>1, <2>4 DEF Take, Daemon, h
  <2>6. Types' /\ Distinct(list)' /\ Hand' /\ ~panicked'
    <3>1. unsafe' \in [Requests -> BOOLEAN]
      BY <2>1, <2>5
    <3>2. strong' \in [Requests -> Int]
      BY <2>1, <2>5
    <3>3. h # None
      BY <2>1, KthreadAssumption
    <3>4. Types'
      BY ZenonT(40), <2>1, <2>5, <3>1, <3>2 DEF thread
    <3>5. Hand'
      BY <2>5, <3>3
    <3>. QED
      BY <2>1, <2>5, <3>4, <3>5
  <2>7. ASSUME NEW q \in Requests PROVE Life(q)'
    BY <2>1, <2>2, <2>3, <2>5 DEF thread, Life
  <2>8. ASSUME NEW q \in Requests PROVE Awake(q)'
    BY <2>5 DEF thread, Awake
  <2>9. ASSUME NEW q \in Requests PROVE Counted(q)'
    <3>1. CASE q = h
      <4>1. strong[h] = 2
        <5>1. /\ strong[h] = B(Waiting(h)) + B(Has(list, h) \/ cur = h)
                               + B(unsafe[h]) + B(tpc[h] \in {"parsed", "created"})
          BY <2>1 DEF Counted
        <5>2. B(Waiting(h)) = 1 /\ B(Has(list, h) \/ cur = h) = 1
          BY <2>2, <2>3 DEF B
        <5>3. B(unsafe[h]) = 0 /\ B(tpc[h] \in {"parsed", "created"}) = 0
          BY <2>3, <2>4 DEF B
        <5>. QED
          BY <5>1, <5>2, <5>3
      <4>2. strong'[h] = 3 /\ unsafe'[h] = TRUE /\ ~Has(list', h)
        BY <2>1, <2>2, <2>5, <4>1
      <4>. QED
        BY <2>1, <2>3, <2>5, <3>1, <4>2 DEF thread, Counted, B
    <3>2. CASE q # h
      BY <2>1, <2>2, <2>5, <3>2, KthreadAssumption DEF thread, Counted, B
    <3>. QED
      BY <3>1, <3>2
  <2>. QED
    BY <2>6, <2>7, <2>8, <2>9
<1>2. CASE ForkOk
  <2>1. Types' /\ Distinct(list)' /\ Hand' /\ ~panicked'
    BY <1>2 DEF ForkOk, Daemon, info, thread
  <2>2. ASSUME NEW q \in Requests PROVE Life(q)'
    BY <1>2 DEF ForkOk, Daemon, info, thread, Life
  <2>3. ASSUME NEW q \in Requests PROVE Awake(q)'
    BY <1>2 DEF ForkOk, Daemon, info, thread, Life, Awake
  <2>4. ASSUME NEW q \in Requests PROVE Counted(q)'
    BY <1>2 DEF ForkOk, Daemon, info, thread, Life, Counted, B
  <2>. QED
    BY <2>1, <2>2, <2>3, <2>4
<1>3. CASE ForkErr
  <2>0. panicked' = FALSE
    BY <1>3 DEF ForkErr, Daemon, Counted
  <2>1. Types' /\ Distinct(list)' /\ Hand' /\ ~panicked'
    BY <1>3, <2>0 DEF ForkErr, Daemon, info, thread, Drop
  <2>2. ASSUME NEW q \in Requests PROVE Life(q)'
    BY <1>3 DEF ForkErr, Daemon, info, thread, Drop, Life
  <2>3. ASSUME NEW q \in Requests PROVE Awake(q)'
    BY <1>3 DEF ForkErr, Daemon, info, thread, Drop, Life, Awake
  <2>4. ASSUME NEW q \in Requests PROVE Counted(q)'
    BY <1>3 DEF ForkErr, Daemon, info, thread, Drop, Life, Counted, B
  <2>. QED
    BY <2>1, <2>2, <2>3, <2>4
<1>4. CASE StoreError
  <2>1. Types' /\ Distinct(list)' /\ Hand' /\ ~panicked'
    BY <1>4 DEF StoreError, Daemon, info, thread
  <2>2. ASSUME NEW q \in Requests PROVE Life(q)'
    BY <1>4 DEF StoreError, Daemon, info, thread, Life
  <2>3. ASSUME NEW q \in Requests PROVE Awake(q)'
    BY <1>4 DEF StoreError, Daemon, info, thread, Life, Awake
  <2>4. ASSUME NEW q \in Requests PROVE Counted(q)'
    BY <1>4 DEF StoreError, Daemon, info, thread, Life, Counted, B
  <2>. QED
    BY <2>1, <2>2, <2>3, <2>4
<1>5. CASE DropRequest
  <2>1. Types' /\ Distinct(list)' /\ Hand' /\ ~panicked'
    BY <1>5, KthreadAssumption DEF DropRequest, Daemon, info, thread, Drop
  <2>2. ASSUME NEW q \in Requests PROVE Life(q)'
    BY <1>5, KthreadAssumption DEF DropRequest, Daemon, info, thread, Drop, Life
  <2>3. ASSUME NEW q \in Requests PROVE Awake(q)'
    BY <1>5, KthreadAssumption DEF DropRequest, Daemon, info, thread, Drop, Life, Awake
  <2>4. ASSUME NEW q \in Requests PROVE Counted(q)'
    BY <1>5, KthreadAssumption DEF DropRequest, Daemon, info, thread, Drop, Life, Counted, B
  <2>. QED
    BY <2>1, <2>2, <2>3, <2>4
<1>6. CASE Emptied
  <2>1. Types' /\ Distinct(list)' /\ Hand' /\ ~panicked'
    BY <1>6 DEF Emptied, Daemon, info, thread
  <2>2. ASSUME NEW q \in Requests PROVE Life(q)'
    BY <1>6 DEF Emptied, Daemon, info, thread, Life
  <2>3. ASSUME NEW q \in Requests PROVE Awake(q)'
    BY <1>6 DEF Emptied, Daemon, info, thread, Life, Awake
  <2>4. ASSUME NEW q \in Requests PROVE Counted(q)'
    BY <1>6 DEF Emptied, Daemon, info, thread, Life, Counted, B
  <2>. QED
    BY <2>1, <2>2, <2>3, <2>4
<1>7. CASE DaemonSleep
  <2>1. Types' /\ Distinct(list)' /\ Hand' /\ ~panicked'
    BY <1>7 DEF DaemonSleep, Daemon, info, thread
  <2>2. ASSUME NEW q \in Requests PROVE Life(q)'
    BY <1>7 DEF DaemonSleep, Daemon, info, thread, Life
  <2>3. ASSUME NEW q \in Requests PROVE Awake(q)'
    BY <1>7 DEF DaemonSleep, Daemon, info, thread, Life, Awake
  <2>4. ASSUME NEW q \in Requests PROVE Counted(q)'
    BY <1>7 DEF DaemonSleep, Daemon, info, thread, Life, Counted, B
  <2>. QED
    BY <2>1, <2>2, <2>3, <2>4
<1>8. CASE DaemonResume
  <2>1. Types' /\ Distinct(list)' /\ Hand' /\ ~panicked'
    BY <1>8 DEF DaemonResume, Daemon, info, thread
  <2>2. ASSUME NEW q \in Requests PROVE Life(q)'
    BY ZenonT(40), <1>8 DEF DaemonResume, Daemon, info, thread, Life
  <2>3. ASSUME NEW q \in Requests PROVE Awake(q)'
    BY <1>8 DEF DaemonResume, Daemon, info, thread, Life, Awake
  <2>4. ASSUME NEW q \in Requests PROVE Counted(q)'
    BY <1>8 DEF DaemonResume, Daemon, info, thread, Life, Counted, B
  <2>. QED
    BY <2>1, <2>2, <2>3, <2>4
<1>. QED
  BY ZenonT(40), <1>1, <1>2, <1>3, <1>4, <1>5, <1>6, <1>7, <1>8 DEF DaemonStep

\* So does a thread.
LEMMA ThreadInv ==
  ASSUME Inv, NEW r \in Requests, ThreadStep(r)
  PROVE  Inv'
<1>. USE DEF Inv, Types, Hand, Waiting
<1>1. CASE Parse(r)
  <2>0. panicked' = FALSE
    BY <1>1 DEF Parse, Thread, Counted
  <2>1. Types' /\ Distinct(list)' /\ Hand' /\ ~panicked'
    BY <1>1, <2>0 DEF Parse, Thread, daemon, info
  <2>2. ASSUME NEW q \in Requests PROVE Life(q)'
    BY <1>1 DEF Parse, Thread, daemon, info, Life
  <2>3. ASSUME NEW q \in Requests PROVE Awake(q)'
    BY <1>1 DEF Parse, Thread, daemon, info, Life, Awake
  <2>4. ASSUME NEW q \in Requests PROVE Counted(q)'
    BY <1>1 DEF Parse, Thread, daemon, info, Life, Counted, B
  <2>. QED
    BY <2>1, <2>2, <2>3, <2>4
<1>2. CASE SetCreateOk(r)
  <2>1. Types' /\ Distinct(list)' /\ Hand' /\ ~panicked'
    BY <1>2 DEF SetCreateOk, Thread, daemon, info
  <2>2. ASSUME NEW q \in Requests PROVE Life(q)'
    BY <1>2 DEF SetCreateOk, Thread, daemon, info, Life
  <2>3. ASSUME NEW q \in Requests PROVE Awake(q)'
    BY <1>2 DEF SetCreateOk, Thread, daemon, info, Life, Awake
  <2>4. ASSUME NEW q \in Requests PROVE Counted(q)'
    BY <1>2 DEF SetCreateOk, Thread, daemon, info, Life, Counted, B
  <2>. QED
    BY <2>1, <2>2, <2>3, <2>4
<1>3. CASE ThreadSleep(r)
  <2>1. Types' /\ Distinct(list)' /\ Hand' /\ ~panicked'
    BY <1>3 DEF ThreadSleep, Thread, daemon, info, Drop
  <2>2. ASSUME NEW q \in Requests PROVE Life(q)'
    BY <1>3 DEF ThreadSleep, Thread, daemon, info, Drop, Life
  <2>3. ASSUME NEW q \in Requests PROVE Awake(q)'
    BY <1>3 DEF ThreadSleep, Thread, daemon, info, Drop, Life, Awake
  <2>4. ASSUME NEW q \in Requests PROVE Counted(q)'
    BY <1>3 DEF ThreadSleep, Thread, daemon, info, Drop, Life, Counted, B
  <2>. QED
    BY <2>1, <2>2, <2>3, <2>4
<1>4. CASE ThreadResume(r)
  <2>1. Types' /\ Distinct(list)' /\ Hand' /\ ~panicked'
    BY ZenonT(40), <1>4 DEF ThreadResume, Thread, daemon, info
  <2>2. ASSUME NEW q \in Requests PROVE Life(q)'
    BY ZenonT(40), <1>4 DEF ThreadResume, Thread, daemon, info, Life
  <2>3. ASSUME NEW q \in Requests PROVE Awake(q)'
    BY <1>4 DEF ThreadResume, Thread, daemon, info, Life, Awake
  <2>4. ASSUME NEW q \in Requests PROVE Counted(q)'
    BY <1>4 DEF ThreadResume, Thread, daemon, info, Life, Counted, B
  <2>. QED
    BY <2>1, <2>2, <2>3, <2>4
<1>5. CASE CheckStop(r)
  <2>1. Types' /\ Distinct(list)' /\ Hand' /\ ~panicked'
    BY ZenonT(40), <1>5 DEF CheckStop, Thread, daemon, info
  <2>2. ASSUME NEW q \in Requests PROVE Life(q)'
    BY <1>5 DEF CheckStop, Thread, daemon, info, Life
  <2>3. ASSUME NEW q \in Requests PROVE Awake(q)'
    BY <1>5 DEF CheckStop, Thread, daemon, info, Life, Awake
  <2>4. ASSUME NEW q \in Requests PROVE Counted(q)'
    BY <1>5 DEF CheckStop, Thread, daemon, info, Life, Counted, B
  <2>. QED
    BY <2>1, <2>2, <2>3, <2>4
<1>6. CASE ClosureReturns(r)
  <2>1. Types' /\ Distinct(list)' /\ Hand' /\ ~panicked'
    BY <1>6 DEF ClosureReturns, Thread, daemon, info
  <2>2. ASSUME NEW q \in Requests PROVE Life(q)'
    BY <1>6 DEF ClosureReturns, Thread, daemon, info, Life
  <2>3. ASSUME NEW q \in Requests PROVE Awake(q)'
    BY <1>6 DEF ClosureReturns, Thread, daemon, info, Life, Awake
  <2>4. ASSUME NEW q \in Requests PROVE Counted(q)'
    BY <1>6 DEF ClosureReturns, Thread, daemon, info, Life, Counted, B
  <2>. QED
    BY <2>1, <2>2, <2>3, <2>4
<1>7. CASE Exit(r)
  <2>1. Types' /\ Distinct(list)' /\ Hand' /\ ~panicked'
    BY <1>7 DEF Exit, Thread, daemon, info
  <2>2. ASSUME NEW q \in Requests PROVE Life(q)'
    BY <1>7 DEF Exit, Thread, daemon, info, Life
  <2>3. ASSUME NEW q \in Requests PROVE Awake(q)'
    BY <1>7 DEF Exit, Thread, daemon, info, Life, Awake
  <2>4. ASSUME NEW q \in Requests PROVE Counted(q)'
    BY <1>7 DEF Exit, Thread, daemon, info, Life, Counted, B
  <2>. QED
    BY <2>1, <2>2, <2>3, <2>4
<1>8. CASE ExitNotify(r)
  <2>1. Types' /\ Distinct(list)' /\ Hand' /\ ~panicked'
    BY <1>8 DEF ExitNotify, Thread, daemon, info
  <2>2. ASSUME NEW q \in Requests PROVE Life(q)'
    BY <1>8 DEF ExitNotify, Thread, daemon, info, Life
  <2>3. ASSUME NEW q \in Requests PROVE Awake(q)'
    BY <1>8 DEF ExitNotify, Thread, daemon, info, Life, Awake
  <2>4. ASSUME NEW q \in Requests PROVE Counted(q)'
    BY <1>8 DEF ExitNotify, Thread, daemon, info, Life, Counted, B
  <2>. QED
    BY <2>1, <2>2, <2>3, <2>4
<1>. QED
  BY ZenonT(40), <1>1, <1>2, <1>3, <1>4, <1>5, <1>6, <1>7, <1>8 DEF ThreadStep

\* Nothing has been requested when kthreadd starts.
LEMMA InitInv == Init => Inv
<1>. SUFFICES ASSUME Init PROVE Inv
  OBVIOUS
<1>1. list = <<>> /\ Distinct(list) /\ \A r : ~Has(list, r)
  BY DEF Init, Distinct, Has
<1>2. Types
  <2>1. list \in Seq(Requests) /\ dpc = "top" /\ cur = None
    BY <1>1 DEF Init
  <2>2. /\ dstate \in {"Runnable", "Blocked"} /\ chld \in BOOLEAN /\ panicked \in BOOLEAN
        /\ created \in [Requests -> {"NotCreated", "Created", "ErrorOccured"}]
    BY ZenonT(40) DEF Init
  <2>3. /\ result \in [Requests -> BOOLEAN] /\ unsafe \in [Requests -> BOOLEAN]
        /\ should_stop \in [Requests -> BOOLEAN]
        /\ woken \in [Requests -> BOOLEAN] /\ ran \in [Requests -> BOOLEAN]
    BY DEF Init
  <2>4. strong \in [Requests -> Int]
    BY DEF Init
  <2>5. /\ cpc \in [Requests -> {"new"}] /\ tpc \in [Requests -> {"none"}]
        /\ tstate \in [Requests -> {"None"}]
    BY DEF Init
  <2>. QED
    BY <2>1, <2>2, <2>3, <2>4, <2>5 DEF Types
<1>3. Hand /\ ~panicked
  BY DEF Init, Hand
<1>4. ASSUME NEW r \in Requests PROVE Life(r) /\ Awake(r) /\ Counted(r)
  <2>1. /\ cpc[r] = "new" /\ tpc[r] = "none" /\ tstate[r] = "None" /\ cur = None
        /\ created[r] = "NotCreated" /\ strong[r] = 0 /\ dpc = "top"
    BY DEF Init
  <2>2. unsafe[r] = FALSE /\ woken[r] = FALSE /\ should_stop[r] = FALSE /\ ran[r] = FALSE
    BY DEF Init
  <2>3. cur # r
    BY <2>1, KthreadAssumption
  <2>4. Life(r)
    BY <1>1, <2>1, <2>3 DEF Life
  <2>5. Awake(r)
    BY <2>1, <2>2 DEF Awake
  <2>6. Counted(r)
    BY <1>1, <2>1, <2>2, <2>3 DEF Counted, Waiting, B
  <2>. QED
    BY <2>4, <2>5, <2>6
<1>. QED
  BY <1>1, <1>2, <1>3, <1>4 DEF Inv

\* The invariant is preserved by every step.
LEMMA NextInv == Inv /\ [Next]_vars => Inv'
<1>. SUFFICES ASSUME Inv, [Next]_vars PROVE Inv'
  OBVIOUS
<1>1. CASE DaemonStep
  BY <1>1, DaemonInv
<1>2. CASE \E r \in Requests : CreatorStep(r) \/ ThreadStep(r)
  BY <1>2, CreatorInv, ThreadInv
<1>3. CASE UNCHANGED vars
  <2>. USE <1>3 DEF vars, daemon, info, thread, Inv
  <2>1. Types'
    BY ZenonT(40) DEF Types
  <2>2. Distinct(list)' /\ Hand' /\ ~panicked'
    BY ZenonT(40) DEF Hand
  <2>3. ASSUME NEW r \in Requests PROVE Life(r)' /\ Awake(r)' /\ Counted(r)'
    BY ZenonT(40) DEF Life, Awake, Counted, Waiting
  <2>. QED
    BY ZenonT(40), <2>1, <2>2, <2>3
<1>. QED
  BY <1>1, <1>2, <1>3 DEF Next

\* The invariant holds throughout.
LEMMA Always == Spec => []Inv
  BY InitInv, NextInv, PTL DEF Spec

------------------------------------------------------------------------------
\* Every reference to a request is accounted for: the hand-counted raw pointer
\* of generate_unsafe_arc_ptr is always taken back by exactly one of the failed
\* fork and the new thread, and poll_result never finds it after an error.
THEOREM ReferencesExact == Spec => []RawArcAccounted
<1>1. Inv => RawArcAccounted
  <2>. SUFFICES ASSUME Inv PROVE RawArcAccounted
    OBVIOUS
  <2>1. \A r \in Requests : Listed(r) <=> Has(list, r)
    BY DEF Listed, Has
  <2>2. \A r \in Requests : Counted(r)
    BY DEF Inv
  <2>. QED
    BY ZenonT(40), <2>1, <2>2 DEF RawArcAccounted, Counted, Waiting
<1>. QED
  BY <1>1, Always, PTL

\* The asserts of generate_unsafe_arc_ptr and parse_unsafe_arc_ptr hold, and
\* create_and_run never finds its thread exited.
THEOREM NoAssertFails == Spec => []AssertsHold
<1>1. Inv => AssertsHold
  BY DEF Inv, AssertsHold
<1>. QED
  BY <1>1, Always, PTL

\* A closure runs only after its creator has woken the thread; a stop() that
\* wakes it first does not make it run.
THEOREM RunsWhenWoken == Spec => []RunsOnlyIfWoken
<1>1. Inv => RunsOnlyIfWoken
  BY DEF Inv, Awake, RunsOnlyIfWoken
<1>. QED
  BY <1>1, Always, PTL

------------------------------------------------------------------------------
(* How long the list can be, which takes counting.                          *)

------------------------------------------------------------------------------
(* The lock of a run queue.                                                 *)

\* The owner word names the CPU that has the guard as soon as it has stored it,
\* whatever other CPUs do: nobody stores it without the lock.
OwnerKnown ==
    \A c \in Cpus : pc[c] \in {"guard", "again", "both"} => lock_on_who = c

LockInv == L!TypeOK /\ L!GuardIsTheLock /\ OwnerKnown /\ L!NeverSpinsOnItself

\* A new run queue is unlocked and nobody is inside.
LEMMA LockInit == L!Init => LockInv
  BY ZenonT(40) DEF L!Init, LockInv, L!TypeOK, L!GuardIsTheLock, OwnerKnown, L!NeverSpinsOnItself,
      L!HasGuard, L!PCs

\* One step of one CPU keeps the invariant.
LEMMA LockNext == LockInv /\ [L!Next]_L!vars => LockInv'
<1>1. CASE UNCHANGED L!vars
  BY <1>1 DEF LockInv, L!TypeOK, L!GuardIsTheLock, OwnerKnown, L!NeverSpinsOnItself,
              L!HasGuard, L!vars
<1>2. SUFFICES ASSUME LockInv, NEW c \in Cpus, L!Step(c) PROVE LockInv'
  BY <1>1, <1>2 DEF L!Next
<1> USE DEF L!Goto
<1>3. L!TypeOK'
  BY ZenonT(40), <1>2 DEF LockInv, L!TypeOK, L!PCs, L!Step, L!IsLocked, L!OnWho, L!Lock, L!StoreWho, L!Nested,
              L!NestedOnWho, L!NestedDrop, L!DropBare, L!DropGuard
<1>4. pc \in [Cpus -> L!PCs]
  BY <1>2 DEF LockInv, L!TypeOK
<1> USE <1>4 DEF LockInv, L!GuardIsTheLock, OwnerKnown, L!NeverSpinsOnItself, L!HasGuard
<1>5. CASE L!IsLocked(c) \/ L!OnWho(c) \/ L!DropBare(c)
  BY <1>2, <1>3, <1>5 DEF L!IsLocked, L!OnWho, L!DropBare
<1>6. CASE L!Lock(c)
  BY <1>2, <1>3, <1>6 DEF L!Lock
<1>7. CASE L!StoreWho(c)
  BY <1>2, <1>3, <1>7 DEF L!StoreWho
<1>8. CASE L!Nested(c) \/ L!NestedOnWho(c) \/ L!NestedDrop(c)
  BY <1>2, <1>3, <1>8 DEF L!Nested, L!NestedOnWho, L!NestedDrop
<1>9. CASE L!DropGuard(c)
  BY <1>2, <1>3, <1>9 DEF L!DropGuard
<1> QED
  BY ZenonT(40), <1>2, <1>5, <1>6, <1>7, <1>8, <1>9 DEF L!Step

\* The lock word is set exactly while one CPU has the guard of self_lock, and the
\* None that a nested or a mistaken call returns never releases it, for any
\* number of CPUs.
THEOREM LockIsTheGuard == L!Spec => []L!GuardIsTheLock
<1>1. LockInv => L!GuardIsTheLock
  BY DEF LockInv
<1>. QED
  BY <1>1, LockInit, LockNext, PTL DEF L!Spec

\* A CPU that has the guard never spins in a nested self_lock on its own lock,
\* although lock_on_who is read and written outside any lock.
THEOREM NestedNeverSpins == L!Spec => []L!NeverSpinsOnItself
<1>1. LockInv => L!NeverSpinsOnItself
  BY DEF LockInv
<1>. QED
  BY <1>1, LockInit, LockNext, PTL DEF L!Spec

------------------------------------------------------------------------------
(* Completions.                                                             *)

\* DoneAccounted, and the types it needs.
DoneInv ==
    /\ done \in 0 .. CompleteAll /\ taken \in Nat /\ given \in Nat
    /\ C!DoneAccounted

\* A wait that takes a completion, and one that takes none.
LEMMA DoneWaits ==
  ASSUME DoneInv, NEW w \in Waiters,
         C!Wait(w) \/ C!ScheduleTimeout(w) \/ C!Resume(w) \/ C!Signal(w)
         \/ \E n \in 1 .. MaxWaits : C!Fire(w, n)
  PROVE  DoneInv'
<1>. USE CompleteAllIsNat DEF DoneInv, C!DoneAccounted
<1>1. ASSUME UNCHANGED <<done, taken, given>> PROVE DoneInv'
  BY <1>1
<1>2. ASSUME done # 0, C!Take(w), UNCHANGED given PROVE DoneInv'
  BY <1>2 DEF C!Take
<1>3. CASE C!Wait(w)
  BY <1>1, <1>2, <1>3 DEF C!Wait, C!Enlist
<1>4. CASE C!Resume(w)
  BY ZenonT(40), <1>1, <1>2, <1>4 DEF C!Resume, C!Enlist
<1>5. CASE C!ScheduleTimeout(w) \/ C!Signal(w) \/ \E n \in 1 .. MaxWaits : C!Fire(w, n)
  BY <1>1, <1>5 DEF C!ScheduleTimeout, C!Signal, C!Fire
<1>. QED
  BY <1>3, <1>4, <1>5

\* Every completion is taken once and a wait that has timed out takes none, for any set of
\* waiters and whatever COMPLETE_ALL is: done is what was given and not taken.
THEOREM CompletionsAreTakenOnce == C!Spec => []DoneAccounted
<1>. USE CompleteAllIsNat DEF DoneInv, C!DoneAccounted
<1>1. C!Init => DoneInv
  BY DEF C!Init
<1>2. DoneInv /\ [C!Next]_C!vars => DoneInv'
  <2>. SUFFICES ASSUME DoneInv, [C!Next]_C!vars PROVE DoneInv'
    OBVIOUS
  <2>1. CASE UNCHANGED C!vars
    BY <2>1 DEF C!vars
  <2>2. CASE C!complete
    BY <2>2 DEF C!complete
  <2>3. CASE C!complete_all
    BY <2>3 DEF C!complete_all
  <2>. QED
    BY <2>1, <2>2, <2>3, DoneWaits DEF C!Next
<1>3. DoneInv => DoneAccounted
  BY DEF DoneAccounted
<1>. QED
  BY <1>1, <1>2, <1>3, PTL DEF C!Spec

INSTANCE FiniteSetTheorems

\* A list without repetitions is no longer than what it is drawn from.
LEMMA DistinctBound ==
  ASSUME NEW S, IsFiniteSet(S), NEW s \in Seq(S), Distinct(s)
  PROVE  Cardinality(S) \in Nat /\ Len(s) <= Cardinality(S)
<1>1. s \in Injection(1 .. Len(s), S)
  BY DEF Injection, IsInjective, Distinct
<1>2. Cardinality(1 .. Len(s)) <= Cardinality(S)
  BY ZenonT(40), <1>1, FS_Injection
<1>3. Len(s) \in Nat /\ Cardinality(1 .. Len(s)) = IF 1 > Len(s) THEN 0 ELSE Len(s) - 1 + 1
  BY FS_Interval
<1>. QED
  BY <1>2, <1>3, FS_CardinalityType

\* Type correctness; KTHREAD_CREATE_LIST holds a request once, and the info of
\* a request has four owners at most.
THEOREM TypeCorrect == Spec => []TypeOK
<1>1. Inv => TypeOK
  <2>. SUFFICES ASSUME Inv PROVE TypeOK
    OBVIOUS
  <2>1. Len(list) <= Cardinality(Requests)
    BY ZenonT(40), KthreadAssumption, DistinctBound DEF Inv, Types
  <2>2. ASSUME NEW r \in Requests PROVE strong[r] \in 0 .. 4
    <3>1. \A b : B(b) \in {0, 1}
      BY DEF B
    <3>2. strong[r] = B(Waiting(r)) + B(Has(list, r) \/ cur = r)
                        + B(unsafe[r]) + B(tpc[r] \in {"parsed", "created"})
      BY DEF Inv, Counted
    <3>. QED
      BY <3>1, <3>2
  <2>3. strong \in [Requests -> 0 .. 4]
    BY <2>2 DEF Inv, Types
  <2>. QED
    BY <2>1, <2>3 DEF Inv, Types, TypeOK
<1>. QED
  BY <1>1, Always, PTL
==============================================================================
