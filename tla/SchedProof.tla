------------------------------ MODULE SchedProof ------------------------------
(***************************************************************************)
(* The run queues stay exact, for every finite set of processes and every  *)
(* set of processors.                                                      *)
(*                                                                         *)
(* The argument: each queue operation keeps its half of QueueExact, and    *)
(* the guard of the run-queue lock is in the frame of the idle task        *)
(* exactly while idle is switched out.                                     *)
(***************************************************************************)
EXTENDS Sched, TLAPS

\* The guard of the run-queue lock is kept by the suspended idle task.
FramesExact ==
    /\ \A c \in Cpus : frame[c] = "guard" <=> cur[c] # c
    /\ \A p \in Procs : frame[p] # "guard"

\* A CPU that is not online wakes nobody.
OfflineQuiet == \A c \in Cpus : c \notin online => wk[c] = None

\* A process that exit has marked stays Exited.
Exiting(p) == pc[p] \in {"exiting", "dequeued", "gone"}
ExitedStays == \A p \in Procs : Exiting(p) => state[p] = "Exited"

\* A CPU runs its own idle task or a process.
CurLocal == \A c, d \in Cpus : cur[c] = d => d = c

\* What holds on any machine.
Inv == TypeOK /\ QueueExact /\ FramesExact /\ LockHeldOutsideIdle
       /\ CurLocal /\ OfflineQuiet /\ ExitedStays

------------------------------------------------------------------------------
(* The counter and the context switch.                                      *)

\* nr_running stays in its word.
LEMMA NrInWord ==
  ASSUME NEW n \in 0 .. NR_WORD - 1
  PROVE  /\ SubNrRunning(n) \in 0 .. NR_WORD - 1
         /\ (n + 1) % NR_WORD \in 0 .. NR_WORD - 1
         /\ n > 0 => SubNrRunning(n) = n - 1
         /\ n + 1 < NR_WORD => (n + 1) % NR_WORD = n + 1
<1>1. NR_WORD \in Nat /\ NR_WORD > 0
  BY SchedAssumption
<1>2. /\ SubNrRunning(n) \in 0 .. NR_WORD - 1
      /\ (n + 1) % NR_WORD \in 0 .. NR_WORD - 1
  BY <1>1 DEF SubNrRunning
<1>3. ASSUME n > 0 PROVE SubNrRunning(n) = n - 1
  BY <1>1, <1>3 DEF SubNrRunning
<1>4. ASSUME n + 1 < NR_WORD PROVE (n + 1) % NR_WORD = n + 1
  BY <1>1, <1>4
<1>. QED
  BY <1>2, <1>3, <1>4

\* What __schedule leaves behind: the next task comes from the tree or is idle,
\* the previous one is off the CPU and, unless it was dequeued, in the tree.
LEMMA ScheduleEffect ==
  ASSUME Inv, NEW c \in Cpus, NEW b \in BOOLEAN, Schedule(c, b)
  PROVE  \E next \in tree[c] \cup {c}, r \in 0 .. NR_WORD - 1, off \in BOOLEAN :
           /\ off = (~b /\ cur[c] # c /\ sleep[cur[c]])
           /\ r = IF off THEN SubNrRunning(nr[c]) ELSE nr[c]
           /\ onRq' = IF off THEN [onRq EXCEPT ![cur[c]] = FALSE] ELSE onRq
           /\ nr' = [nr EXCEPT ![c] = r]
           /\ tree' = [tree EXCEPT ![c] = (@ \ {next}) \cup
                         (IF cur[c] # c /\ onRq[cur[c]] /\ ~off THEN {cur[c]} ELSE {})]
           /\ SwitchProcess(c, next)
<1>. DEFINE off == ~b /\ cur[c] # c /\ sleep[cur[c]]
            r == IF off THEN SubNrRunning(nr[c]) ELSE nr[c]
            queued == cur[c] # c /\ onRq[cur[c]] /\ ~off
<1>1. PICK next \in PickNext(c, r) :
        /\ tree' = [tree EXCEPT ![c] = (@ \ {next}) \cup PutPrev(c, queued)]
        /\ SwitchProcess(c, next)
  BY ZenonT(40) DEF Schedule
<1>2. next \in tree[c] \cup {c}
  BY <1>1 DEF PickNext
<1>3. nr[c] \in 0 .. NR_WORD - 1
  BY DEF Inv, TypeOK
<1>4. r \in 0 .. NR_WORD - 1
  BY <1>3, NrInWord
<1>5. off \in BOOLEAN
  OBVIOUS
<1>6. /\ onRq' = IF off THEN [onRq EXCEPT ![cur[c]] = FALSE] ELSE onRq
      /\ nr' = [nr EXCEPT ![c] = r]
  BY DEF Schedule
<1>7. tree' = [tree EXCEPT ![c] = (@ \ {next}) \cup
                 (IF cur[c] # c /\ onRq[cur[c]] /\ ~off THEN {cur[c]} ELSE {})]
  BY <1>1 DEF PutPrev
<1>. HIDE DEF off, r
<1>8. off = (~b /\ cur[c] # c /\ sleep[cur[c]])
  BY DEF off
<1>9. r = IF off THEN SubNrRunning(nr[c]) ELSE nr[c]
  BY DEF r
<1>. QED
  BY ZenonT(40), <1>1, <1>2, <1>4, <1>5, <1>6, <1>7, <1>8, <1>9

\* The variables __schedule writes keep their types.
SwitchTypes ==
    /\ onRq \in [Procs -> BOOLEAN]
    /\ tree \in [Cpus -> SUBSET Procs]
    /\ nr \in [Cpus -> 0 .. NR_WORD - 1]
    /\ cur \in [Cpus -> Procs \cup Cpus]
    /\ lock \in [Cpus -> BOOLEAN]
    /\ frame \in [Procs \cup Cpus -> Frames]

\* __schedule keeps the queues, the lock and the frames exact, provided that
\* only the task it switches out has moved.
LEMMA ScheduleInv ==
  ASSUME Inv, NEW c \in Cpus, NEW b \in BOOLEAN, Schedule(c, b),
         home' = home, pc' \in [Procs -> PCs],
         \A q \in Procs : q # cur[c] => pc'[q] = pc[q]
  PROVE  SwitchTypes' /\ QueueExact' /\ FramesExact' /\ LockHeldOutsideIdle'
         /\ CurLocal'
<1>. PICK next \in tree[c] \cup {c}, r \in 0 .. NR_WORD - 1, off \in BOOLEAN :
           /\ off = (~b /\ cur[c] # c /\ sleep[cur[c]])
           /\ r = IF off THEN SubNrRunning(nr[c]) ELSE nr[c]
           /\ onRq' = IF off THEN [onRq EXCEPT ![cur[c]] = FALSE] ELSE onRq
           /\ nr' = [nr EXCEPT ![c] = r]
           /\ tree' = [tree EXCEPT ![c] = (@ \ {next}) \cup
                         (IF cur[c] # c /\ onRq[cur[c]] /\ ~off THEN {cur[c]} ELSE {})]
           /\ SwitchProcess(c, next)
  BY ScheduleEffect
<1>1. /\ online \subseteq Cpus /\ home \in [Procs -> Cpus]
      /\ SwitchTypes /\ pc \in [Procs -> PCs]
  BY DEF Inv, TypeOK, SwitchTypes
<1>2. Procs \cap Cpus = {}
  BY SchedAssumption
<1>3. next \in Procs \cup Cpus /\ (next \in Procs \/ next = c)
  BY <1>1 DEF SwitchTypes
<1>4. cur[c] \in Procs \/ cur[c] = c
  <2>1. \A d \in Cpus : cur[c] = d => d = c
    BY DEF Inv, CurLocal
  <2>. QED
    BY <1>1, <2>1 DEF SwitchTypes
<1>5. next = cur[c] <=> (next = c /\ cur[c] = c)
  BY <1>1, <1>2, <1>3, <1>4 DEF Inv, QueueExact, Running, SwitchTypes
<1>6. cur' = [cur EXCEPT ![c] = next]
  BY <1>1 DEF SwitchProcess, switch, SwitchTypes
<1>7. SwitchTypes'
  <2>1. onRq' \in [Procs -> BOOLEAN]
    BY ZenonT(40), <1>1 DEF SwitchTypes
  <2>2. tree' \in [Cpus -> SUBSET Procs]
    BY <1>1, <1>4 DEF SwitchTypes
  <2>3. nr' \in [Cpus -> 0 .. NR_WORD - 1] /\ cur' \in [Cpus -> Procs \cup Cpus]
    BY <1>1, <1>3, <1>6 DEF SwitchTypes
  <2>4. lock' \in [Cpus -> BOOLEAN] /\ frame' \in [Procs \cup Cpus -> Frames]
    BY ZenonT(40), <1>1, <1>3 DEF SwitchTypes, SwitchProcess, switch, Frames
  <2>. QED
    BY <2>1, <2>2, <2>3, <2>4 DEF SwitchTypes
<1>8. QueueExact'
  <2>. SUFFICES ASSUME NEW p \in Procs
       PROVE /\ \A d \in Cpus : p \in tree'[d] => d = home[p]
             /\ \A d \in Cpus : cur'[d] = p => d = home[p]
             /\ ~(p \in tree'[home[p]] /\ cur'[home[p]] = p)
             /\ p \in tree'[home[p]] => onRq'[p]
             /\ onRq'[p] => p \in tree'[home[p]] \/ cur'[home[p]] = p
             /\ cur'[home[p]] = p /\ pc'[p] \notin {"dequeued", "gone"} => onRq'[p]
    BY DEF QueueExact, Running
  <2>0. /\ \A d \in Cpus : p \in tree[d] => d = home[p]
        /\ \A d \in Cpus : cur[d] = p => d = home[p]
        /\ ~(p \in tree[home[p]] /\ cur[home[p]] = p)
        /\ p \in tree[home[p]] => onRq[p]
        /\ onRq[p] => p \in tree[home[p]] \/ cur[home[p]] = p
        /\ cur[home[p]] = p /\ pc[p] \notin {"dequeued", "gone"} => onRq[p]
    BY DEF Inv, QueueExact, Running
  <2>1. CASE p = cur[c]
    <3>1. p # next /\ home[p] = c /\ p \notin tree[c] /\ p # c
      BY <1>1, <1>2, <1>5, <2>0, <2>1
    <3>2. onRq'[p] <=> onRq[p] /\ ~off
      BY <1>1, <2>1 DEF SwitchTypes
    <3>3. p \in tree'[c] <=> onRq[p] /\ ~off
      BY <1>1, <2>1, <3>1 DEF SwitchTypes
    <3>4. \A d \in Cpus : d # c => tree'[d] = tree[d] /\ cur'[d] = cur[d]
      BY <1>1, <1>6 DEF SwitchTypes
    <3>5. cur'[c] = next
      BY <1>1, <1>6 DEF SwitchTypes
    <3>. QED
      BY <2>0, <3>1, <3>2, <3>3, <3>4, <3>5
  <2>2. CASE p # cur[c]
    <3>1. onRq'[p] = onRq[p] /\ pc'[p] = pc[p]
      BY <1>1, <2>2 DEF SwitchTypes
    <3>2. p \in tree'[c] <=> p \in tree[c] /\ p # next
      BY <1>1, <2>2 DEF SwitchTypes
    <3>3. \A d \in Cpus : d # c => tree'[d] = tree[d] /\ cur'[d] = cur[d]
      BY <1>1, <1>6 DEF SwitchTypes
    <3>4. cur'[c] = next
      BY <1>1, <1>6 DEF SwitchTypes
    <3>5. next = p => p \in tree[c]
      BY <1>2
    <3>. QED
      BY <1>1, <2>0, <2>2, <3>1, <3>2, <3>3, <3>4, <3>5
  <2>. QED
    BY <2>1, <2>2
<1>9. FramesExact' /\ LockHeldOutsideIdle'
  <2>1. CASE next = cur[c]
    BY <2>1, <1>1, <1>6 DEF Inv, SwitchProcess, switch, FramesExact, LockHeldOutsideIdle, SwitchTypes
  <2>2. CASE next # cur[c]
    <3>1. /\ lock' = [lock EXCEPT ![c] = frame[next] # "guard"]
          /\ frame' = [frame EXCEPT ![cur[c]] = IF lock[c] THEN "nested" ELSE "guard",
                                    ![next] = "none"]
      BY <2>2 DEF SwitchProcess
    <3>2. lock[c] <=> cur[c] # c
      BY DEF Inv, LockHeldOutsideIdle
    <3>3. frame[next] # "guard" <=> next # c
      BY <1>3, <2>2 DEF Inv, FramesExact
    <3>4. LockHeldOutsideIdle'
      BY ZenonT(40), <1>1, <1>6, <3>1, <3>3 DEF Inv, LockHeldOutsideIdle, SwitchTypes
    <3>5. FramesExact'
      <4>1. \A d \in Cpus : d # c => frame'[d] = frame[d] /\ cur'[d] = cur[d]
        BY <1>1, <1>2, <1>3, <1>4, <1>6, <3>1 DEF SwitchTypes
      <4>2. frame'[c] = "guard" <=> next # c
        BY <1>1, <1>2, <1>3, <1>4, <2>2, <3>1, <3>2 DEF SwitchTypes, Inv, FramesExact
      <4>3. \A p \in Procs : frame'[p] # "guard"
        BY <1>1, <1>2, <1>3, <1>4, <3>1, <3>2 DEF SwitchTypes, Inv, FramesExact
      <4>4. cur'[c] = next
        BY <1>1, <1>6 DEF SwitchTypes
      <4>. QED
        BY <4>1, <4>2, <4>3, <4>4 DEF Inv, FramesExact
    <3>. QED
      BY <3>4, <3>5
  <2>. QED
    BY <2>1, <2>2
<1>10. CurLocal'
  BY <1>1, <1>2, <1>3, <1>6 DEF Inv, CurLocal, SwitchTypes
<1>. QED
  BY <1>7, <1>8, <1>9, <1>10

------------------------------------------------------------------------------
(* Any machine.                                                             *)

\* The idle tasks run, nobody is queued.
LEMMA InitInv == Init => Inv
<1>. SUFFICES ASSUME Init PROVE Inv
  OBVIOUS
<1>1. Procs \cap Cpus = {} /\ None \notin Procs \cup Cpus /\ NR_WORD \in Nat \ {0}
  BY SchedAssumption
<1>2. TypeOK
  <2>1. /\ online \subseteq Cpus /\ home \in [Procs -> online]
        /\ state \in [Procs -> States] /\ pc \in [Procs -> PCs]
    BY DEF Init, States, PCs
  <2>2. sleep \in [Procs -> BOOLEAN] /\ onRq \in [Procs -> BOOLEAN]
        /\ lock \in [Cpus -> BOOLEAN]
    BY DEF Init
  <2>3. tree \in [Cpus -> SUBSET Procs] /\ nr \in [Cpus -> 0 .. NR_WORD - 1]
    BY <1>1 DEF Init
  <2>4. /\ cur \in [Cpus -> Procs \cup Cpus]
        /\ frame \in [Procs \cup Cpus -> Frames]
        /\ wk \in [Cpus -> Procs \cup {None}]
    BY DEF Init, Frames
  <2>. QED
    BY <2>1, <2>2, <2>3, <2>4 DEF TypeOK
<1>3. QueueExact
  BY <1>1, <1>2 DEF Init, QueueExact, Running, TypeOK
<1>4. FramesExact /\ LockHeldOutsideIdle /\ CurLocal
  BY <1>1 DEF Init, FramesExact, LockHeldOutsideIdle, CurLocal
<1>5. OfflineQuiet /\ ExitedStays
  BY DEF Init, OfflineQuiet, ExitedStays, Exiting
<1>. QED
  BY <1>2, <1>3, <1>4, <1>5 DEF Inv

\* A step that touches no queue and takes no process out of exit keeps the
\* queues, the lock and the frames exact.
LEMMA QueuesUntouched ==
  ASSUME Inv, UNCHANGED <<machine, queue, switch>>,
         \A q \in Procs : pc[q] \in {"dequeued", "gone"}
                            => pc'[q] \in {"dequeued", "gone"}
  PROVE  QueueExact' /\ FramesExact' /\ LockHeldOutsideIdle' /\ CurLocal'
<1>1. QueueExact'
  BY DEF Inv, QueueExact, Running, machine, queue, switch
<1>2. FramesExact' /\ LockHeldOutsideIdle' /\ CurLocal'
  BY DEF Inv, FramesExact, LockHeldOutsideIdle, CurLocal, switch
<1>. QED
  BY <1>1, <1>2

\* The steps that only change the state, the mark or the position of a process,
\* and the first halves of the wake-ups.
LEMMA MarkInv ==
  ASSUME Inv, NEW p \in Procs, NEW d \in online,
         \/ MarkSleep(p) \/ FinishWait(p) \/ MarkStop(p) \/ SetRunnable(p)
         \/ ExitMark(p) \/ Wakeup(d, p) \/ WakeupStop(d, p)
  PROVE  Inv'
<1>0. d \in Cpus
  BY DEF Inv, TypeOK
<1>1. UNCHANGED <<machine, queue, switch>>
  BY DEF MarkSleep, FinishWait, MarkStop, SetRunnable, ExitMark, Wakeup, WakeupStop
<1>2. TypeOK'
  <2>1. state' \in [Procs -> States]
    BY DEF Inv, TypeOK, States, MarkSleep, FinishWait, MarkStop, SetRunnable,
           ExitMark, Wakeup, WakeupStop
  <2>2. sleep' \in [Procs -> BOOLEAN]
    BY ZenonT(40) DEF Inv, TypeOK, MarkSleep, FinishWait, MarkStop, SetRunnable,
           ExitMark, Wakeup, WakeupStop
  <2>3. pc' \in [Procs -> PCs]
    BY DEF Inv, TypeOK, PCs, MarkSleep, FinishWait, MarkStop, SetRunnable,
           ExitMark, Wakeup, WakeupStop
  <2>4. wk' \in [Cpus -> Procs \cup {None}]
    BY DEF Inv, TypeOK, MarkSleep, FinishWait, MarkStop, SetRunnable,
           ExitMark, Wakeup, WakeupStop
  <2>. QED
    BY <1>1, <2>1, <2>2, <2>3, <2>4 DEF Inv, TypeOK, machine, queue, switch
<1>3. \A q \in Procs : pc[q] \in {"dequeued", "gone"}
                         => pc'[q] \in {"dequeued", "gone"}
  BY DEF Inv, TypeOK, PCs, At, MarkSleep, FinishWait, MarkStop, SetRunnable,
         ExitMark, Wakeup, WakeupStop
<1>4. OfflineQuiet'
  BY <1>0, <1>1 DEF Inv, TypeOK, OfflineQuiet, machine, MarkSleep, FinishWait,
         MarkStop, SetRunnable, ExitMark, Wakeup, WakeupStop
<1>5. ExitedStays'
  BY DEF Inv, TypeOK, ExitedStays, Exiting, At, MarkSleep, FinishWait,
         MarkStop, SetRunnable, ExitMark, Wakeup, WakeupStop
<1>. QED
  BY <1>1, <1>2, <1>3, <1>4, <1>5, QueuesUntouched DEF Inv

\* The steps that call __schedule.
LEMMA CallsScheduleInv ==
  ASSUME Inv, NEW p, NEW d \in online,
         \/ p \in Procs /\ (Park(p) \/ SchedYield(p) \/ ExitSchedule(p))
         \/ Preempt(d)
  PROVE  Inv'
<1>1. UNCHANGED <<machine, state, sleep, wk>>
  BY ZenonT(40) DEF Park, SchedYield, ExitSchedule, Preempt
<1>2. /\ pc' \in [Procs -> PCs]
      /\ \A q \in Procs : Exiting(q)' => Exiting(q)
  BY ZenonT(40) DEF Inv, TypeOK, PCs, Exiting, At, Park, SchedYield, ExitSchedule, Preempt
<1>3. \E c \in Cpus, b \in BOOLEAN :
        Schedule(c, b) /\ \A q \in Procs : q # cur[c] => pc'[q] = pc[q]
  <2>1. CASE Preempt(d)
    BY ZenonT(40), <2>1 DEF Inv, TypeOK, Preempt
  <2>2. CASE p \in Procs /\ (Park(p) \/ SchedYield(p) \/ ExitSchedule(p))
    <3>1. home[p] \in Cpus /\ cur[home[p]] = p /\ Schedule(home[p], FALSE)
      BY ZenonT(40), <2>2 DEF Inv, TypeOK, Park, SchedYield, ExitSchedule, At, Running
    <3>2. \A q \in Procs : q # p => pc'[q] = pc[q]
      BY ZenonT(40), <2>2 DEF Inv, TypeOK, Park, SchedYield, ExitSchedule
    <3>. QED
      BY ZenonT(40), <3>1, <3>2
  <2>. QED
    BY <2>1, <2>2
<1>4. home' = home
  BY <1>1 DEF machine
<1>5. SwitchTypes' /\ QueueExact' /\ FramesExact' /\ LockHeldOutsideIdle' /\ CurLocal'
  BY ZenonT(40), <1>2, <1>3, <1>4, ScheduleInv
<1>6. TypeOK'
  BY <1>1, <1>2, <1>5 DEF Inv, TypeOK, SwitchTypes, machine
<1>7. OfflineQuiet' /\ ExitedStays'
  BY <1>1, <1>2 DEF Inv, OfflineQuiet, ExitedStays, machine
<1>. QED
  BY <1>5, <1>6, <1>7 DEF Inv

\* deactivate_task in exit.
LEMMA ExitDeactivateInv ==
  ASSUME Inv, NEW p \in Procs, ExitDeactivate(p)
  PROVE  Inv'
<1>. USE DEF ExitDeactivate, DeactivateCurrent, FairDequeue, DequeueEntity
<1>1. /\ home[p] \in Cpus /\ nr[home[p]] \in 0 .. NR_WORD - 1
      /\ cur[home[p]] = p /\ pc[p] = "exiting"
  BY DEF Inv, TypeOK, At, Running
<1>2. SubNrRunning(nr[home[p]]) \in 0 .. NR_WORD - 1
  BY <1>1, NrInWord
<1>3. TypeOK'
  <2>1. nr' \in [Cpus -> 0 .. NR_WORD - 1]
    BY <1>1, <1>2 DEF Inv, TypeOK
  <2>2. onRq' \in [Procs -> BOOLEAN] /\ pc' \in [Procs -> PCs]
    BY DEF Inv, TypeOK, PCs
  <2>. QED
    BY <2>1, <2>2 DEF Inv, TypeOK, machine, switch
<1>4. QueueExact'
  BY <1>1 DEF Inv, TypeOK, QueueExact, Running, machine, switch
<1>5. FramesExact' /\ LockHeldOutsideIdle' /\ CurLocal'
  BY DEF Inv, FramesExact, LockHeldOutsideIdle, CurLocal, switch
<1>6. OfflineQuiet' /\ ExitedStays'
  BY <1>1 DEF Inv, TypeOK, OfflineQuiet, ExitedStays, Exiting, machine
<1>. QED
  BY <1>3, <1>4, <1>5, <1>6 DEF Inv

\* activate_task in wakeup and wakeup_stop.
LEMMA ActivateInv ==
  ASSUME Inv, NEW d \in online, WakeupActivate(d)
  PROVE  Inv'
<1>. DEFINE p == wk[d]
<1>. USE DEF WakeupActivate, Activate, FairEnqueue, EnqueueEntity
<1>1. /\ d \in Cpus /\ p \in Procs /\ home[p] \in Cpus
      /\ nr[home[p]] \in 0 .. NR_WORD - 1
  BY DEF Inv, TypeOK
<1>2. (nr[home[p]] + 1) % NR_WORD \in 0 .. NR_WORD - 1
  BY <1>1, NrInWord
<1>3. TypeOK'
  <2>1. nr' \in [Cpus -> 0 .. NR_WORD - 1]
    BY <1>1, <1>2 DEF Inv, TypeOK
  <2>2. onRq' \in [Procs -> BOOLEAN] /\ tree' \in [Cpus -> SUBSET Procs]
    BY <1>1 DEF Inv, TypeOK
  <2>3. wk' \in [Cpus -> Procs \cup {None}]
    BY DEF Inv, TypeOK
  <2>. QED
    BY <2>1, <2>2, <2>3 DEF Inv, TypeOK, machine, switch
<1>4. QueueExact'
  BY <1>1 DEF Inv, TypeOK, QueueExact, Running, machine, switch
<1>5. FramesExact' /\ LockHeldOutsideIdle' /\ CurLocal'
  BY DEF Inv, FramesExact, LockHeldOutsideIdle, CurLocal, switch
<1>6. OfflineQuiet' /\ ExitedStays'
  BY <1>1 DEF Inv, TypeOK, OfflineQuiet, ExitedStays, Exiting, machine
<1>. QED
  BY <1>3, <1>4, <1>5, <1>6 DEF Inv

\* Every step keeps the invariant.
LEMMA NextInv == Inv /\ [Next]_vars => Inv'
<1>. SUFFICES ASSUME Inv, [Next]_vars PROVE Inv'
  OBVIOUS
<1>1. CASE UNCHANGED vars
  BY <1>1 DEF vars, machine, queue, switch, Inv, TypeOK, QueueExact, Running,
     FramesExact, LockHeldOutsideIdle, CurLocal, OfflineQuiet, ExitedStays, Exiting
<1>2. CASE \E p \in Procs : ProcStep(p)
  <2>1. PICK p \in Procs : ProcStep(p)
    BY <1>2
  <2>2. home[p] \in online
    BY DEF Inv, TypeOK
  <2>. QED
    BY <2>1, <2>2, MarkInv, CallsScheduleInv, ExitDeactivateInv DEF ProcStep
<1>3. CASE \E d \in Cpus : d \in online /\ CpuStep(d)
  <2>1. PICK d \in Cpus : d \in online /\ CpuStep(d)
    BY <1>3
  <2>. QED
    BY <2>1, MarkInv, ActivateInv, CallsScheduleInv DEF CpuStep
<1>. QED
  BY <1>1, <1>2, <1>3 DEF Next

\* The invariant holds in every behaviour.
LEMMA Always == Spec => []Inv
BY InitInv, NextInv, PTL DEF Spec

------------------------------------------------------------------------------
\* The variables of the scheduler have their types; nr_running stays a number
\* of its width whatever add_nr_running and sub_nr_running do to it.
THEOREM TypeCorrect == Spec => []TypeOK
  BY Always, PTL DEF Inv

\* On any number of CPUs se.on_rq, the entities tree and rq.current agree: no
\* interleaving of sleeping, waking, stopping, exiting and preemption queues an
\* entity twice, loses a queued one or leaves a dequeued one in the tree.
THEOREM QueuesExact == Spec => []QueueExact
  BY Always, PTL DEF Inv

\* On any number of CPUs the run-queue lock is held exactly while a process
\* runs: __schedule's guard is released only by the switch back to idle.
THEOREM LockWhileProcessRuns == Spec => []LockHeldOutsideIdle
  BY Always, PTL DEF Inv

------------------------------------------------------------------------------
(* On a machine with one CPU no process is lost.  A wake-up is one piece of *)
(* code with interrupts off, so nothing moves between its two locks.  The   *)
(* sleep mark is then set only on a Blocked process, __schedule never       *)
(* dequeues one that was woken, and every change of nr_running goes with    *)
(* one of the queue.                                                        *)

\* On one CPU: a marked process is Blocked, and one that is going to be
\* dequeued by its next __schedule has not been woken.
MarkExact ==
    \A p \in Procs :
        /\ sleep[p] = TRUE => state[p] = "Blocked"
        /\ pc[p] = "stopping" => sleep[p] = FALSE
        /\ pc[p] = "run" /\ onRq[p] = TRUE => sleep[p] = FALSE

\* On one CPU: nothing happens to a process between the two locks of wakeup.
WakeExact ==
    \A d \in Cpus : wk[d] # None =>
        /\ sleep[wk[d]] = FALSE
        /\ ~Exiting(wk[d])
        /\ nr[home[wk[d]]] < MaxRunning

\* On one CPU: the process that exit has dequeued is not queued again.
GoneExact ==
    \A p \in Procs :
        /\ pc[p] \in {"dequeued", "gone"} => onRq[p] = FALSE
        /\ pc[p] = "gone" => ~Running(p)

\* On one CPU: nr_running counts at least the queued entities.
Queued(c) == {p \in Procs : home[p] = c /\ onRq[p] = TRUE}
Counted == \A c \in Cpus : nr[c] >= Cardinality(Queued(c))

UPFacts == MarkExact /\ WakeExact /\ GoneExact /\ RunnableIsQueued /\ Counted

\* What holds besides on a machine with one CPU.
UPInv == UniProcessor => UPFacts

------------------------------------------------------------------------------
(* A machine with one CPU.                                                  *)

\* How sets of processes are counted: a consequence of the library's theorems
\* on finite sets, which the end of this module draws.
CountingLaws ==
    \A S \in SUBSET Procs :
        /\ Cardinality(S) \in Nat
        /\ Cardinality(S) = 0 <=> S = {}
        /\ \A p \in Procs \ S : Cardinality(S \cup {p}) = Cardinality(S) + 1
        /\ \A p \in S : Cardinality(S \ {p}) = Cardinality(S) - 1

\* Taking an entity off a queue, or putting one on, changes the number of queued
\* entities by one at most; with nr_running it is by exactly one.
LEMMA QueuedCount ==
  ASSUME CountingLaws, Inv, Counted, NEW p \in Procs, home' = home
  PROVE  /\ onRq[p] = TRUE => nr[home[p]] > 0
         /\ onRq' = [onRq EXCEPT ![p] = FALSE] /\ onRq[p] = TRUE
            /\ nr' = [nr EXCEPT ![home[p]] = nr[home[p]] - 1] => Counted'
         /\ onRq' = [onRq EXCEPT ![p] = TRUE]
            /\ nr' = [nr EXCEPT ![home[p]] = nr[home[p]] + 1] => Counted'
<1>1. /\ home \in [Procs -> Cpus] /\ onRq \in [Procs -> BOOLEAN]
      /\ nr \in [Cpus -> Nat]
  BY SchedAssumption DEF Inv, TypeOK
<1>2. ASSUME NEW c \in Cpus
      PROVE  Queued(c) \in SUBSET Procs /\ Cardinality(Queued(c)) \in Nat
  <2>1. Queued(c) \in SUBSET Procs
    BY DEF Queued
  <2>. QED
    BY <2>1 DEF CountingLaws
<1>3. nr[home[p]] >= Cardinality(Queued(home[p])) /\ home[p] \in Cpus
  BY <1>1 DEF Counted
<1>4. ASSUME onRq[p] = TRUE PROVE nr[home[p]] > 0
  <2>1. Queued(home[p]) # {}
    BY <1>4 DEF Queued
  <2>2. Cardinality(Queued(home[p])) # 0
    BY <2>1, <1>2, <1>3 DEF CountingLaws
  <2>. QED
    BY <2>2, <1>1, <1>2, <1>3
<1>5. ASSUME onRq' = [onRq EXCEPT ![p] = FALSE], onRq[p] = TRUE,
             nr' = [nr EXCEPT ![home[p]] = nr[home[p]] - 1]
      PROVE  Counted'
  <2>. SUFFICES ASSUME NEW c \in Cpus PROVE nr'[c] >= Cardinality(Queued(c)')
    BY DEF Counted
  <2>0. nr[c] >= Cardinality(Queued(c))
    BY DEF Counted
  <2>1. CASE c = home[p]
    <3>1. Queued(c)' = Queued(c) \ {p} /\ p \in Queued(c)
      BY <1>1, <1>5, <2>1 DEF Queued
    <3>2. Cardinality(Queued(c)') = Cardinality(Queued(c)) - 1
      BY ZenonT(40), <3>1, <1>2 DEF CountingLaws
    <3>. QED
      BY <3>2, <2>0, <2>1, <1>1, <1>2, <1>5
  <2>2. CASE c # home[p]
    <3>1. Queued(c)' = Queued(c)
      BY <1>1, <1>5, <2>2 DEF Queued
    <3>. QED
      BY <3>1, <2>0, <2>2, <1>1, <1>5
  <2>. QED
    BY <2>1, <2>2
<1>6. ASSUME onRq' = [onRq EXCEPT ![p] = TRUE],
             nr' = [nr EXCEPT ![home[p]] = nr[home[p]] + 1]
      PROVE  Counted'
  <2>. SUFFICES ASSUME NEW c \in Cpus PROVE nr'[c] >= Cardinality(Queued(c)')
    BY DEF Counted
  <2>0. nr[c] >= Cardinality(Queued(c))
    BY DEF Counted
  <2>1. CASE c = home[p]
    <3>1. Queued(c)' = Queued(c) \cup {p}
      BY <1>1, <1>6, <2>1 DEF Queued
    <3>2. CASE p \notin Queued(c)
      <4>1. Cardinality(Queued(c)') = Cardinality(Queued(c)) + 1
        BY ZenonT(40), <3>1, <3>2, <1>2 DEF CountingLaws
      <4>. QED
        BY <4>1, <2>0, <2>1, <1>1, <1>2, <1>6
    <3>3. CASE p \in Queued(c)
      <4>1. Queued(c)' = Queued(c)
        BY <3>1, <3>3
      <4>. QED
        BY <4>1, <2>0, <2>1, <1>1, <1>2, <1>6
    <3>. QED
      BY <3>2, <3>3
  <2>2. CASE c # home[p]
    <3>1. Queued(c)' = Queued(c)
      BY <1>1, <1>6, <2>2 DEF Queued
    <3>. QED
      BY <3>1, <2>0, <2>2, <1>1, <1>6
  <2>. QED
    BY <2>1, <2>2
<1>. QED
  BY ZenonT(40), <1>4, <1>5, <1>6

\* c is the only processor online.
Solo(c) == c \in online /\ \A d \in online : d = c

\* With one CPU online every process belongs to it, and when it is not waking
\* anybody, nobody is.
LEMMA OneCpu ==
  ASSUME Inv, NEW c0 \in Cpus, Solo(c0)
  PROVE  /\ \A p \in Procs : home[p] = c0
         /\ wk[c0] = None => \A d \in Cpus : wk[d] = None
BY DEF Inv, TypeOK, OfflineQuiet, Solo

\* The steps that touch no queue.
LEMMA MarkUP ==
  ASSUME Inv, UPFacts, NEW c0 \in Cpus, Solo(c0), NEW p \in Procs,
         \/ MarkSleep(p) \/ FinishWait(p) \/ MarkStop(p) \/ SetRunnable(p)
         \/ ExitMark(p) \/ Wakeup(c0, p) \/ WakeupStop(c0, p)
  PROVE  UPFacts'
<1>0. UNCHANGED <<online, home, onRq, tree, nr, cur>>
  BY ZenonT(40) DEF MarkSleep, FinishWait, MarkStop, SetRunnable, ExitMark, Wakeup,
         WakeupStop, machine, queue, switch
<1>1. Counted'
  BY ZenonT(40), <1>0 DEF UPFacts, Counted, Queued
<1>t. /\ state \in [Procs -> States] /\ sleep \in [Procs -> BOOLEAN]
      /\ pc \in [Procs -> PCs] /\ onRq \in [Procs -> BOOLEAN]
      /\ wk \in [Cpus -> Procs \cup {None}] /\ None \notin Procs
  BY SchedAssumption DEF Inv, TypeOK
<1>2. CASE MarkSleep(p) \/ FinishWait(p) \/ MarkStop(p) \/ SetRunnable(p) \/ ExitMark(p)
  <2>1. /\ Running(p) /\ pc[p] \in {"run", "marked"}
        /\ \A d \in Cpus : wk[d] = None /\ wk'[d] = None
    BY ZenonT(30), <1>2, OneCpu DEF At, MarkSleep, FinishWait, MarkStop, SetRunnable, ExitMark
  <2>2. onRq[p] = TRUE
    BY ZenonT(40), <1>t, <2>1 DEF Inv, QueueExact
  <2>3. pc[p] = "run" => sleep[p] = FALSE
    BY ZenonT(40), <2>2 DEF UPFacts, MarkExact
  <2>4. MarkExact'
    BY <1>0, <1>2, <1>t, <2>1, <2>2, <2>3 DEF UPFacts, MarkExact, At, MarkSleep,
       FinishWait, MarkStop, SetRunnable, ExitMark
  <2>5. WakeExact'
    BY ZenonT(40), <2>1 DEF WakeExact
  <2>6. GoneExact'
    BY ZenonT(40), <1>0, <1>2, <1>t DEF UPFacts, GoneExact, Running, MarkSleep, FinishWait,
       MarkStop, SetRunnable, ExitMark
  <2>7. RunnableIsQueued'
    BY <1>0, <1>2, <1>t, <2>1, <2>2 DEF UPFacts, RunnableIsQueued, MarkSleep,
       FinishWait, MarkStop, SetRunnable, ExitMark
  <2>. QED
    BY <1>1, <2>4, <2>5, <2>6, <2>7 DEF UPFacts
<1>3. CASE Wakeup(c0, p) \/ WakeupStop(c0, p)
  <2>1. /\ \A d \in Cpus : wk[d] = None
        /\ wk' = [wk EXCEPT ![c0] = p] /\ UNCHANGED pc
        /\ state[p] \in {"Blocked", "Stopped"} /\ nr[home[p]] < MaxRunning
    BY ZenonT(30), <1>3, OneCpu DEF Wakeup, WakeupStop, CanWake
  <2>2. /\ state' = [state EXCEPT ![p] = "Runnable"] /\ sleep'[p] = FALSE
        /\ \A q \in Procs : q # p => sleep'[q] = sleep[q]
    BY ZenonT(30), <1>3, <1>t DEF Wakeup, WakeupStop, UPFacts, MarkExact
  <2>3. MarkExact'
    BY ZenonT(30), <1>0, <1>t, <2>1, <2>2 DEF UPFacts, MarkExact
  <2>4. ~Exiting(p)
    BY ZenonT(40), <2>1 DEF Inv, ExitedStays
  <2>5. WakeExact'
    BY ZenonT(40), <1>0, <1>t, <2>1, <2>2, <2>4 DEF WakeExact, Exiting
  <2>6. GoneExact'
    BY ZenonT(40), <1>0, <2>1 DEF UPFacts, GoneExact, Running
  <2>7. RunnableIsQueued'
    <3>1. \A q \in Procs : q # p => state'[q] = state[q]
      BY <1>t, <2>2
    <3>2. wk'[c0] = p
      BY <1>t, <2>1
    <3>3. ASSUME NEW q \in Procs, state'[q] = "Runnable", q # p PROVE onRq'[q]
      <4>1. state[q] = "Runnable" /\ \A d \in Cpus : wk[d] # q
        BY ZenonT(40), <1>t, <2>1, <3>1, <3>3
      <4>2. onRq[q]
        BY ZenonT(40), <4>1 DEF UPFacts, RunnableIsQueued
      <4>. QED
        BY <1>0, <4>2
    <3>. QED
      BY ZenonT(40), <3>2, <3>3 DEF RunnableIsQueued
  <2>. QED
    BY <1>1, <2>3, <2>5, <2>6, <2>7 DEF UPFacts
<1>. QED
  BY <1>2, <1>3

\* The steps that call __schedule.
LEMMA CallsScheduleUP ==
  ASSUME CountingLaws, Inv, UPFacts, NEW c0 \in Cpus, Solo(c0), NEW p,
         \/ p \in Procs /\ (Park(p) \/ SchedYield(p) \/ ExitSchedule(p))
         \/ Preempt(c0)
  PROVE  UPFacts'
<1>1. /\ UNCHANGED <<online, home, state, sleep, wk>>
      /\ \A d \in Cpus : wk[d] = None
      /\ \A q \in Procs : home[q] = c0
  BY ZenonT(40), OneCpu DEF Park, SchedYield, ExitSchedule, Preempt, At, IrqsOn, machine
<1>t. /\ state \in [Procs -> States] /\ sleep \in [Procs -> BOOLEAN]
      /\ pc \in [Procs -> PCs] /\ onRq \in [Procs -> BOOLEAN]
      /\ cur \in [Cpus -> Procs \cup Cpus] /\ tree \in [Cpus -> SUBSET Procs]
      /\ nr \in [Cpus -> 0 .. NR_WORD - 1]
      /\ Procs \cap Cpus = {}
  BY SchedAssumption DEF Inv, TypeOK
<1>2. PICK b \in BOOLEAN : Schedule(c0, b) /\ (~Preempt(c0) => b = FALSE)
  BY ZenonT(40), <1>1 DEF Park, SchedYield, ExitSchedule, Preempt
<1>3. PICK next \in tree[c0] \cup {c0}, r \in 0 .. NR_WORD - 1, off \in BOOLEAN :
           /\ off = (~b /\ cur[c0] # c0 /\ sleep[cur[c0]])
           /\ r = IF off THEN SubNrRunning(nr[c0]) ELSE nr[c0]
           /\ onRq' = IF off THEN [onRq EXCEPT ![cur[c0]] = FALSE] ELSE onRq
           /\ nr' = [nr EXCEPT ![c0] = r]
           /\ tree' = [tree EXCEPT ![c0] = (@ \ {next}) \cup
                         (IF cur[c0] # c0 /\ onRq[cur[c0]] /\ ~off THEN {cur[c0]} ELSE {})]
           /\ SwitchProcess(c0, next)
  BY <1>2, ScheduleEffect
<1>4. cur' = [cur EXCEPT ![c0] = next]
  BY <1>3, <1>t DEF SwitchProcess, switch
<1>5. ASSUME off = TRUE
      PROVE  /\ cur[c0] \in Procs /\ sleep[cur[c0]] = TRUE
             /\ state[cur[c0]] = "Blocked" /\ onRq[cur[c0]] = TRUE
  <2>1. cur[c0] \in Procs
    BY ZenonT(30), <1>3, <1>5, <1>t DEF Inv, CurLocal
  <2>2. sleep[cur[c0]] = TRUE /\ state[cur[c0]] = "Blocked"
    BY <1>3, <1>5, <1>t, <2>1 DEF UPFacts, MarkExact
  <2>3. ~Exiting(cur[c0])
    BY <2>1, <2>2 DEF Inv, ExitedStays
  <2>4. onRq[cur[c0]] = TRUE
    BY ZenonT(40), <1>1, <1>t, <2>1, <2>3 DEF Inv, QueueExact, Running, Exiting
  <2>. QED
    BY <2>1, <2>2, <2>4
<1>6. \A q \in Procs : onRq'[q] = TRUE => onRq[q] = TRUE
  BY <1>3, <1>5, <1>t
<1>7. MarkExact'
  <2>1. CASE p \in Procs /\ Park(p)
    <3>0. /\ p \in Procs /\ cur[c0] = p /\ p # c0
          /\ pc[p] \in {"marked", "stopping"} /\ pc' = [pc EXCEPT ![p] = "run"]
      BY <1>1, <1>t, <2>1 DEF Park, At, Running
    <3>1. b = FALSE
      <4>1. pc'[p] = "run" /\ pc' # pc
        BY <1>t, <3>0
      <4>. QED
        BY ZenonT(40), <1>2, <4>1 DEF Preempt
    <3>2. sleep[p] = TRUE => onRq'[p] = FALSE
      BY <1>3, <1>t, <3>0, <3>1
    <3>. QED
      BY <1>1, <1>6, <1>t, <3>0, <3>2 DEF UPFacts, MarkExact
  <2>2. CASE (p \in Procs /\ SchedYield(p)) \/ Preempt(c0)
    BY ZenonT(40), <2>2, <1>1, <1>6 DEF UPFacts, MarkExact, SchedYield, Preempt
  <2>3. CASE p \in Procs /\ ExitSchedule(p)
    <3>1. p \in Procs /\ pc' = [pc EXCEPT ![p] = "gone"]
      BY ZenonT(40), <2>3 DEF ExitSchedule
    <3>2. \A q \in Procs : pc'[q] \in {"stopping", "run"} => pc[q] = pc'[q]
      BY <1>t, <3>1
    <3>. QED
      BY ZenonT(40), <1>1, <1>6, <3>2 DEF UPFacts, MarkExact
  <2>. QED
    BY <2>1, <2>2, <2>3
<1>8. WakeExact'
  BY ZenonT(40), <1>1 DEF WakeExact
<1>9. GoneExact'
  <2>. SUFFICES ASSUME NEW q \in Procs, pc'[q] \in {"dequeued", "gone"}
       PROVE  onRq'[q] = FALSE /\ (pc'[q] = "gone" => cur'[c0] # q)
    BY ZenonT(40), <1>1 DEF GoneExact, Running
  <2>1. pc[q] \in {"dequeued", "gone"}
    BY ZenonT(40), <1>t DEF Park, SchedYield, ExitSchedule, Preempt, At
  <2>2. onRq[q] = FALSE
    BY ZenonT(40), <2>1 DEF UPFacts, GoneExact
  <2>3. onRq'[q] = FALSE
    BY <2>2, <1>3, <1>5, <1>t
  <2>4. q \notin tree[c0]
    BY ZenonT(40), <2>2, <1>1 DEF Inv, QueueExact
  <2>5. cur'[c0] = next
    BY <1>4, <1>t
  <2>. QED
    BY ZenonT(40), <2>3, <2>4, <2>5, <1>3, <1>t
<1>10. RunnableIsQueued'
  <2>. SUFFICES ASSUME NEW q \in Procs, state[q] = "Runnable" PROVE onRq'[q] = TRUE
    BY ZenonT(40), <1>1 DEF RunnableIsQueued
  <2>1. onRq[q] = TRUE
    BY <1>1, <1>t, SchedAssumption DEF UPFacts, RunnableIsQueued
  <2>. QED
    BY ZenonT(40), <2>1, <1>3, <1>5, <1>t
<1>11. Counted'
  <2>1. CASE off = TRUE
    <3>1. nr[c0] > 0
      BY ZenonT(40), <1>1, <1>5, <2>1, QueuedCount DEF UPFacts
    <3>2. r = nr[c0] - 1
      BY <1>3, <1>t, <2>1, <3>1, NrInWord
    <3>3. /\ home[cur[c0]] = c0
          /\ onRq' = [onRq EXCEPT ![cur[c0]] = FALSE]
          /\ nr' = [nr EXCEPT ![c0] = nr[c0] - 1]
      BY ZenonT(40), <1>1, <1>3, <1>5, <2>1, <3>2
    <3>. QED
      BY ZenonT(40), <1>1, <1>5, <2>1, <3>3, QueuedCount DEF UPFacts
  <2>2. CASE off = FALSE
    <3>1. onRq' = onRq /\ nr' = nr
      BY <1>3, <1>t, <2>2
    <3>. QED
      BY <1>1, <3>1 DEF UPFacts, Counted, Queued
  <2>. QED
    BY ZenonT(40), <2>1, <2>2
<1>. QED
  BY ZenonT(40), <1>7, <1>8, <1>9, <1>10, <1>11 DEF UPFacts

\* deactivate_task in exit.
LEMMA ExitDeactivateUP ==
  ASSUME CountingLaws, Inv, UPFacts, NEW c0 \in Cpus, Solo(c0), NEW p \in Procs,
         ExitDeactivate(p)
  PROVE  UPFacts'
<1>1. /\ UNCHANGED <<online, home, state, sleep, cur, wk>>
      /\ \A d \in Cpus : wk[d] = None
      /\ \A q \in Procs : home[q] = c0
      /\ cur[c0] = p /\ pc[p] = "exiting" /\ pc' = [pc EXCEPT ![p] = "dequeued"]
      /\ onRq' = [onRq EXCEPT ![p] = FALSE]
      /\ nr' = [nr EXCEPT ![c0] = SubNrRunning(nr[c0])]
  BY ZenonT(40), OneCpu DEF ExitDeactivate, DeactivateCurrent, FairDequeue, DequeueEntity,
                           At, Running, machine, switch
<1>t. /\ pc \in [Procs -> PCs] /\ onRq \in [Procs -> BOOLEAN]
      /\ nr \in [Cpus -> 0 .. NR_WORD - 1] /\ None \notin Procs
  BY SchedAssumption DEF Inv, TypeOK
<1>2. onRq[p] = TRUE /\ state[p] = "Exited"
  BY ZenonT(40), <1>1, <1>t DEF Inv, QueueExact, Running, ExitedStays, Exiting
<1>3. SubNrRunning(nr[c0]) = nr[c0] - 1
  BY ZenonT(40), <1>1, <1>2, <1>t, QueuedCount, NrInWord DEF UPFacts
<1>4. Counted'
  BY ZenonT(40), <1>1, <1>2, <1>3, QueuedCount DEF UPFacts
<1>5. MarkExact'
  BY <1>1, <1>t DEF UPFacts, MarkExact
<1>6. WakeExact'
  BY <1>1 DEF WakeExact
<1>7. GoneExact'
  BY <1>1, <1>t DEF UPFacts, GoneExact, Running
<1>8. RunnableIsQueued'
  BY <1>1, <1>2, <1>t DEF UPFacts, RunnableIsQueued
<1>. QED
  BY <1>4, <1>5, <1>6, <1>7, <1>8 DEF UPFacts

\* activate_task in wakeup and wakeup_stop: the counter has room for it.
LEMMA ActivateUP ==
  ASSUME CountingLaws, Inv, UPFacts, NEW c0 \in Cpus, Solo(c0), WakeupActivate(c0)
  PROVE  UPFacts'
<1>t. /\ pc \in [Procs -> PCs] /\ onRq \in [Procs -> BOOLEAN]
      /\ nr \in [Cpus -> 0 .. NR_WORD - 1] /\ None \notin Procs
      /\ wk \in [Cpus -> Procs \cup {None}]
      /\ NR_WORD \in Nat /\ MaxRunning \in Nat /\ MaxRunning < NR_WORD
  BY SchedAssumption DEF Inv, TypeOK
<1>1. PICK p \in Procs : p = wk[c0]
  BY ZenonT(40), <1>t DEF WakeupActivate
<1>2. /\ UNCHANGED <<online, home, state, sleep, pc, cur>>
      /\ wk' = [wk EXCEPT ![c0] = None]
      /\ onRq' = [onRq EXCEPT ![p] = TRUE]
      /\ nr' = [nr EXCEPT ![home[p]] = (nr[home[p]] + 1) % NR_WORD]
      /\ home[p] = c0
  BY <1>1, OneCpu DEF WakeupActivate, Activate, FairEnqueue, machine, switch
<1>3. /\ sleep[p] = FALSE /\ ~Exiting(p) /\ nr[c0] < MaxRunning
  BY <1>1, <1>2, <1>t DEF UPFacts, WakeExact
<1>4. (nr[c0] + 1) % NR_WORD = nr[c0] + 1
  BY <1>3, <1>t, NrInWord
<1>5. Counted'
  BY ZenonT(40), <1>2, <1>4, QueuedCount DEF UPFacts
<1>6. MarkExact'
  BY ZenonT(40), <1>2, <1>3, <1>t DEF UPFacts, MarkExact
<1>7. \A d \in Cpus : wk'[d] = None
  BY <1>2, <1>t DEF Inv, OfflineQuiet, Solo
<1>8. WakeExact'
  BY <1>7 DEF WakeExact
<1>9. GoneExact'
  BY <1>2, <1>3, <1>t DEF UPFacts, GoneExact, Running, Exiting
<1>10. RunnableIsQueued'
  <2>1. \A d \in Cpus : wk[d] # None => wk[d] = p
    BY <1>1 DEF Inv, OfflineQuiet, Solo
  <2>. QED
    BY <1>2, <1>t, <2>1 DEF UPFacts, RunnableIsQueued
<1>. QED
  BY <1>5, <1>6, <1>8, <1>9, <1>10 DEF UPFacts

------------------------------------------------------------------------------
(* Both together.                                                           *)

\* At boot the facts hold trivially: nobody is marked, queued or woken.
LEMMA InitUP ==
  ASSUME CountingLaws, Init PROVE UPInv
<1>. SUFFICES UPFacts
  BY DEF UPInv
<1>1. MarkExact /\ WakeExact /\ GoneExact /\ RunnableIsQueued
  <2>1. MarkExact /\ WakeExact
    BY DEF Init, MarkExact, WakeExact
  <2>2. GoneExact /\ RunnableIsQueued
    BY DEF Init, GoneExact, RunnableIsQueued
  <2>. QED
    BY <2>1, <2>2
<1>2. Counted
  <2>. SUFFICES ASSUME NEW c \in Cpus PROVE nr[c] >= Cardinality(Queued(c))
    BY DEF Counted
  <2>1. Queued(c) = {} /\ nr[c] = 0
    BY DEF Init, Queued
  <2>2. Cardinality(Queued(c)) = 0
    BY <2>1 DEF CountingLaws
  <2>. QED
    BY <2>1, <2>2
<1>. QED
  BY <1>1, <1>2 DEF UPFacts

\* No processor goes online or offline.
LEMMA OnlineFixed ==
  ASSUME Next PROVE online' = online
<1>1. ASSUME NEW p \in Procs, ProcStep(p) PROVE online' = online
  BY ZenonT(40), <1>1 DEF ProcStep, MarkSleep, FinishWait, MarkStop, Park, SchedYield,
                     SetRunnable, ExitMark, ExitDeactivate, ExitSchedule, machine
<1>2. ASSUME NEW d \in Cpus, CpuStep(d) PROVE online' = online
  BY ZenonT(40), <1>2 DEF CpuStep, Wakeup, WakeupStop, WakeupActivate, Preempt, machine
<1>. QED
  BY <1>1, <1>2 DEF Next

\* Every step keeps the facts of one CPU.
LEMMA NextUP ==
  ASSUME CountingLaws, Inv, UPInv, [Next]_vars PROVE UPInv'
<1>1. CASE UNCHANGED vars
  BY ZenonT(40), <1>1 DEF vars, machine, queue, switch, UPInv, UPFacts, UniProcessor,
     MarkExact, WakeExact, GoneExact, Exiting, Running, RunnableIsQueued, Counted, Queued
<1>2. ASSUME Next, UniProcessor PROVE UPFacts'
  <2>1. UPFacts
    BY <1>2 DEF UPInv
  <2>2. ASSUME NEW p \in Procs, ProcStep(p) PROVE UPFacts'
    <3>1. home[p] \in Cpus /\ Solo(home[p])
      BY <1>2 DEF Inv, TypeOK, Solo, UniProcessor
    <3>. QED
      BY <2>1, <2>2, <3>1, MarkUP, CallsScheduleUP, ExitDeactivateUP DEF ProcStep
  <2>3. ASSUME NEW d \in Cpus, d \in online, CpuStep(d) PROVE UPFacts'
    <3>1. Solo(d)
      BY <1>2, <2>3 DEF Solo, UniProcessor
    <3>. QED
      BY <2>1, <2>3, <3>1, MarkUP, CallsScheduleUP, ActivateUP DEF CpuStep
  <2>. QED
    BY <1>2, <2>2, <2>3 DEF Next
<1>3. CASE Next
  <2>1. online' = online
    BY <1>3, OnlineFixed
  <2>. QED
    BY <1>2, <1>3, <2>1 DEF UPInv, UniProcessor
<1>. QED
  BY <1>1, <1>3

INSTANCE FiniteSetTheorems

\* Sets of processes are finite, so they are counted like that.
LEMMA Counting == CountingLaws
<1>. SUFFICES ASSUME NEW S \in SUBSET Procs
     PROVE  /\ Cardinality(S) \in Nat
            /\ Cardinality(S) = 0 <=> S = {}
            /\ \A p \in Procs \ S : Cardinality(S \cup {p}) = Cardinality(S) + 1
            /\ \A p \in S : Cardinality(S \ {p}) = Cardinality(S) - 1
  BY DEF CountingLaws
<1>1. IsFiniteSet(S)
  BY SchedAssumption, FS_Subset
<1>2. Cardinality(S) \in Nat
  BY <1>1, FS_CardinalityType
<1>3. Cardinality(S) = 0 <=> S = {}
  BY <1>1, FS_EmptySet
<1>. QED
  BY <1>1, <1>2, <1>3, FS_AddElement, FS_RemoveElement

\* The invariant holds in every behaviour.
LEMMA AlwaysUP == Spec => [](Inv /\ UPInv)
<1>1. Init => Inv /\ UPInv
  BY InitInv, InitUP, Counting
<1>2. Inv /\ UPInv /\ [Next]_vars => UPInv'
  BY NextUP, Counting
<1>. QED
  BY <1>1, <1>2, NextInv, PTL DEF Spec

------------------------------------------------------------------------------
\* On one CPU a process that wakeup, finish_wait or a page fault has made
\* Runnable is queued, or is being queued, whatever came in between.
THEOREM NoLostProcess == Spec => []RunnableIsQueuedOnUP
<1>1. UPInv => RunnableIsQueuedOnUP
  BY DEF UPInv, UPFacts, RunnableIsQueuedOnUP
<1>. QED
  BY <1>1, AlwaysUP, PTL

\* On one CPU nr_running is at least the number of queued entities, so
\* sub_nr_running never wraps and pick_next_task never leaves work behind.
THEOREM CounterCovers == Spec => []NrCoversQueue
<1>1. Inv /\ UPInv => NrCoversQueue
  <2>. SUFFICES ASSUME Inv, UPInv, UniProcessor, NEW c \in Cpus
       PROVE nr[c] >= Cardinality({p \in Procs : home[p] = c /\ onRq[p]})
    BY DEF NrCoversQueue
  <2>1. {p \in Procs : home[p] = c /\ onRq[p]} = Queued(c)
    BY DEF Queued, Inv, TypeOK
  <2>. QED
    BY <2>1 DEF UPInv, UPFacts, Counted
<1>. QED
  BY <1>1, AlwaysUP, PTL

\* On one CPU a process whose exit has made its last call to __schedule is
\* neither queued nor run again.
THEOREM ExitIsFinal == Spec => []ExitedNeverRunsAgain
<1>1. UPInv => ExitedNeverRunsAgain
  BY DEF UPInv, UPFacts, GoneExact, ExitedNeverRunsAgain
<1>. QED
  BY <1>1, AlwaysUP, PTL

==============================================================================
