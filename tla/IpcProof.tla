------------------------------ MODULE IpcProof ------------------------------
(***************************************************************************)
(* The stream of a pipe is intact and its readers are woken, and a pending *)
(* signal is announced, for any processes, buffer size and signals.        *)
(***************************************************************************)
EXTENDS Pipe, Signals, ListLemmas

------------------------------------------------------------------------------
(* Signals.                                                                 *)

\* Who holds sig_struct, when the process has exited, and who is about to announce what
\* came after recalc_sigpending_tsk had looked: its sender, which waits for sig_struct.
SigInv ==
    /\ spc \in [Senders -> {"idle", "prepare", "push", "wants", "empty", "insert", "lock", "wake"}]
    /\ lock = "self" <=> s_pc \in {"recalc", "clear"}
    /\ \A s \in Senders : spc[s] = "wake" <=> lock = s
    /\ s_state = "Exited" <=> s_pc = "dead"
    /\ s_pc = "clear" /\ S!HasPending => \E s \in Senders : spc[s] = "lock"
    /\ S!PendingIsAnnounced

\* It holds initially.
LEMMA SigInit == S!Init => SigInv
BY HolderIsKnown DEF S!Init, SigInv, S!HasPending, S!PendingIsAnnounced

\* The steps of a sender keep it.
LEMMA SigSender == ASSUME SigInv, NEW s \in Senders, S!Sender(s) PROVE SigInv'
<1>. USE HolderIsKnown DEF SigInv, S!HasPending, S!PendingIsAnnounced, S!SGoto
<1>1. ASSUME NEW n \in Sigs, S!Send(s, n) PROVE SigInv'
  BY <1>1 DEF S!Send, S!pending
<1>2. CASE S!Prepare(s)
  BY <1>2 DEF S!Prepare, S!pending, S!target
<1>3. CASE S!Push(s)
  BY <1>3 DEF S!Push, S!target
<1>4. CASE S!Wants(s)
  BY <1>4 DEF S!Wants, S!pending, S!target
<1>5. CASE S!WantsEmpty(s)
  BY <1>5 DEF S!WantsEmpty, S!pending, S!target
<1>6. CASE S!Insert(s)
  BY <1>6 DEF S!Insert, S!target
<1>7. CASE S!Lock(s)
  BY <1>7 DEF S!Lock, S!pending, S!target
<1>8. CASE S!WakeUp(s)
  BY <1>8 DEF S!WakeUp, S!pending
<1>. QED
  BY <1>1, <1>2, <1>3, <1>4, <1>5, <1>6, <1>7, <1>8 DEF S!Sender

\* So do the steps of the process.
LEMMA SigProcess == ASSUME SigInv, S!Process PROVE SigInv'
<1>. USE HolderIsKnown
     DEF SigInv, S!HasPending, S!PendingIsAnnounced, S!Goto, S!Runs, S!pending, S!sender
<1>1. CASE S!Enter
  BY <1>1 DEF S!Enter
<1>2. CASE S!RecalcSigpendingTsk
  BY ZenonT(40), <1>2 DEF S!RecalcSigpendingTsk
<1>3. CASE S!RecalcSigpending
  BY <1>3 DEF S!RecalcSigpending
<1>4. CASE S!Awake
  BY <1>4 DEF S!Awake
<1>5. CASE S!Leave
  BY <1>5 DEF S!Leave
<1>6. CASE S!DoSignal
  BY ZenonT(40), <1>6 DEF S!DoSignal
<1>7. CASE S!DoSignalNone
  BY <1>7 DEF S!DoSignalNone, S!target
<1>8. CASE S!DoSignalEmpty
  BY <1>8 DEF S!DoSignalEmpty, S!vars, S!target
<1>9. CASE S!HandleDefault
  BY <1>9 DEF S!HandleDefault
<1>10. CASE S!ToUser
  BY <1>10 DEF S!ToUser
<1>11. ASSUME NEW set \in SUBSET (Sigs \ {S!SIGKILL, S!SIGSTOP}), S!SetBlocked(set) PROVE SigInv'
  BY <1>11 DEF S!SetBlocked
<1>12. ASSUME NEW n \in Sigs, NEW a \in Actions, S!SetAction(n, a) PROVE SigInv'
  BY <1>12 DEF S!SetAction, S!target
<1>13. ASSUME NEW st \in {"Blocked", "Uninterruptible"}, S!MarkSleep(st) PROVE SigInv'
  BY <1>13 DEF S!MarkSleep
<1>. QED
  BY ZenonT(40), <1>1, <1>2, <1>3, <1>4, <1>5, <1>6, <1>7, <1>8, <1>9, <1>10, <1>11, <1>12, <1>13
     DEF S!Process

\* However senders, mask changes and the return to user mode interleave, a pending signal
\* that is not blocked is announced, or is about to be.
THEOREM SignalsAreAnnounced == S!Spec => []PendingIsAnnounced
<1>1. SigInv /\ [S!Next]_S!vars => SigInv'
  <2>. SUFFICES ASSUME SigInv, [S!Next]_S!vars PROVE SigInv'
    OBVIOUS
  <2>1. CASE UNCHANGED S!vars
    BY <2>1 DEF S!vars, S!pending, S!target, S!sender, SigInv, S!HasPending, S!PendingIsAnnounced
  <2>. QED
    BY <2>1, SigSender, SigProcess DEF S!Next
<1>2. SigInv => PendingIsAnnounced
  BY DEF SigInv, PendingIsAnnounced
<1>. QED
  BY SigInit, <1>1, <1>2, PTL DEF S!Spec

------------------------------------------------------------------------------
(* The ring buffer.                                                         *)

\* TypeOK without the numbers of open ends.
PipeTypes ==
    /\ valid_cnt \in 0 .. SIZE /\ read_pos \in Pos /\ write_pos \in Pos
    /\ data \in [Pos -> Stamp] /\ sent \in Stamp /\ got \in Stamp
    /\ opened \subseteq Procs /\ had_reader \in BOOLEAN
    /\ rlist \in Seq(Readers) /\ wlist \in Seq(Writers)
    /\ pc \in [Procs -> PCs] /\ len \in [Procs -> 0 .. SIZE]
    /\ state \in [Procs -> {"Runnable", "Blocked"}] /\ sig \subseteq Procs
    /\ interrupted \in BOOLEAN /\ panicked \in BOOLEAN

\* x % n for an x that goes round once at most.
Round(x, n) == IF x < n THEN x ELSE x - n

\* StreamIntact without division.
Ring ==
    /\ Round(read_pos + valid_cnt, SIZE) = write_pos
    /\ Round(got + valid_cnt, STAMPS) = sent
    /\ \A k \in 0 .. valid_cnt - 1 :
         data[Round(read_pos + k, SIZE)] = Round(got + k, STAMPS)

\* The remainder of a number that goes round once at most.
LEMMA RoundIsMod ==
  ASSUME NEW n \in Nat \ {0}, NEW x \in 0 .. 2 * n - 1
  PROVE  x % n = Round(x, n) /\ Round(x, n) \in 0 .. n - 1
<1>1. CASE x < n
  BY <1>1 DEF Round
<1>2. CASE x >= n
  <2>1. x - n \in 0 .. n - 1 /\ x = n * 1 + (x - n)
    BY <1>2
  <2>2. x % n = x - n
    BY <2>1
  <2>. QED
    BY <1>2, <2>1, <2>2 DEF Round
<1>. QED
  BY <1>1, <1>2

\* The two ways to say that the stream is intact.
LEMMA RingIsStream == PipeTypes => (Ring <=> StreamIntact)
<1>. SUFFICES ASSUME PipeTypes PROVE Ring <=> StreamIntact
  OBVIOUS
<1>1. \A k \in 0 .. valid_cnt : /\ (read_pos + k) % SIZE = Round(read_pos + k, SIZE)
                                /\ (got + k) % STAMPS = Round(got + k, STAMPS)
  <2>. SUFFICES ASSUME NEW k \in 0 .. valid_cnt
                PROVE  /\ (read_pos + k) % SIZE = Round(read_pos + k, SIZE)
                       /\ (got + k) % STAMPS = Round(got + k, STAMPS)
    OBVIOUS
  <2>1. read_pos + k \in 0 .. 2 * SIZE - 1 /\ got + k \in 0 .. 2 * STAMPS - 1
    BY PipeAssumption DEF PipeTypes, Pos, Stamp
  <2>. QED
    BY <2>1, RoundIsMod, PipeAssumption
<1>2. valid_cnt \in 0 .. valid_cnt /\ \A k \in 0 .. valid_cnt - 1 : k \in 0 .. valid_cnt
  BY DEF PipeTypes
<1>. QED
  BY <1>1, <1>2 DEF Ring, StreamIntact

\* To go round in one step or in two.
LEMMA RoundTwice ==
  ASSUME NEW n \in Nat \ {0}, NEW a \in 0 .. n - 1, NEW i \in Nat, NEW j \in Nat, i + j <= n
  PROVE  /\ Round(a + i, n) \in 0 .. n - 1 /\ (a + i) % n = Round(a + i, n)
         /\ Round(Round(a + i, n) + j, n) = Round(a + (i + j), n)
<1>1. a + i \in 0 .. 2 * n - 1
  OBVIOUS
<1>2. Round(a + i, n) \in 0 .. n - 1 /\ (a + i) % n = Round(a + i, n)
  BY ZenonT(40), <1>1, RoundIsMod
<1>3. Round(Round(a + i, n) + j, n) = Round(a + (i + j), n)
  BY DEF Round
<1>. QED
  BY <1>2, <1>3

\* Two numbers of steps less than a round end in different places.
LEMMA RoundApart ==
  ASSUME NEW n \in Nat \ {0}, NEW a \in 0 .. n - 1, NEW i \in 0 .. n - 1, NEW j \in 0 .. n - 1,
         Round(a + i, n) = Round(a + j, n)
  PROVE  i = j
BY DEF Round

\* Where a byte of a write goes.
LEMMA SlotIsRound == \A a, k \in Nat : Slot(a, k) = Round(a + k, SIZE)
BY PipeAssumption DEF Slot, Round

\* A read takes the first bytes.
LEMMA RingRead ==
  ASSUME PipeTypes, Ring, NEW num \in 0 .. valid_cnt,
         read_pos' = (read_pos + num) % SIZE, valid_cnt' = valid_cnt - num,
         got' = (got + num) % STAMPS, UNCHANGED <<write_pos, data, sent>>
  PROVE  /\ read_pos' \in Pos /\ valid_cnt' \in 0 .. SIZE /\ got' \in Stamp
         /\ Ring'
<1>0. /\ SIZE \in Nat \ {0} /\ STAMPS \in Nat \ {0} /\ STAMPS > SIZE
      /\ valid_cnt \in 0 .. SIZE /\ read_pos \in 0 .. SIZE - 1 /\ got \in 0 .. STAMPS - 1
      /\ Pos = 0 .. SIZE - 1 /\ Stamp = 0 .. STAMPS - 1 /\ num \in Nat
  BY PipeAssumption DEF PipeTypes, Pos, Stamp
<1>1. ASSUME NEW j \in Nat, num + j <= valid_cnt
      PROVE  /\ read_pos' \in Pos /\ got' \in Stamp
             /\ Round(read_pos' + j, SIZE) = Round(read_pos + (num + j), SIZE)
             /\ Round(got' + j, STAMPS) = Round(got + (num + j), STAMPS)
  <2>1. num + j <= SIZE /\ num + j <= STAMPS
    BY <1>0, <1>1
  <2>2. /\ Round(read_pos + num, SIZE) \in 0 .. SIZE - 1
        /\ (read_pos + num) % SIZE = Round(read_pos + num, SIZE)
        /\ Round(Round(read_pos + num, SIZE) + j, SIZE) = Round(read_pos + (num + j), SIZE)
    <3>1. SIZE \in Nat \ {0} /\ read_pos \in 0 .. SIZE - 1 /\ num \in Nat
      BY ZenonT(40), <1>0
    <3>. QED
      BY ZenonT(40), <2>1, <3>1, RoundTwice
  <2>3. /\ Round(got + num, STAMPS) \in 0 .. STAMPS - 1
        /\ (got + num) % STAMPS = Round(got + num, STAMPS)
        /\ Round(Round(got + num, STAMPS) + j, STAMPS) = Round(got + (num + j), STAMPS)
    <3>1. STAMPS \in Nat \ {0} /\ got \in 0 .. STAMPS - 1 /\ num \in Nat
      BY ZenonT(40), <1>0
    <3>. QED
      BY ZenonT(40), <2>1, <3>1, RoundTwice
  <2>. QED
    BY ZenonT(40), <1>0, <2>2, <2>3
<1>2. valid_cnt' \in Nat /\ valid_cnt' \in 0 .. SIZE /\ num + valid_cnt' = valid_cnt
  BY <1>0
<1>3. /\ read_pos' \in Pos /\ got' \in Stamp
      /\ Round(read_pos' + valid_cnt', SIZE) = write_pos'
      /\ Round(got' + valid_cnt', STAMPS) = sent'
  <2>1. num + valid_cnt' <= valid_cnt
    BY <1>0, <1>2
  <2>. QED
    BY ZenonT(40), <1>1, <1>2, <2>1 DEF Ring
<1>4. ASSUME NEW k \in 0 .. valid_cnt' - 1
      PROVE  data'[Round(read_pos' + k, SIZE)] = Round(got' + k, STAMPS)
  <2>1. k \in Nat /\ num + k \in 0 .. valid_cnt - 1 /\ num + k <= valid_cnt
    BY <1>0, <1>2
  <2>. QED
    BY ZenonT(40), <1>1, <2>1 DEF Ring
<1>. QED
  BY ZenonT(40), <1>2, <1>3, <1>4 DEF Ring

\* The values that a write stores, and where.
LEMMA RingStores ==
  ASSUME PipeTypes, NEW n \in 0 .. SIZE,
         data' = [i \in Pos |->
                    IF \E k \in 0 .. n - 1 : Slot(write_pos, k) = i
                      THEN (sent + (CHOOSE k \in 0 .. n - 1 : Slot(write_pos, k) = i)) % STAMPS
                      ELSE data[i]]
  PROVE  /\ data' \in [Pos -> Stamp]
         /\ \A k \in 0 .. n - 1 : data'[Slot(write_pos, k)] = Round(sent + k, STAMPS)
         /\ \A i \in Pos : (\A k \in 0 .. n - 1 : Slot(write_pos, k) # i) => data'[i] = data[i]
<1>0. /\ SIZE \in Nat \ {0} /\ STAMPS \in Nat \ {0} /\ STAMPS > SIZE
      /\ write_pos \in 0 .. SIZE - 1 /\ sent \in 0 .. STAMPS - 1 /\ data \in [Pos -> Stamp]
      /\ Pos = 0 .. SIZE - 1 /\ Stamp = 0 .. STAMPS - 1
  BY PipeAssumption DEF PipeTypes, Pos, Stamp
<1>1. ASSUME NEW k \in 0 .. n - 1
      PROVE  /\ Slot(write_pos, k) \in Pos /\ (sent + k) % STAMPS = Round(sent + k, STAMPS)
             /\ Round(sent + k, STAMPS) \in Stamp
             /\ \A j \in 0 .. n - 1 : Slot(write_pos, j) = Slot(write_pos, k) => j = k
  <2>1. /\ k \in Nat /\ k \in 0 .. SIZE - 1 /\ 0 \in Nat /\ k + 0 <= SIZE /\ k + 0 <= STAMPS
        /\ write_pos \in Nat
    BY <1>0
  <2>2. /\ Slot(write_pos, k) = Round(write_pos + k, SIZE) /\ Slot(write_pos, k) \in Pos
        /\ (sent + k) % STAMPS = Round(sent + k, STAMPS) /\ Round(sent + k, STAMPS) \in Stamp
    <3>1. Slot(write_pos, k) = Round(write_pos + k, SIZE)
      BY ZenonT(40), <2>1, SlotIsRound
    <3>2. Round(write_pos + k, SIZE) \in 0 .. SIZE - 1
      BY ZenonT(40), <1>0, <2>1, RoundTwice
    <3>3. /\ (sent + k) % STAMPS = Round(sent + k, STAMPS)
          /\ Round(sent + k, STAMPS) \in 0 .. STAMPS - 1
      BY ZenonT(40), <1>0, <2>1, RoundTwice
    <3>. QED
      BY ZenonT(40), <1>0, <3>1, <3>2, <3>3
  <2>3. ASSUME NEW j \in 0 .. n - 1, Slot(write_pos, j) = Slot(write_pos, k) PROVE j = k
    <3>1. j \in Nat /\ j \in 0 .. SIZE - 1
      BY <1>0
    <3>2. Slot(write_pos, j) = Round(write_pos + j, SIZE)
      BY ZenonT(40), <2>1, <3>1, SlotIsRound
    <3>. QED
      BY ZenonT(40), <1>0, <2>1, <2>2, <2>3, <3>1, <3>2, RoundApart
  <2>. QED
    BY <2>2, <2>3
<1>2. ASSUME NEW k \in 0 .. n - 1
      PROVE  data'[Slot(write_pos, k)] = Round(sent + k, STAMPS)
  <2>1. (CHOOSE j \in 0 .. n - 1 : Slot(write_pos, j) = Slot(write_pos, k)) = k
    BY <1>1
  <2>. QED
    BY ZenonT(40), <1>1, <2>1
<1>3. ASSUME NEW i \in Pos, \A k \in 0 .. n - 1 : Slot(write_pos, k) # i
      PROVE  data'[i] = data[i]
  BY <1>3
<1>4. ASSUME NEW i \in Pos PROVE data'[i] \in Stamp
  <2>1. CASE \E k \in 0 .. n - 1 : Slot(write_pos, k) = i
    <3>1. PICK k \in 0 .. n - 1 : Slot(write_pos, k) = i
      BY <2>1
    <3>2. data'[i] = Round(sent + k, STAMPS)
      BY ZenonT(40), <1>2, <3>1
    <3>. QED
      BY <1>1, <3>2
  <2>2. CASE \A k \in 0 .. n - 1 : Slot(write_pos, k) # i
    <3>1. data'[i] = data[i]
      BY <1>3, <2>2
    <3>. QED
      BY <1>0, <3>1
  <2>. QED
    BY <2>1, <2>2
<1>5. data' = [i \in Pos |-> data'[i]]
  OBVIOUS
<1>6. data' \in [Pos -> Stamp]
  BY ZenonT(40), <1>4, <1>5
<1>. QED
  BY ZenonT(40), <1>2, <1>3, <1>6

\* A write puts its bytes behind the last one, and overwrites none that is not read.
LEMMA RingWrite ==
  ASSUME PipeTypes, Ring, NEW n \in 0 .. SIZE, n + valid_cnt <= SIZE,
         write_pos' = (write_pos + n) % SIZE, valid_cnt' = valid_cnt + n,
         sent' = (sent + n) % STAMPS, UNCHANGED <<read_pos, got>>,
         data' = [i \in Pos |->
                    IF \E k \in 0 .. n - 1 : Slot(write_pos, k) = i
                      THEN (sent + (CHOOSE k \in 0 .. n - 1 : Slot(write_pos, k) = i)) % STAMPS
                      ELSE data[i]]
  PROVE  /\ write_pos' \in Pos /\ valid_cnt' \in 0 .. SIZE /\ sent' \in Stamp
         /\ data' \in [Pos -> Stamp]
         /\ Ring'
<1>0. /\ SIZE \in Nat \ {0} /\ STAMPS \in Nat \ {0} /\ STAMPS > SIZE
      /\ valid_cnt \in 0 .. SIZE /\ read_pos \in 0 .. SIZE - 1 /\ write_pos \in 0 .. SIZE - 1
      /\ got \in 0 .. STAMPS - 1 /\ sent \in 0 .. STAMPS - 1
      /\ Pos = 0 .. SIZE - 1 /\ Stamp = 0 .. STAMPS - 1 /\ n \in Nat /\ valid_cnt \in Nat
  BY PipeAssumption DEF PipeTypes, Pos, Stamp
<1>1. /\ data' \in [Pos -> Stamp]
      /\ \A k \in 0 .. n - 1 : data'[Slot(write_pos, k)] = Round(sent + k, STAMPS)
      /\ \A i \in Pos : (\A k \in 0 .. n - 1 : Slot(write_pos, k) # i) => data'[i] = data[i]
  BY ZenonT(40), RingStores
<1>2. ASSUME NEW j \in Nat, valid_cnt + j <= SIZE
      PROVE  /\ Round(write_pos + j, SIZE) = Round(read_pos + (valid_cnt + j), SIZE)
             /\ Round(sent + j, STAMPS) = Round(got + (valid_cnt + j), STAMPS)
  <2>1. valid_cnt + j <= STAMPS
    BY <1>0, <1>2
  <2>2. Round(Round(read_pos + valid_cnt, SIZE) + j, SIZE) = Round(read_pos + (valid_cnt + j), SIZE)
    <3>1. /\ SIZE \in Nat \ {0} /\ read_pos \in 0 .. SIZE - 1 /\ valid_cnt \in Nat
          /\ valid_cnt + j <= SIZE
      BY ZenonT(40), <1>0, <1>2
    <3>. QED
      BY ZenonT(40), <3>1, RoundTwice
  <2>3. Round(Round(got + valid_cnt, STAMPS) + j, STAMPS) = Round(got + (valid_cnt + j), STAMPS)
    <3>1. STAMPS \in Nat \ {0} /\ got \in 0 .. STAMPS - 1 /\ valid_cnt \in Nat
      BY ZenonT(40), <1>0
    <3>. QED
      BY ZenonT(40), <2>1, <3>1, RoundTwice
  <2>. QED
    BY ZenonT(40), <2>2, <2>3 DEF Ring
<1>3. /\ write_pos' = Round(write_pos + n, SIZE) /\ write_pos' \in Pos
      /\ sent' = Round(sent + n, STAMPS) /\ sent' \in Stamp
  <2>1. 0 \in Nat /\ n + 0 <= SIZE /\ n + 0 <= STAMPS
    BY <1>0
  <2>2. /\ Round(write_pos + n, SIZE) \in 0 .. SIZE - 1
        /\ (write_pos + n) % SIZE = Round(write_pos + n, SIZE)
    BY ZenonT(40), <1>0, <2>1, RoundTwice
  <2>3. /\ Round(sent + n, STAMPS) \in 0 .. STAMPS - 1
        /\ (sent + n) % STAMPS = Round(sent + n, STAMPS)
    BY ZenonT(40), <1>0, <2>1, RoundTwice
  <2>. QED
    BY ZenonT(40), <1>0, <2>2, <2>3
<1>4. valid_cnt' \in 0 .. SIZE /\ valid_cnt + n <= SIZE
  BY <1>0
<1>5. Round(read_pos' + valid_cnt', SIZE) = write_pos' /\ Round(got' + valid_cnt', STAMPS) = sent'
  BY ZenonT(40), <1>0, <1>2, <1>3, <1>4
<1>6. ASSUME NEW k \in 0 .. valid_cnt' - 1
      PROVE  data'[Round(read_pos' + k, SIZE)] = Round(got' + k, STAMPS)
  <2>1. CASE k < valid_cnt
    <3>1. k \in 0 .. valid_cnt - 1 /\ k \in Nat /\ k \in 0 .. SIZE - 1 /\ 0 \in Nat /\ k + 0 <= SIZE
      BY <1>0, <1>4, <2>1
    <3>2. Round(read_pos + k, SIZE) \in Pos
      BY ZenonT(40), <1>0, <3>1, RoundTwice
    <3>3. ASSUME NEW j \in 0 .. n - 1, Slot(write_pos, j) = Round(read_pos + k, SIZE) PROVE FALSE
      <4>1. /\ j \in Nat /\ valid_cnt + j <= SIZE /\ valid_cnt + j \in 0 .. SIZE - 1
            /\ write_pos \in Nat
            /\ valid_cnt + j # k
        BY <1>0, <2>1, <3>1
      <4>2. Round(read_pos + (valid_cnt + j), SIZE) = Round(read_pos + k, SIZE)
        BY ZenonT(40), <1>2, <3>3, <4>1, SlotIsRound
      <4>. QED
        BY ZenonT(40), <1>0, <3>1, <4>1, <4>2, RoundApart
    <3>4. data'[Round(read_pos + k, SIZE)] = data[Round(read_pos + k, SIZE)]
      BY ZenonT(40), <1>1, <3>2, <3>3
    <3>. QED
      BY ZenonT(40), <3>1, <3>4 DEF Ring
  <2>2. CASE k >= valid_cnt
    <3>1. PICK j \in 0 .. n - 1 : valid_cnt + j = k
      <4>1. k - valid_cnt \in 0 .. n - 1 /\ valid_cnt + (k - valid_cnt) = k
        BY <1>0, <2>2
      <4>. QED
        BY ZenonT(40), <4>1
    <3>2. j \in Nat /\ valid_cnt + j <= SIZE /\ write_pos \in Nat
      BY <1>0
    <3>3. /\ Slot(write_pos, j) = Round(write_pos + j, SIZE)
          /\ data'[Slot(write_pos, j)] = Round(sent + j, STAMPS)
      <4>1. Slot(write_pos, j) = Round(write_pos + j, SIZE)
        BY ZenonT(40), <3>2, SlotIsRound
      <4>. QED
        BY ZenonT(40), <1>1, <4>1
    <3>. QED
      BY ZenonT(40), <1>2, <3>1, <3>2, <3>3
  <2>. QED
    BY <1>0, <2>1, <2>2
<1>. QED
  BY ZenonT(40), <1>1, <1>3, <1>4, <1>5, <1>6 DEF Ring

------------------------------------------------------------------------------
(* The readers that wait.                                                   *)

\* A reader that is marked as blocked is in the queue, and one in the queue is in its
\* wait, as long as no call has been interrupted; no writer sleeps (schedule() panics).
Queued ==
    /\ \A p \in Writers : pc[p] # "parked"
    /\ \A p \in Readers : state[p] = "Blocked" => Has(rlist, p)
    /\ ~interrupted => \A p \in Readers : Has(rlist, p) =>
                           pc[p] \in {"prepare", "test", "test_err", "parked", "finish"}

\* Nobody sleeps when the last writer has left; while there are bytes and a reader sleeps,
\* another one is on its way, which wakes the next when it leaves bytes behind.
Chain ==
    /\ writer = 0 => \A p \in Readers : ~Asleep(p)
    /\ ~interrupted /\ valid_cnt > 0 /\ (\E p \in Readers : Asleep(p)) =>
           \E p \in Readers : pc[p] # "out" /\ ~Asleep(p)

PipeInv == PipeTypes /\ writer \in Nat /\ Ring /\ Queued /\ Chain

\* A wake-up blocks nobody.
LEMMA AwakenWakes ==
  ASSUME PipeTypes, NEW U, Awaken(U)
  PROVE  /\ state' \in [Procs -> {"Runnable", "Blocked"}]
         /\ \A p \in Procs : state'[p] = "Blocked" <=> state[p] = "Blocked" /\ p \notin U
BY DEF PipeTypes, Awaken

\* wakeup takes the first process off the list when it wakes it, and nobody else.
LEMMA FrontWakes ==
  ASSUME PipeTypes, NEW T \in SUBSET Procs, NEW q \in Seq(T)
  PROVE  /\ AfterWakeup(q) \in Seq(T) /\ WokenFront(q) \in SUBSET T
         /\ \A p : Has(AfterWakeup(q), p) => Has(q, p)
         /\ \A p : Has(q, p) => Has(AfterWakeup(q), p) \/ p \in WokenFront(q)
<1>1. CASE q = <<>> \/ state[Head(q)] # "Blocked"
  BY <1>1 DEF AfterWakeup, WokenFront
<1>2. CASE q # <<>> /\ state[Head(q)] = "Blocked"
  <2>1. WokenFront(q) = {Head(q)} /\ AfterWakeup(q) = Tail(q)
    BY <1>2 DEF AfterWakeup, WokenFront
  <2>2. Head(q) \in T /\ Tail(q) \in Seq(T)
    BY <1>2
  <2>. QED
    BY <1>2, <2>1, <2>2, TailKeeps
<1>. QED
  BY <1>1, <1>2

\* After wakeup, whoever was first in the list is not blocked.
LEMMA FirstIsUp ==
  ASSUME PipeTypes, NEW U, Awaken(U), WokenFront(rlist) \in SUBSET U,
         NEW p \in Readers, Has(rlist, p)
  PROVE  Head(rlist) \in Readers /\ Has(rlist, Head(rlist)) /\ state'[Head(rlist)] # "Blocked"
<1>1. rlist # <<>> /\ Head(rlist) \in Readers /\ Head(rlist) = rlist[1] /\ 1 \in 1 .. Len(rlist)
  BY DEF Has, PipeTypes
<1>2. Has(rlist, Head(rlist))
  BY <1>1 DEF Has
<1>3. state'[Head(rlist)] # "Blocked"
  BY <1>1, AwakenWakes DEF WokenFront, Procs
<1>. QED
  BY <1>1, <1>2, <1>3

\* The invariant holds initially.
LEMMA PipeInit == Init => PipeInv
<1>. SUFFICES ASSUME Init PROVE PipeInv
  OBVIOUS
<1>1. PipeTypes /\ writer \in Nat
  <2>1. 0 \in 0 .. SIZE /\ 0 \in Pos /\ 0 \in Stamp /\ 0 \in Nat
    BY PipeAssumption DEF Pos, Stamp
  <2>2. data \in [Pos -> Stamp] /\ len \in [Procs -> 0 .. SIZE]
    BY ZenonT(40), <2>1 DEF Init
  <2>3. "out" \in PCs
    BY DEF PCs
  <2>4. pc \in [Procs -> PCs] /\ state \in [Procs -> {"Runnable", "Blocked"}]
    BY ZenonT(40), <2>3 DEF Init
  <2>5. rlist \in Seq(Readers) /\ wlist \in Seq(Writers)
    BY DEF Init
  <2>. QED
    BY ZenonT(40), <2>1, <2>2, <2>4, <2>5 DEF Init, PipeTypes
<1>2. Ring
  BY PipeAssumption DEF Init, Ring, Round
<1>3. Queued /\ Chain
  BY EmptyHasNot DEF Init, Queued, Chain, Procs, Asleep
<1>. QED
  BY <1>1, <1>2, <1>3 DEF PipeInv

\* A step of p that leaves buffer, ends and lists alone, and blocks nobody.
LEMMA MoveKeepsPipe ==
  ASSUME PipeInv, NEW p \in Procs, NEW to \in PCs, pc' = [pc EXCEPT ![p] = to],
         UNCHANGED <<valid_cnt, read_pos, write_pos, data, sent, got>>,
         UNCHANGED <<rlist, wlist, writer, state>>, opened' \subseteq Procs, had_reader' \in BOOLEAN,
         len' \in [Procs -> 0 .. SIZE], sig' \subseteq Procs,
         interrupted' \in BOOLEAN, panicked' \in BOOLEAN, interrupted => interrupted',
         to = "parked" => p \in Readers /\ valid_cnt = 0 /\ writer # 0,
         ~interrupted' /\ p \in Readers /\ Has(rlist, p) =>
            to \in {"prepare", "test", "test_err", "parked", "finish"},
         ~interrupted' /\ p \in Readers /\ to = "out" => valid_cnt = 0 \/ pc[p] = "out"
  PROVE  PipeInv'
<1>1. pc \in [Procs -> PCs] /\ pc'[p] = to /\ \A q \in Procs : q # p => pc'[q] = pc[q]
  BY DEF PipeInv, PipeTypes
<1>2. PipeTypes' /\ writer' \in Nat
  BY ZenonT(40) DEF PipeInv, PipeTypes
<1>3. Ring'
  BY ZenonT(40) DEF PipeInv, Ring
<1>4. Queued'
  BY <1>1, PipeAssumption DEF PipeInv, Queued, Procs
<1>5. Chain'
  BY <1>1, PipeAssumption DEF PipeInv, Chain, Asleep, Procs
<1>. QED
  BY <1>2, <1>3, <1>4, <1>5 DEF PipeInv

\* The steps of the macro that move a process.
LEMMA WaitMoves ==
  ASSUME PipeInv, NEW p \in Procs,
         FirstTest(p) \/ PrepareErr(p) \/ Test(p) \/ TestErr(p) \/ Resume(p)
  PROVE  PipeInv'
<1>0. /\ len \in [Procs -> 0 .. SIZE] /\ sig \subseteq Procs /\ opened \subseteq Procs
      /\ {interrupted, panicked, had_reader} \subseteq BOOLEAN
      /\ Procs = Readers \cup Writers /\ Readers \cap Writers = {}
      /\ ~interrupted /\ p \in Readers /\ Has(rlist, p) =>
            pc[p] \in {"prepare", "test", "test_err", "parked", "finish"}
  BY PipeAssumption DEF PipeInv, PipeTypes, Procs, Queued
<1>. USE DEF buffer, ends, lists, rest, Goto, Move, PCs
<1>1. CASE FirstTest(p)
  <2>1. PICK to \in {"again", "prepare"} : Goto(p, "wait", to)
    BY ZenonT(40), <1>1 DEF FirstTest
  <2>. QED
    BY ZenonT(40), <1>0, <1>1, <2>1, MoveKeepsPipe DEF FirstTest
<1>2. CASE PrepareErr(p)
  BY ZenonT(40), <1>0, <1>2, MoveKeepsPipe DEF PrepareErr
<1>3. CASE Test(p)
  <2>1. CASE Ready(p)
    BY ZenonT(40), <1>0, <1>3, <2>1, MoveKeepsPipe DEF Test
  <2>2. CASE ~Ready(p)
    <3>1. p \in Readers /\ valid_cnt = 0 /\ writer # 0
      BY <1>0, <1>3, <2>2 DEF Test, Ready, readable, PipeInv, PipeTypes
    <3>. QED
      BY ZenonT(40), <1>0, <1>3, <2>2, <3>1, MoveKeepsPipe DEF Test
  <2>. QED
    BY <2>1, <2>2
<1>4. CASE TestErr(p)
  <2>1. CASE Ready(p)
    BY ZenonT(40), <1>0, <1>4, <2>1, MoveKeepsPipe DEF TestErr
  <2>2. CASE ~Ready(p)
    <3>1. len' \in [Procs -> 0 .. SIZE]
      BY <1>0, <1>4, <2>2, PipeAssumption DEF TestErr
    <3>. QED
      BY ZenonT(40), <1>0, <1>4, <2>2, <3>1, MoveKeepsPipe DEF TestErr
  <2>. QED
    BY <2>1, <2>2
<1>5. CASE Resume(p)
  BY ZenonT(40), <1>0, <1>5, MoveKeepsPipe DEF Resume
<1>. QED
  BY <1>1, <1>2, <1>3, <1>4, <1>5

\* The start of a call, and the end of a read at the end of the file.
LEMMA CallMoves ==
  ASSUME PipeInv, NEW p \in Procs,
         ReadEof(p) \/ \E n \in 1 .. SIZE : Begin(p, n)
  PROVE  PipeInv'
<1>0. /\ len \in [Procs -> 0 .. SIZE] /\ sig \subseteq Procs /\ opened \subseteq Procs
      /\ {interrupted, panicked, had_reader} \subseteq BOOLEAN
      /\ Procs = Readers \cup Writers /\ Readers \cap Writers = {}
      /\ ~interrupted /\ p \in Readers /\ Has(rlist, p) =>
            pc[p] \in {"prepare", "test", "test_err", "parked", "finish"}
  BY PipeAssumption DEF PipeInv, PipeTypes, Procs, Queued
<1>. USE DEF buffer, ends, lists, rest, Goto, Move, PCs
<1>1. CASE ReadEof(p)
  <2>1. len' \in [Procs -> 0 .. SIZE]
    BY <1>0, <1>1, PipeAssumption DEF ReadEof, Return
  <2>. QED
    BY ZenonT(40), <1>0, <1>1, <2>1, MoveKeepsPipe DEF ReadEof, Return, InLoop
<1>2. ASSUME NEW n \in 1 .. SIZE, Begin(p, n) PROVE PipeInv'
  <2>1. len' \in [Procs -> 0 .. SIZE]
    BY <1>0, <1>2, PipeAssumption DEF Begin
  <2>. QED
    BY ZenonT(40), <1>0, <1>2, <2>1, MoveKeepsPipe DEF Begin
<1>. QED
  BY <1>1, <1>2

\* A panic, a signal and its handling.
LEMMA StillKeeps ==
  ASSUME PipeInv, NEW p \in Procs,
         SchedulePanic(p) \/ ReadPanic(p) \/ WritePanic(p) \/ Signal(p) \/ HandleSignal(p)
  PROVE  PipeInv'
<1>1. /\ UNCHANGED <<valid_cnt, read_pos, write_pos, data, sent, got>>
      /\ UNCHANGED <<rlist, wlist, writer, opened, had_reader, pc, len, interrupted>>
  BY ZenonT(40) DEF SchedulePanic, ReadPanic, WritePanic, Signal, HandleSignal, buffer, ends, lists, rest
<1>2. /\ state' \in [Procs -> {"Runnable", "Blocked"}] /\ sig' \subseteq Procs /\ panicked' \in BOOLEAN
      /\ \A q \in Procs : state'[q] = "Blocked" => state[q] = "Blocked"
  <2>1. CASE SchedulePanic(p) \/ ReadPanic(p) \/ WritePanic(p)
    BY ZenonT(40), <2>1 DEF SchedulePanic, ReadPanic, WritePanic, rest, PipeInv, PipeTypes
  <2>2. CASE Signal(p)
    BY <2>2 DEF Signal, PipeInv, PipeTypes
  <2>3. CASE HandleSignal(p)
    BY <2>3 DEF HandleSignal, PipeInv, PipeTypes
  <2>. QED
    BY <2>1, <2>2, <2>3
<1>3. PipeTypes' /\ writer' \in Nat
  BY <1>1, <1>2 DEF PipeInv, PipeTypes
<1>4. Ring'
  BY ZenonT(30), <1>1 DEF PipeInv, Ring
<1>5. Queued'
  BY ZenonT(40), <1>1, <1>2 DEF PipeInv, Queued, Procs
<1>6. Chain'
  BY ZenonT(40), <1>1, <1>2 DEF PipeInv, Chain, Asleep, Procs
<1>. QED
  BY <1>3, <1>4, <1>5, <1>6 DEF PipeInv

\* prepare_to_wait_event puts a process in its queue.
LEMMA PrepareKeeps == ASSUME PipeInv, NEW p \in Procs, Prepare(p) PROVE PipeInv'
<1>1. /\ UNCHANGED <<valid_cnt, read_pos, write_pos, data, sent, got>>
      /\ UNCHANGED <<writer, opened, had_reader, len, sig, interrupted, panicked>>
      /\ pc[p] = "prepare" /\ pc' = [pc EXCEPT ![p] = "test"]
      /\ state' = [state EXCEPT ![p] = "Blocked"]
      /\ p \in Readers => rlist' = Append(rlist, p) /\ wlist' = wlist
      /\ p \in Writers => rlist' = rlist /\ wlist' = Append(wlist, p)
  BY PipeAssumption DEF Prepare, buffer, ends, rest, Goto, Move, Procs
<1>2. /\ rlist' \in Seq(Readers) /\ wlist' \in Seq(Writers)
      /\ \A q : Has(rlist', q) <=> Has(rlist, q) \/ (q = p /\ p \in Readers)
  <2>1. rlist \in Seq(Readers) /\ wlist \in Seq(Writers)
    BY DEF PipeInv, PipeTypes
  <2>2. CASE p \in Readers
    <3>1. rlist' = Append(rlist, p) /\ wlist' = wlist
      BY ZenonT(40), <1>1, <2>2
    <3>. QED
      BY ZenonT(40), <2>1, <2>2, <3>1, AppendHas
  <2>3. CASE p \in Writers
    <3>1. rlist' = rlist /\ wlist' = Append(wlist, p) /\ p \notin Readers
      BY ZenonT(40), <1>1, <2>3, PipeAssumption
    <3>. QED
      BY ZenonT(40), <2>1, <2>3, <3>1, AppendHas
  <2>. QED
    BY <2>2, <2>3 DEF Procs
<1>3. /\ pc \in [Procs -> PCs] /\ pc'[p] = "test" /\ \A q \in Procs : q # p => pc'[q] = pc[q]
      /\ state'[p] = "Blocked" /\ \A q \in Procs : q # p => state'[q] = state[q]
      /\ state' \in [Procs -> {"Runnable", "Blocked"}] /\ pc' \in [Procs -> PCs]
  BY <1>1 DEF PipeInv, PipeTypes, PCs
<1>4. PipeTypes' /\ writer' \in Nat
  BY ZenonT(40), <1>1, <1>2, <1>3 DEF PipeInv, PipeTypes
<1>5. Ring'
  BY ZenonT(40), <1>1 DEF PipeInv, Ring
<1>6. Queued'
  BY <1>1, <1>2, <1>3, PipeAssumption DEF PipeInv, Queued, Procs
<1>7. Chain'
  BY <1>1, <1>3, PipeAssumption DEF PipeInv, Chain, Asleep, Procs
<1>. QED
  BY <1>4, <1>5, <1>6, <1>7 DEF PipeInv

\* finish_wait takes it out.
LEMMA FinishKeeps == ASSUME PipeInv, NEW p \in Procs, FinishWait(p) PROVE PipeInv'
<1>1. /\ UNCHANGED <<valid_cnt, read_pos, write_pos, data, sent, got>>
      /\ UNCHANGED <<writer, opened, had_reader, len, sig, interrupted, panicked>>
      /\ pc[p] = "finish" /\ pc' = [pc EXCEPT ![p] = "again"]
      /\ state' = [state EXCEPT ![p] = "Runnable"]
      /\ rlist' \in Retained(rlist, Procs \ {p}) /\ wlist' \in Retained(wlist, Procs \ {p})
  BY DEF FinishWait, buffer, ends, rest, Goto, Move
<1>2. /\ rlist' \in Seq(Readers) /\ \A q \in Readers : Has(rlist', q) <=> Has(rlist, q) /\ q # p
      /\ wlist' \in Seq(Writers)
  <2>1. rlist \in Seq(Readers) /\ wlist \in Seq(Writers)
    BY DEF PipeInv, PipeTypes
  <2>. QED
    BY <1>1, <2>1, RetainedHas DEF Procs
<1>3. /\ pc \in [Procs -> PCs] /\ pc'[p] = "again" /\ \A q \in Procs : q # p => pc'[q] = pc[q]
      /\ state'[p] = "Runnable" /\ \A q \in Procs : q # p => state'[q] = state[q]
      /\ state' \in [Procs -> {"Runnable", "Blocked"}] /\ pc' \in [Procs -> PCs]
  BY <1>1 DEF PipeInv, PipeTypes, PCs
<1>4. PipeTypes' /\ writer' \in Nat
  BY ZenonT(40), <1>1, <1>2, <1>3 DEF PipeInv, PipeTypes
<1>5. Ring'
  BY ZenonT(40), <1>1 DEF PipeInv, Ring
<1>6. Queued'
  BY <1>1, <1>2, <1>3, PipeAssumption DEF PipeInv, Queued, Procs
<1>7. Chain'
  BY <1>1, <1>3, PipeAssumption DEF PipeInv, Chain, Asleep, Procs
<1>. QED
  BY <1>4, <1>5, <1>6, <1>7 DEF PipeInv

\* A step of p that wakes processes and takes those that it wakes from the lists.
LEMMA WakeKeeps ==
  ASSUME PipeInv, NEW p \in Procs, NEW to \in {"out", "wait"}, NEW U \in SUBSET Readers,
         pc[p] \in {"loop", "again"}, pc' = [pc EXCEPT ![p] = to],
         UNCHANGED <<writer, opened, had_reader, sig, interrupted, panicked>>,
         len' \in [Procs -> 0 .. SIZE], rlist' \in Seq(Readers), wlist' \in Seq(Writers),
         state' \in [Procs -> {"Runnable", "Blocked"}],
         \A q \in Readers : state'[q] = "Blocked" <=> state[q] = "Blocked" /\ q \notin U,
         \A q : Has(rlist', q) => Has(rlist, q),
         \A q : Has(rlist, q) => Has(rlist', q) \/ q \in U
  PROVE  /\ pc' \in [Procs -> PCs] /\ Queued'
         /\ writer = 0 => \A q \in Readers : ~Asleep(q)'
         /\ \A q \in Readers : Asleep(q)' => Asleep(q)
         /\ \A q \in Readers : q # p => pc'[q] = pc[q]
         /\ ~interrupted => ~Has(rlist, p) \/ p \in Writers
<1>1. pc \in [Procs -> PCs] /\ pc'[p] = to /\ \A q \in Procs : q # p => pc'[q] = pc[q]
  BY DEF PipeInv, PipeTypes
<1>2. pc' \in [Procs -> PCs]
  BY DEF PipeInv, PipeTypes, PCs
<1>3. ~interrupted => ~Has(rlist, p) \/ p \in Writers
  BY ZenonT(40) DEF PipeInv, Queued, Procs
<1>4. Queued'
  BY <1>1, <1>3, PipeAssumption DEF PipeInv, Queued, Procs
<1>5. \A q \in Readers : Asleep(q)' => Asleep(q)
  BY <1>1 DEF Asleep, Procs
<1>6. writer = 0 => \A q \in Readers : ~Asleep(q)'
  BY <1>5 DEF PipeInv, Chain
<1>. QED
  BY <1>1, <1>2, <1>3, <1>4, <1>5, <1>6 DEF Procs

\* The length of a call that goes on or has ended.
LEMMA CallLength ==
  ASSUME PipeInv, NEW p \in Procs, UNCHANGED len \/ len' = [len EXCEPT ![p] = 0]
  PROVE  len' \in [Procs -> 0 .. SIZE]
<1>1. len \in [Procs -> 0 .. SIZE] /\ 0 \in 0 .. SIZE
  BY PipeAssumption DEF PipeInv, PipeTypes
<1>2. CASE len' = [len EXCEPT ![p] = 0]
  BY <1>1, <1>2
<1>. QED
  BY <1>1, <1>2

\* An empty pipe wakes a writer.
LEMMA EmptyKeeps == ASSUME PipeInv, NEW p \in Procs, ReadEmpty(p) PROVE PipeInv'
<1>1. /\ UNCHANGED <<valid_cnt, read_pos, write_pos, data, sent, got>>
      /\ UNCHANGED <<writer, opened, had_reader, rlist, sig, interrupted, panicked>>
      /\ wlist' = AfterWakeup(wlist) /\ Awaken(WokenFront(wlist))
      /\ pc[p] \in {"loop", "again"} /\ valid_cnt = 0
      /\ UNCHANGED len \/ len' = [len EXCEPT ![p] = 0]
  BY DEF ReadEmpty, buffer, ends, rest, NonBlockingReturn, Return, InLoop
<1>2. PICK to \in {"out", "wait"} : pc' = [pc EXCEPT ![p] = to]
  BY DEF ReadEmpty, NonBlockingReturn, Return, Move
<1>3. PipeTypes /\ wlist \in Seq(Writers) /\ rlist \in Seq(Readers) /\ Writers \in SUBSET Procs
  BY DEF PipeInv, PipeTypes, Procs
<1>4. wlist' \in Seq(Writers) /\ WokenFront(wlist) \in SUBSET Writers
  BY <1>1, <1>3, FrontWakes
<1>5. /\ state' \in [Procs -> {"Runnable", "Blocked"}]
      /\ \A q \in Readers : state'[q] = "Blocked" <=> state[q] = "Blocked"
  <2>1. \A q \in Readers : q \in Procs /\ q \notin WokenFront(wlist)
    BY <1>4, PipeAssumption DEF Procs
  <2>. QED
    BY ZenonT(40), <1>1, <1>3, <2>1, AwakenWakes
<1>6. len' \in [Procs -> 0 .. SIZE]
  BY <1>1, CallLength
<1>7. /\ pc' \in [Procs -> PCs] /\ Queued'
      /\ writer = 0 => \A q \in Readers : ~Asleep(q)'
  <2>1. /\ {} \in SUBSET Readers
        /\ \A q \in Readers : state'[q] = "Blocked" <=> state[q] = "Blocked" /\ q \notin {}
    BY ZenonT(40), <1>5
  <2>2. /\ UNCHANGED <<writer, opened, had_reader, sig, interrupted, panicked>>
        /\ rlist' \in Seq(Readers) /\ pc[p] \in {"loop", "again"}
        /\ \A q : Has(rlist', q) => Has(rlist, q)
        /\ \A q : Has(rlist, q) => Has(rlist', q) \/ q \in {}
    BY ZenonT(40), <1>1, <1>3
  <2>. QED
    BY ZenonT(40), <1>2, <1>4, <1>5, <1>6, <2>1, <2>2, WakeKeeps
<1>8. PipeTypes' /\ writer' \in Nat
  BY <1>1, <1>4, <1>5, <1>6, <1>7 DEF PipeInv, PipeTypes
<1>9. Ring'
  BY ZenonT(40), <1>1 DEF PipeInv, Ring
<1>10. Chain'
  BY <1>1, <1>7 DEF Chain
<1>. QED
  BY <1>7, <1>8, <1>9, <1>10 DEF PipeInv

\* A full one wakes a reader.
LEMMA FullKeeps == ASSUME PipeInv, NEW p \in Procs, WriteFull(p) PROVE PipeInv'
<1>1. /\ UNCHANGED <<valid_cnt, read_pos, write_pos, data, sent, got>>
      /\ UNCHANGED <<writer, opened, had_reader, wlist, sig, interrupted, panicked>>
      /\ rlist' = AfterWakeup(rlist) /\ Awaken(WokenFront(rlist))
      /\ pc[p] \in {"loop", "again"} /\ p \in Writers
      /\ UNCHANGED len \/ len' = [len EXCEPT ![p] = 0]
  BY DEF WriteFull, buffer, ends, rest, NonBlockingReturn, Return, InLoop
<1>2. PICK to \in {"out", "wait"} : pc' = [pc EXCEPT ![p] = to]
  BY DEF WriteFull, NonBlockingReturn, Return, Move
<1>3. PipeTypes /\ wlist \in Seq(Writers) /\ rlist \in Seq(Readers) /\ Readers \in SUBSET Procs
  BY DEF PipeInv, PipeTypes, Procs
<1>4. /\ rlist' \in Seq(Readers) /\ WokenFront(rlist) \in SUBSET Readers
      /\ \A q : Has(rlist', q) => Has(rlist, q)
      /\ \A q : Has(rlist, q) => Has(rlist', q) \/ q \in WokenFront(rlist)
  BY <1>1, <1>3, FrontWakes
<1>5. /\ state' \in [Procs -> {"Runnable", "Blocked"}]
      /\ \A q \in Readers : state'[q] = "Blocked" <=> state[q] = "Blocked" /\ q \notin WokenFront(rlist)
  BY ZenonT(40), <1>1, <1>3, AwakenWakes DEF Procs
<1>6. len' \in [Procs -> 0 .. SIZE]
  BY <1>1, CallLength
<1>7. /\ pc' \in [Procs -> PCs] /\ Queued'
      /\ writer = 0 => \A q \in Readers : ~Asleep(q)'
      /\ \A q \in Readers : Asleep(q)' => Asleep(q)
      /\ \A q \in Readers : q # p => pc'[q] = pc[q]
  BY ZenonT(30), <1>1, <1>2, <1>3, <1>4, <1>5, <1>6, WakeKeeps
<1>8. PipeTypes' /\ writer' \in Nat
  BY <1>1, <1>4, <1>5, <1>6, <1>7 DEF PipeInv, PipeTypes
<1>9. Ring'
  BY ZenonT(40), <1>1 DEF PipeInv, Ring
<1>10. Chain'
  <2>1. \A q \in Readers : pc'[q] = pc[q]
    BY <1>1, <1>7, PipeAssumption
  <2>. QED
    BY <1>1, <1>7, <2>1 DEF PipeInv, Chain
<1>. QED
  BY <1>7, <1>8, <1>9, <1>10 DEF PipeInv

\* A write wakes a reader.
LEMMA WriteKeeps == ASSUME PipeInv, NEW p \in Procs, WriteDone(p) PROVE PipeInv'
<1> DEFINE woken == (IF valid_cnt + len[p] = SIZE THEN {} ELSE WokenFront(wlist))
                    \cup WokenFront(rlist)
<1>1. /\ UNCHANGED <<read_pos, got, writer, opened, had_reader, sig, interrupted, panicked>>
      /\ rlist' = AfterWakeup(rlist) /\ Awaken(woken)
      /\ wlist' = wlist \/ wlist' = AfterWakeup(wlist)
      /\ pc[p] \in {"loop", "again"} /\ p \in Writers
      /\ len' = [len EXCEPT ![p] = 0] /\ pc' = [pc EXCEPT ![p] = "out"]
  BY DEF WriteDone, ends, rest, Return, InLoop, Move
<1>2. /\ write_pos' \in Pos /\ valid_cnt' \in 0 .. SIZE /\ sent' \in Stamp /\ data' \in [Pos -> Stamp]
      /\ Ring'
  <2>1. len[p] \in 0 .. SIZE /\ len[p] + valid_cnt <= SIZE
    BY PipeAssumption DEF WriteDone, PipeInv, PipeTypes, NoRoom
  <2>2. /\ write_pos' = (write_pos + len[p]) % SIZE /\ valid_cnt' = valid_cnt + len[p]
        /\ sent' = (sent + len[p]) % STAMPS
        /\ data' = [i \in Pos |->
                      IF \E k \in 0 .. len[p] - 1 : Slot(write_pos, k) = i
                        THEN (sent + (CHOOSE k \in 0 .. len[p] - 1 : Slot(write_pos, k) = i)) % STAMPS
                        ELSE data[i]]
    BY DEF WriteDone
  <2>. QED
    BY <1>1, <2>1, <2>2, RingWrite DEF PipeInv
<1>3. PipeTypes /\ wlist \in Seq(Writers) /\ rlist \in Seq(Readers)
      /\ Readers \in SUBSET Procs /\ Writers \in SUBSET Procs
  BY DEF PipeInv, PipeTypes, Procs
<1>4. /\ rlist' \in Seq(Readers) /\ WokenFront(rlist) \in SUBSET Readers
      /\ \A q : Has(rlist', q) => Has(rlist, q)
      /\ \A q : Has(rlist, q) => Has(rlist', q) \/ q \in WokenFront(rlist)
      /\ wlist' \in Seq(Writers) /\ WokenFront(wlist) \in SUBSET Writers
  BY <1>1, <1>3, FrontWakes
<1>5. \A q \in Readers : q \in Procs /\ (q \in woken <=> q \in WokenFront(rlist))
  BY <1>4, PipeAssumption DEF Procs
<1>51. WokenFront(rlist) \in SUBSET woken
  OBVIOUS
<1>. HIDE DEF woken
<1>6. /\ state' \in [Procs -> {"Runnable", "Blocked"}]
      /\ \A q \in Readers : state'[q] = "Blocked" <=> state[q] = "Blocked" /\ q \notin WokenFront(rlist)
  BY <1>1, <1>3, <1>5, AwakenWakes
<1>7. len' \in [Procs -> 0 .. SIZE]
  BY ZenonT(40), <1>1, CallLength
<1>8. /\ pc' \in [Procs -> PCs] /\ Queued'
      /\ writer = 0 => \A q \in Readers : ~Asleep(q)'
      /\ \A q \in Readers : Asleep(q)' => Asleep(q)
      /\ \A q \in Readers : q # p => pc'[q] = pc[q]
  BY ZenonT(40), <1>1, <1>4, <1>6, <1>7, WakeKeeps
<1>9. PipeTypes' /\ writer' \in Nat
  BY ZenonT(40), <1>1, <1>2, <1>4, <1>6, <1>7, <1>8 DEF PipeInv, PipeTypes
<1>10. Chain'
  <2>1. ASSUME NEW q \in Readers, Asleep(q), ~interrupted
        PROVE  \E r \in Readers : pc'[r] # "out" /\ ~Asleep(r)'
    <3>1. Has(rlist, q)
      BY <2>1 DEF PipeInv, Queued, Asleep
    <3>2. Head(rlist) \in Readers /\ Has(rlist, Head(rlist)) /\ state'[Head(rlist)] # "Blocked"
      BY <1>1, <1>3, <1>51, <3>1, FirstIsUp
    <3>3. PICK r \in Readers : r = Head(rlist)
      BY <3>2
    <3>4. pc[r] # "out" /\ pc'[r] = pc[r] /\ state'[r] # "Blocked"
      BY ZenonT(40), <1>1, <1>8, <2>1, <3>2, <3>3, PipeAssumption DEF PipeInv, Queued
    <3>. QED
      BY <3>4 DEF Asleep
  <2>. QED
    BY <1>1, <1>8, <2>1 DEF Chain
<1>. QED
  BY <1>2, <1>8, <1>9, <1>10 DEF PipeInv

\* So does a read that leaves bytes behind.
LEMMA ReadKeeps == ASSUME PipeInv, NEW p \in Procs, ReadDone(p) PROVE PipeInv'
<1> DEFINE num == ReadNum(len[p])
           front == IF valid_cnt - num > 0 THEN WokenFront(rlist) ELSE {}
           woken == front \cup WokenFront(wlist)
<1>1. /\ UNCHANGED <<write_pos, data, sent, writer, opened, had_reader, sig, interrupted, panicked>>
      /\ rlist' = (IF valid_cnt - num > 0 THEN AfterWakeup(rlist) ELSE rlist) /\ Awaken(woken)
      /\ wlist' = AfterWakeup(wlist)
      /\ pc[p] \in {"loop", "again"} /\ p \in Readers
      /\ len' = [len EXCEPT ![p] = 0] /\ pc' = [pc EXCEPT ![p] = "out"]
      /\ valid_cnt' = valid_cnt - num
  BY DEF ReadDone, ends, rest, Return, InLoop, Move
<1>2. read_pos' \in Pos /\ valid_cnt' \in 0 .. SIZE /\ got' \in Stamp /\ Ring'
  <2>1. num \in 0 .. valid_cnt
    BY PipeAssumption DEF PipeInv, PipeTypes, ReadNum
  <2>2. read_pos' = (read_pos + num) % SIZE /\ got' = (got + num) % STAMPS
    BY DEF ReadDone
  <2>. QED
    BY <1>1, <2>1, <2>2, RingRead DEF PipeInv
<1>3. PipeTypes /\ wlist \in Seq(Writers) /\ rlist \in Seq(Readers)
      /\ Readers \in SUBSET Procs /\ Writers \in SUBSET Procs
  BY DEF PipeInv, PipeTypes, Procs
<1>4. /\ rlist' \in Seq(Readers) /\ front \in SUBSET Readers
      /\ \A q : Has(rlist', q) => Has(rlist, q)
      /\ \A q : Has(rlist, q) => Has(rlist', q) \/ q \in front
      /\ wlist' \in Seq(Writers) /\ WokenFront(wlist) \in SUBSET Writers
  BY <1>1, <1>3, FrontWakes
<1>5. \A q \in Readers : q \in Procs /\ (q \in woken <=> q \in front)
  BY <1>4, PipeAssumption DEF Procs
<1>51. valid_cnt' > 0 => WokenFront(rlist) \in SUBSET woken
  BY <1>1
<1>. HIDE DEF woken, front, num
<1>6. /\ state' \in [Procs -> {"Runnable", "Blocked"}]
      /\ \A q \in Readers : state'[q] = "Blocked" <=> state[q] = "Blocked" /\ q \notin front
  BY <1>1, <1>3, <1>5, AwakenWakes
<1>7. len' \in [Procs -> 0 .. SIZE]
  BY ZenonT(40), <1>1, CallLength
<1>8. /\ pc' \in [Procs -> PCs] /\ Queued'
      /\ writer = 0 => \A q \in Readers : ~Asleep(q)'
      /\ \A q \in Readers : Asleep(q)' => Asleep(q)
      /\ \A q \in Readers : q # p => pc'[q] = pc[q]
      /\ ~interrupted => ~Has(rlist, p) \/ p \in Writers
  BY ZenonT(30), <1>1, <1>4, <1>6, <1>7, WakeKeeps
<1>9. PipeTypes' /\ writer' \in Nat
  BY ZenonT(40), <1>1, <1>2, <1>4, <1>6, <1>7, <1>8 DEF PipeInv, PipeTypes
<1>10. Chain'
  <2>1. ASSUME NEW q \in Readers, Asleep(q), ~interrupted, valid_cnt' > 0
        PROVE  \E r \in Readers : pc'[r] # "out" /\ ~Asleep(r)'
    <3>1. Has(rlist, q)
      BY <2>1 DEF PipeInv, Queued, Asleep
    <3>2. Head(rlist) \in Readers /\ Has(rlist, Head(rlist)) /\ state'[Head(rlist)] # "Blocked"
      BY <1>1, <1>3, <1>51, <2>1, <3>1, FirstIsUp
    <3>3. PICK r \in Readers : r = Head(rlist)
      BY <3>2
    <3>4. pc[r] # "out" /\ pc'[r] = pc[r] /\ state'[r] # "Blocked"
      BY ZenonT(40), <1>1, <1>8, <2>1, <3>2, <3>3, PipeAssumption DEF PipeInv, Queued
    <3>. QED
      BY <3>4 DEF Asleep
  <2>. QED
    BY <1>1, <1>8, <2>1 DEF Chain
<1>. QED
  BY <1>2, <1>8, <1>9, <1>10 DEF PipeInv

\* A step that opens or closes an end: it wakes readers only, or all of them.
LEMMA EndKeeps ==
  ASSUME PipeInv,
         UNCHANGED <<valid_cnt, read_pos, write_pos, data, sent, got, pc, len, sig, interrupted, panicked>>,
         opened' \subseteq Procs, had_reader' \in BOOLEAN, writer' \in Nat,
         rlist' \in Seq(Readers), wlist' \in Seq(Writers),
         state' \in [Procs -> {"Runnable", "Blocked"}],
         \A q : Has(rlist', q) => Has(rlist, q),
         \/ /\ rlist' = rlist /\ (writer' = 0 => writer = 0)
            /\ \A q \in Readers : state'[q] = "Blocked" <=> state[q] = "Blocked"
         \/ \A q \in Readers : state'[q] # "Blocked"
  PROVE  PipeInv'
<1>1. PipeTypes'
  BY ZenonT(40) DEF PipeInv, PipeTypes
<1>2. Ring'
  BY ZenonT(40) DEF PipeInv, Ring
<1>3. Queued'
  BY DEF PipeInv, Queued
<1>4. Chain'
  BY DEF PipeInv, Chain, Asleep
<1>. QED
  BY ZenonT(40), <1>1, <1>2, <1>3, <1>4 DEF PipeInv

\* Opening an end.
LEMMA OpenKeeps ==
  ASSUME PipeInv, NEW p \in Procs, OpenRead(p) \/ OpenWrite(p)
  PROVE  PipeInv'
<1>1. /\ UNCHANGED <<valid_cnt, read_pos, write_pos, data, sent, got, pc, len, sig, interrupted, panicked>>
      /\ UNCHANGED <<rlist, wlist, state>>
      /\ opened' = opened \cup {p} /\ had_reader' \in {had_reader, TRUE} /\ writer' \in {writer, writer + 1}
  BY ZenonT(40) DEF OpenRead, OpenWrite, buffer, lists, rest
<1>2. /\ PipeTypes /\ writer \in Nat
      /\ opened \subseteq Procs /\ had_reader \in BOOLEAN
      /\ rlist \in Seq(Readers) /\ wlist \in Seq(Writers) /\ state \in [Procs -> {"Runnable", "Blocked"}]
  BY ZenonT(40) DEF PipeInv, PipeTypes
<1>3. writer' \in Nat /\ (writer' = 0 => writer = 0)
  BY <1>1, <1>2
<1>4. opened' \subseteq Procs /\ had_reader' \in BOOLEAN
  BY ZenonT(40), <1>1, <1>2
<1>. QED
  BY ZenonT(40), <1>1, <1>2, <1>3, <1>4, EndKeeps

\* Closing the reader's.
LEMMA CloseReadKeeps == ASSUME PipeInv, NEW p \in Procs, CloseRead(p) PROVE PipeInv'
<1>1. /\ UNCHANGED <<valid_cnt, read_pos, write_pos, data, sent, got, pc, len, sig, interrupted, panicked>>
      /\ UNCHANGED <<rlist, writer, had_reader>>
      /\ opened' = opened \ {p} /\ wlist' \in AfterWakeupAll(wlist) \cup {wlist}
      /\ Awaken(IF reader = 1 THEN WokenAll(wlist) ELSE {})
  BY DEF CloseRead, buffer, rest
<1>2. /\ PipeTypes /\ writer \in Nat
      /\ opened \subseteq Procs /\ had_reader \in BOOLEAN
      /\ rlist \in Seq(Readers) /\ wlist \in Seq(Writers) /\ state \in [Procs -> {"Runnable", "Blocked"}]
  BY ZenonT(40) DEF PipeInv, PipeTypes
<1>3. opened' \subseteq Procs /\ had_reader' \in BOOLEAN /\ writer' \in Nat
  BY <1>1, <1>2
<1>4. wlist' \in Seq(Writers)
  BY <1>1, <1>2, RetainedHas DEF AfterWakeupAll
<1>5. \A q \in Readers : q \in Procs /\ q \notin (IF reader = 1 THEN WokenAll(wlist) ELSE {})
  BY <1>2, PipeAssumption DEF WokenAll, Has, Procs
<1>6. state' \in [Procs -> {"Runnable", "Blocked"}]
      /\ \A q \in Readers : state'[q] = "Blocked" <=> state[q] = "Blocked"
  BY ZenonT(40), <1>1, <1>2, <1>5, AwakenWakes
<1>. QED
  BY ZenonT(40), <1>1, <1>2, <1>3, <1>4, <1>6, EndKeeps

\* The last writer that leaves wakes all the readers.
LEMMA CloseWriteKeeps ==
  ASSUME PipeInv, NEW p \in Procs, CloseWrite(p), writer >= 1
  PROVE  PipeInv'
<1>1. /\ UNCHANGED <<valid_cnt, read_pos, write_pos, data, sent, got, pc, len, sig, interrupted, panicked>>
      /\ UNCHANGED <<wlist, had_reader>>
      /\ opened' = opened \ {p} /\ writer' = writer - 1
      /\ writer = 1 => rlist' \in AfterWakeupAll(rlist) /\ Awaken(WokenAll(rlist))
      /\ writer # 1 => rlist' = rlist /\ Awaken({})
  BY DEF CloseWrite, buffer, rest
<1>2. /\ PipeTypes /\ writer \in Nat
      /\ opened \subseteq Procs /\ had_reader \in BOOLEAN
      /\ rlist \in Seq(Readers) /\ wlist \in Seq(Writers) /\ state \in [Procs -> {"Runnable", "Blocked"}]
  BY ZenonT(40) DEF PipeInv, PipeTypes
<1>3. opened' \subseteq Procs /\ had_reader' \in BOOLEAN /\ writer' \in Nat
      /\ (writer # 1 => writer' # 0)
  BY <1>1, <1>2
<1>4. CASE writer = 1
  <2>1. rlist' \in Seq(Readers) /\ \A q : Has(rlist', q) => Has(rlist, q)
    BY <1>1, <1>2, <1>4, RetainedHas DEF AfterWakeupAll
  <2>2. \A q \in Readers : q \in Procs /\ (state[q] = "Blocked" => q \in WokenAll(rlist))
    BY DEF PipeInv, Queued, WokenAll, Procs
  <2>3. state' \in [Procs -> {"Runnable", "Blocked"}] /\ \A q \in Readers : state'[q] # "Blocked"
    BY ZenonT(40), <1>1, <1>2, <1>4, <2>2, AwakenWakes
  <2>. QED
    BY ZenonT(40), <1>1, <1>2, <1>3, <2>1, <2>3, EndKeeps
<1>5. CASE writer # 1
  <2>1. state' \in [Procs -> {"Runnable", "Blocked"}]
        /\ \A q \in Readers : state'[q] = "Blocked" <=> state[q] = "Blocked"
    BY <1>1, <1>2, <1>5, AwakenWakes DEF Procs
  <2>. QED
    BY ZenonT(40), <1>1, <1>2, <1>3, <1>5, <2>1, EndKeeps
<1>. QED
  BY ZenonT(40), <1>4, <1>5

\* Every step keeps the invariant.
LEMMA PipeNext ==
  ASSUME PipeInv, [Next]_vars, \A p \in Procs : CloseWrite(p) => writer >= 1
  PROVE  PipeInv'
<1>1. CASE UNCHANGED vars
  BY ZenonT(40), <1>1 DEF vars, buffer, ends, lists, rest, PipeInv, PipeTypes, Ring, Queued, Chain, Asleep
<1>2. ASSUME NEW p \in Procs, WaitStep(p) PROVE PipeInv'
  BY ZenonT(40), <1>2, WaitMoves, StillKeeps, PrepareKeeps, FinishKeeps DEF WaitStep
<1>3. ASSUME NEW p \in Procs, PipeStep(p) PROVE PipeInv'
  BY ZenonT(40), <1>3, CallMoves, StillKeeps, EmptyKeeps, FullKeeps, WriteKeeps, ReadKeeps, OpenKeeps,
     CloseReadKeeps, CloseWriteKeeps
     DEF PipeStep, WriteBegin
<1>. QED
  BY ZenonT(40), <1>1, <1>2, <1>3 DEF Next

\* What the invariant says.
LEMMA PipeInvSays == PipeInv => StreamIntact /\ NoSleepThroughReady
<1>. SUFFICES ASSUME PipeInv PROVE StreamIntact /\ NoSleepThroughReady
  OBVIOUS
<1>1. StreamIntact
  BY ZenonT(40), RingIsStream DEF PipeInv
<1>2. NoSleepThroughReady
  BY PipeAssumption
     DEF PipeInv, PipeTypes, Queued, Chain, NoSleepThroughReady, Quiet, Ready, readable, Asleep, Procs
<1>. QED
  BY ZenonT(40), <1>1, <1>2

------------------------------------------------------------------------------
(* The open ends, counted.                                                  *)

Ends ==
    /\ IsFiniteSet(opened)
    /\ reader = Cardinality(opened \cap Readers)
    /\ writer = Cardinality(opened \cap Writers)

INSTANCE FiniteSetTheorems

\* Opening one end and closing it again.
LEMMA EndsCount ==
  ASSUME NEW T, IsFiniteSet(opened), NEW p \in T
  PROVE  /\ Cardinality(opened \cap T) \in Nat
         /\ p \notin opened => Cardinality((opened \cup {p}) \cap T) = Cardinality(opened \cap T) + 1
         /\ p \in opened => /\ Cardinality((opened \ {p}) \cap T) = Cardinality(opened \cap T) - 1
                            /\ Cardinality(opened \cap T) >= 1
<1>1. IsFiniteSet(opened \cap T)
  BY FS_Intersection
<1>2. (opened \cup {p}) \cap T = (opened \cap T) \cup {p}
      /\ (opened \ {p}) \cap T = (opened \cap T) \ {p}
  OBVIOUS
<1>3. Cardinality(opened \cap T) \in Nat /\ Cardinality((opened \cap T) \ {p}) \in Nat
  BY <1>1, FS_RemoveElement, FS_CardinalityType
<1>4. /\ p \notin opened => Cardinality((opened \cup {p}) \cap T) = Cardinality(opened \cap T) + 1
      /\ p \in opened => Cardinality((opened \ {p}) \cap T) = Cardinality(opened \cap T) - 1
  BY ZenonT(40), <1>1, <1>2, FS_AddElement, FS_RemoveElement
<1>. QED
  BY <1>2, <1>3, <1>4

\* Opening and closing keeps the count.
LEMMA EndsKept == ASSUME Ends, NEW p \in Procs, WaitStep(p) \/ PipeStep(p) PROVE Ends'
<1>1. CASE OpenRead(p)
  <2>1. (opened \cup {p}) \cap Writers = opened \cap Writers
    BY <1>1, PipeAssumption DEF OpenRead
  <2>2. IsFiniteSet(opened \cup {p})
    BY FS_AddElement DEF Ends
  <2>. QED
    BY ZenonT(40), <1>1, <2>1, <2>2, EndsCount DEF OpenRead, Ends
<1>2. CASE OpenWrite(p)
  <2>1. (opened \cup {p}) \cap Readers = opened \cap Readers
    BY <1>2, PipeAssumption DEF OpenWrite
  <2>2. IsFiniteSet(opened \cup {p})
    BY FS_AddElement DEF Ends
  <2>. QED
    BY ZenonT(40), <1>2, <2>1, <2>2, EndsCount DEF OpenWrite, Ends
<1>3. CASE CloseRead(p)
  <2>1. (opened \ {p}) \cap Writers = opened \cap Writers
    BY <1>3, PipeAssumption DEF CloseRead
  <2>2. IsFiniteSet(opened \ {p})
    BY FS_RemoveElement DEF Ends
  <2>. QED
    BY ZenonT(40), <1>3, <2>1, <2>2, EndsCount DEF CloseRead, Ends
<1>4. CASE CloseWrite(p)
  <2>1. (opened \ {p}) \cap Readers = opened \cap Readers
    BY <1>4, PipeAssumption DEF CloseWrite
  <2>2. IsFiniteSet(opened \ {p})
    BY FS_RemoveElement DEF Ends
  <2>. QED
    BY ZenonT(40), <1>4, <2>1, <2>2, EndsCount DEF CloseWrite, Ends
<1>5. CASE WaitStep(p)
  BY ZenonT(40), <1>5 DEF WaitStep, FirstTest, Prepare, PrepareErr, Test, SchedulePanic, TestErr, Resume,
              FinishWait, Signal, HandleSignal, ends, Ends
<1>6. CASE \/ \E n \in 1 .. SIZE : p \in Readers /\ Begin(p, n)
           \/ \E n \in 1 .. SIZE : WriteBegin(p, n)
           \/ ReadEof(p) \/ ReadEmpty(p) \/ ReadDone(p) \/ ReadPanic(p)
           \/ WriteFull(p) \/ WriteDone(p) \/ WritePanic(p)
  BY ZenonT(40), <1>6 DEF Begin, WriteBegin, ReadEof, ReadEmpty, ReadDone, ReadPanic, WriteFull, WriteDone,
              WritePanic, ends, Ends
<1>. QED
  BY <1>1, <1>2, <1>3, <1>4, <1>5, <1>6 DEF PipeStep

\* A writer that closes is counted.
LEMMA WriterCounted == ASSUME Ends, NEW p \in Procs, CloseWrite(p) PROVE writer >= 1
<1>1. p \in Writers /\ p \in opened
  BY ZenonT(40) DEF CloseWrite
<1>2. Cardinality(opened \cap Writers) >= 1
  BY ZenonT(40), <1>1, EndsCount DEF Ends
<1>. QED
  BY ZenonT(40), <1>2 DEF Ends

\* The invariant always holds, and the count is exact.
LEMMA PipeAlways == Spec => [](PipeInv /\ Ends)
<1>1. Init => Ends
  BY FS_EmptySet DEF Init, Ends
<1>2. PipeInv /\ Ends /\ [Next]_vars => PipeInv' /\ Ends'
  <2>. SUFFICES ASSUME PipeInv, Ends, [Next]_vars PROVE PipeInv' /\ Ends'
    BY ZenonT(40)
  <2>1. Ends'
    <3>1. CASE UNCHANGED vars
      BY ZenonT(40), <3>1 DEF vars, ends, Ends
    <3>. QED
      BY ZenonT(40), <3>1, EndsKept DEF Next
  <2>. QED
    BY ZenonT(40), <2>1, PipeNext, WriterCounted
<1>. QED
  BY <1>1, <1>2, PipeInit, PTL DEF Spec

\* The bytes in the ring buffer are the ones written and not read, in order, for every
\* length of the buffer and any readers and writers.
THEOREM StreamsAreIntact == Spec => []StreamIntact
BY PipeInvSays, PipeAlways, PTL

\* No reader sleeps when there are bytes, or no writer, and nobody else is in the pipe.
THEOREM ReadersAreWoken == Spec => []NoSleepThroughReady
BY PipeInvSays, PipeAlways, PTL

\* The pipe keeps its types, and counts its open ends.
THEOREM PipeTypeCorrect == Spec => []TypeOK
<1>1. PipeInv /\ Ends => TypeOK
  BY ZenonT(40) DEF PipeInv, PipeTypes, Ends, TypeOK
<1>. QED
  BY <1>1, PipeAlways, PTL
=============================================================================
