--------------------------------- MODULE Pipe ---------------------------------
(***************************************************************************)
(* LockedPipeInode of ipc/pipe.rs: a ring buffer behind a spin lock, with  *)
(* a wait queue for readers and one for writers.                           *)
(*                                                                         *)
(* What happens under the inner lock is one step, its wake-ups included: a *)
(* process that such a wake-up has popped cannot block again before the    *)
(* waker drops the lock, because its next test of the condition needs it.  *)
(* The wait itself is the macro of module WaitQueue, in its steps.  Each   *)
(* process has an open file of its own.  Byte n of the stream is written   *)
(* as n % STAMPS, so that a lost, repeated or misplaced byte shows.        *)
(***************************************************************************)
EXTENDS Lists, FiniteSets

CONSTANTS
    Readers, Writers,   \* the processes at the two ends
    Signalled,          \* the processes that may be interrupted
    SIZE,               \* PIPE_BUFF_SIZE
    STAMPS,             \* number of different byte stamps, more than SIZE
    MaxLen              \* bound on both lists: interrupted calls leave entries

ASSUME PipeAssumption ==
    /\ Readers \cap Writers = {}
    /\ SIZE \in Nat \ {0} /\ STAMPS \in Nat /\ STAMPS > SIZE
    /\ MaxLen \in Nat

VARIABLES
    valid_cnt, read_pos, write_pos, data,    \* InnerPipeInode
    reader, writer, had_reader,
    rlist, wlist,     \* wait_list of read_wait_queue and write_wait_queue
    sent, got,        \* bytes written and read so far, modulo STAMPS
    opened,           \* the processes whose end is open
    pc, len,          \* where each process is; the length of its call
    state, sig,       \* the state of each process; HAS_PENDING_SIGNAL
    interrupted,      \* some call has returned because of a signal
    panicked          \* copy_from_slice or schedule() has panicked

buffer == <<valid_cnt, read_pos, write_pos, data, sent, got>>
ends == <<reader, writer, had_reader, opened>>
lists == <<rlist, wlist>>
rest == <<sig, interrupted>>
vars == <<buffer, ends, lists, pc, len, state, rest, panicked>>

Procs == Readers \cup Writers
Pos == 0 .. SIZE - 1
Stamp == 0 .. STAMPS - 1
PCs == {"out",
        "loop",      \* before the first test of the loop
        "again",     \* back in the loop after a wait
        "wait", "prepare", "test", "test_err", "parked", "finish"}

TypeOK ==
    /\ valid_cnt \in 0 .. SIZE
    /\ read_pos \in Pos /\ write_pos \in Pos
    /\ data \in [Pos -> Stamp]
    /\ sent \in Stamp /\ got \in Stamp
    /\ opened \subseteq Procs
    /\ reader = Cardinality(opened \cap Readers)
    /\ writer = Cardinality(opened \cap Writers)
    /\ had_reader \in BOOLEAN
    /\ rlist \in Seq(Readers) /\ wlist \in Seq(Writers)
    /\ pc \in [Procs -> PCs]
    /\ len \in [Procs -> 0 .. SIZE]
    /\ state \in [Procs -> {"Runnable", "Blocked"}]
    /\ sig \subseteq Procs
    /\ interrupted \in BOOLEAN /\ panicked \in BOOLEAN

Init ==
    /\ valid_cnt = 0 /\ read_pos = 0 /\ write_pos = 0
    /\ data = [i \in Pos |-> 0]
    /\ sent = 0 /\ got = 0
    /\ reader = 0 /\ writer = 0 /\ had_reader = FALSE /\ opened = {}
    /\ rlist = <<>> /\ wlist = <<>>
    /\ pc = [p \in Procs |-> "out"] /\ len = [p \in Procs |-> 0]
    /\ state = [p \in Procs |-> "Runnable"] /\ sig = {}
    /\ interrupted = FALSE /\ panicked = FALSE

Idle(p) == pc[p] = "out" /\ ~panicked
InLoop(p) == pc[p] \in {"loop", "again"} /\ ~panicked
Move(p, to) == pc' = [pc EXCEPT ![p] = to]
Goto(p, from, to) == ~panicked /\ pc[p] = from /\ Move(p, to)
Return(p) == InLoop(p) /\ Move(p, "out") /\ len' = [len EXCEPT ![p] = 0]

\* the error of a call with O_NONBLOCK, which has not waited before
NonBlockingReturn(p) == pc[p] = "loop" /\ Return(p)

readable == valid_cnt > 0 \/ writer = 0
buf_full == valid_cnt = SIZE
writeable == ~buf_full \/ reader = 0
Ready(p) == IF p \in Readers THEN readable ELSE writeable

------------------------------------------------------------------------------
(* The wait queues, seen from under the inner lock.                         *)

\* wakeup(Some(Blocked(true))): the first process, if it is blocked
WokenFront(q) == IF q # <<>> /\ state[Head(q)] = "Blocked" THEN {Head(q)} ELSE {}

AfterWakeup(q) == IF WokenFront(q) = {} THEN q ELSE Tail(q)

\* wakeup_all(Some(Blocked(true)))
WokenAll(q) == {p \in Procs : state[p] = "Blocked" /\ Has(q, p)}

AfterWakeupAll(q) == Retained(q, {p \in Procs : state[p] # "Blocked"})

Awaken(S) == state' = [p \in Procs |-> IF p \in S THEN "Runnable" ELSE state[p]]

------------------------------------------------------------------------------
(* open and close.                                                          *)

OpenRead(p) ==
    /\ p \in Readers \ opened /\ Idle(p)
    /\ opened' = opened \cup {p}
    /\ reader' = reader + 1 /\ had_reader' = TRUE
    /\ UNCHANGED <<buffer, writer, lists, pc, len, state, rest, panicked>>

\* with O_NONBLOCK and no reader it is ENXIO and changes nothing
OpenWrite(p) ==
    /\ p \in Writers \ opened /\ Idle(p)
    /\ opened' = opened \cup {p}
    /\ writer' = writer + 1
    /\ UNCHANGED <<buffer, reader, had_reader, lists, pc, len, state, rest, panicked>>

\* Fault: the readers are not woken when the last writer leaves.
CloseWriteSilently(p) ==
    /\ p \in Writers \cap opened /\ Idle(p)
    /\ opened' = opened \ {p}
    /\ writer' = writer - 1
    /\ UNCHANGED <<buffer, reader, had_reader, lists, pc, len, state, rest, panicked>>

CloseWrite(p) ==
    /\ p \in Writers \cap opened /\ Idle(p)
    /\ opened' = opened \ {p}
    /\ writer' = writer - 1
    /\ rlist' \in IF writer = 1 THEN AfterWakeupAll(rlist) ELSE {rlist}
    /\ Awaken(IF writer = 1 THEN WokenAll(rlist) ELSE {})
    /\ UNCHANGED <<buffer, reader, had_reader, wlist, pc, len, rest, panicked>>

CloseRead(p) ==
    /\ p \in Readers \cap opened /\ Idle(p)
    /\ opened' = opened \ {p}
    /\ reader' = reader - 1
    /\ wlist' \in IF reader = 1 THEN AfterWakeupAll(wlist) ELSE {wlist}
    /\ Awaken(IF reader = 1 THEN WokenAll(wlist) ELSE {})
    /\ UNCHANGED <<buffer, writer, had_reader, rlist, pc, len, rest, panicked>>

------------------------------------------------------------------------------
(* read_at.                                                                 *)

\* a call begins: n bytes are wanted, or are to be written.  Bound: no call
\* begins after one has been interrupted.
Begin(p, n) ==
    /\ p \in opened /\ ~interrupted /\ Goto(p, "out", "loop")
    /\ len' = [len EXCEPT ![p] = n]
    /\ UNCHANGED <<buffer, ends, lists, state, rest, panicked>>

\* the pipe is empty and has no writer: end of file
ReadEof(p) ==
    /\ p \in Readers /\ valid_cnt = 0 /\ writer = 0
    /\ Return(p)
    /\ UNCHANGED <<buffer, ends, lists, state, rest, panicked>>

\* the pipe is empty: wake a writer, then fail (O_NONBLOCK) or wait
ReadEmpty(p) ==
    /\ p \in Readers /\ valid_cnt = 0 /\ writer # 0
    /\ \/ NonBlockingReturn(p)
       \/ InLoop(p) /\ Move(p, "wait") /\ UNCHANGED len
    /\ wlist' = AfterWakeup(wlist) /\ Awaken(WokenFront(wlist))
    /\ UNCHANGED <<buffer, ends, rlist, rest, panicked>>

\* how many bytes a read of n bytes takes, and where it ends
ReadNum(n) == IF n < valid_cnt THEN n ELSE valid_cnt

\* the two slices of a copy have the same length: a copy of n bytes from start
\* to end either wraps around or covers end - start bytes
SlicesFit(start, end, n) == end < start \/ end - start = n

ReadDone(p) ==
    /\ p \in Readers /\ valid_cnt > 0
    /\ LET num == ReadNum(len[p])
           end == (read_pos + num) % SIZE
           left == valid_cnt - num
           woken == (IF left > 0 THEN WokenFront(rlist) ELSE {}) \cup WokenFront(wlist)
       IN /\ SlicesFit(read_pos, end, num)
          /\ read_pos' = end /\ valid_cnt' = left
          /\ got' = (got + num) % STAMPS
          /\ rlist' = IF left > 0 THEN AfterWakeup(rlist) ELSE rlist
          /\ wlist' = AfterWakeup(wlist)
          /\ Awaken(woken)
    /\ Return(p)
    /\ UNCHANGED <<write_pos, data, sent, ends, rest, panicked>>

ReadPanic(p) ==
    /\ p \in Readers /\ valid_cnt > 0 /\ InLoop(p)
    /\ ~SlicesFit(read_pos, (read_pos + ReadNum(len[p])) % SIZE, ReadNum(len[p]))
    /\ panicked' = TRUE
    /\ UNCHANGED <<buffer, ends, lists, pc, len, state, rest>>

------------------------------------------------------------------------------
(* write_at.                                                                *)

\* no reader when the call starts: ENXIO, or EPIPE with SIGPIPE
WriteBegin(p, n) ==
    /\ p \in Writers /\ reader # 0
    /\ Begin(p, n)

NoRoom(p) == len[p] + valid_cnt > SIZE

\* no room: wake a reader, then fail (O_NONBLOCK) or wait
WriteFull(p) ==
    /\ p \in Writers /\ NoRoom(p)
    /\ \/ NonBlockingReturn(p)
       \/ InLoop(p) /\ Move(p, "wait") /\ UNCHANGED len
    /\ rlist' = AfterWakeup(rlist) /\ Awaken(WokenFront(rlist))
    /\ UNCHANGED <<buffer, ends, wlist, rest, panicked>>

\* Fault: the part that wraps around is not copied.
SlotClipped(start, k) == IF start + k < SIZE THEN start + k ELSE start

\* the position of byte k of a write that starts at start
Slot(start, k) == IF start + k < SIZE THEN start + k ELSE start + k - SIZE

WriteDone(p) ==
    /\ p \in Writers /\ ~NoRoom(p)
    /\ LET end == (write_pos + len[p]) % SIZE
           full == valid_cnt + len[p] = SIZE
           woken == (IF full THEN {} ELSE WokenFront(wlist)) \cup WokenFront(rlist)
       IN /\ SlicesFit(write_pos, end, len[p])
          /\ data' = [i \in Pos |->
                        IF \E k \in 0 .. len[p] - 1 : Slot(write_pos, k) = i
                          THEN (sent + (CHOOSE k \in 0 .. len[p] - 1 :
                                          Slot(write_pos, k) = i)) % STAMPS
                          ELSE data[i]]
          /\ write_pos' = end /\ valid_cnt' = valid_cnt + len[p]
          /\ sent' = (sent + len[p]) % STAMPS
          /\ wlist' = IF full THEN wlist ELSE AfterWakeup(wlist)
          /\ rlist' = AfterWakeup(rlist)
          /\ Awaken(woken)
    /\ Return(p)
    /\ UNCHANGED <<read_pos, got, ends, rest, panicked>>

WritePanic(p) ==
    /\ p \in Writers /\ ~NoRoom(p) /\ InLoop(p)
    /\ ~SlicesFit(write_pos, (write_pos + len[p]) % SIZE, len[p])
    /\ panicked' = TRUE
    /\ UNCHANGED <<buffer, ends, lists, pc, len, state, rest>>

------------------------------------------------------------------------------
(* wq_wait_event_interruptible!(queue, ready, {}), as in module WaitQueue.  *)

FirstTest(p) ==
    /\ Goto(p, "wait", IF Ready(p) THEN "again" ELSE "prepare")
    /\ UNCHANGED <<buffer, ends, lists, len, state, rest, panicked>>

\* prepare_to_wait_event
Prepare(p) ==
    /\ p \notin sig /\ Len(rlist) + Len(wlist) < MaxLen
    /\ Goto(p, "prepare", "test")
    /\ state' = [state EXCEPT ![p] = "Blocked"]
    /\ rlist' = IF p \in Readers THEN Append(rlist, p) ELSE rlist
    /\ wlist' = IF p \in Writers THEN Append(wlist, p) ELSE wlist
    /\ UNCHANGED <<buffer, ends, len, rest, panicked>>

PrepareErr(p) ==
    /\ p \in sig
    /\ Goto(p, "prepare", "test_err")
    /\ UNCHANGED <<buffer, ends, lists, len, state, rest, panicked>>

Test(p) ==
    /\ p \in Writers => writeable
    /\ Goto(p, "test", IF Ready(p) THEN "finish" ELSE "parked")
    /\ UNCHANGED <<buffer, ends, lists, len, state, rest, panicked>>

\* write_at still holds the spin lock of the file's private data, which
\* read_at has dropped: schedule() asserts that preempt_count is 0
SchedulePanic(p) ==
    /\ p \in Writers /\ ~writeable /\ pc[p] = "test" /\ ~panicked
    /\ panicked' = TRUE
    /\ UNCHANGED <<buffer, ends, lists, pc, len, state, rest>>

\* the call returns ERESTARTSYS and leaves its entry in the queue
TestErr(p) ==
    /\ Goto(p, "test_err", IF Ready(p) THEN "finish" ELSE "out")
    /\ interrupted' = (interrupted \/ ~Ready(p))
    /\ len' = IF Ready(p) THEN len ELSE [len EXCEPT ![p] = 0]
    /\ UNCHANGED <<buffer, ends, lists, state, sig, panicked>>

Resume(p) ==
    /\ state[p] = "Runnable" /\ Goto(p, "parked", "prepare")
    /\ UNCHANGED <<buffer, ends, lists, len, state, rest, panicked>>

FinishWait(p) ==
    /\ Goto(p, "finish", "again")
    /\ state' = [state EXCEPT ![p] = "Runnable"]
    /\ rlist' \in Retained(rlist, Procs \ {p})
    /\ wlist' \in Retained(wlist, Procs \ {p})
    /\ UNCHANGED <<buffer, ends, len, rest, panicked>>

\* A signal, in one step (module WaitQueue has signal_wake_up in its steps),
\* and the return to user mode that handles it.  Bound: one pending signal at a
\* time, and none after a call has been interrupted.
Signal(p) ==
    /\ p \in Signalled \ sig /\ ~panicked /\ sig = {} /\ ~interrupted
    /\ sig' = sig \cup {p}
    /\ state' = [state EXCEPT ![p] = "Runnable"]
    /\ UNCHANGED <<buffer, ends, lists, pc, len, interrupted, panicked>>

HandleSignal(p) ==
    /\ p \in sig /\ Idle(p)
    /\ sig' = sig \ {p}
    /\ UNCHANGED <<buffer, ends, lists, pc, len, state, interrupted, panicked>>

WaitStep(p) ==
    \/ FirstTest(p) \/ Prepare(p) \/ PrepareErr(p) \/ Test(p)
    \/ SchedulePanic(p) \/ TestErr(p) \/ Resume(p) \/ FinishWait(p) \/ Signal(p) \/ HandleSignal(p)

PipeStep(p) ==
    \/ OpenRead(p) \/ OpenWrite(p) \/ CloseRead(p) \/ CloseWrite(p)
    \/ \E n \in 1 .. SIZE : p \in Readers /\ Begin(p, n)
    \/ \E n \in 1 .. SIZE : WriteBegin(p, n)
    \/ ReadEof(p) \/ ReadEmpty(p) \/ ReadDone(p) \/ ReadPanic(p)
    \/ WriteFull(p) \/ WriteDone(p) \/ WritePanic(p)

Next == \E p \in Procs : WaitStep(p) \/ PipeStep(p)

Spec == Init /\ [][Next]_vars

------------------------------------------------------------------------------
(* Properties.                                                              *)

\* The bytes in the buffer are the ones written and not yet read, in order:
\* however reads and writes of different lengths wrap around, nothing is lost,
\* repeated or overwritten.
StreamIntact ==
    /\ (read_pos + valid_cnt) % SIZE = write_pos
    /\ (got + valid_cnt) % STAMPS = sent
    /\ \A k \in 0 .. valid_cnt - 1 :
         data[(read_pos + k) % SIZE] = (got + k) % STAMPS

Asleep(p) == pc[p] = "parked" /\ state[p] = "Blocked"
Quiet == \A p \in Procs : pc[p] = "out" \/ Asleep(p)

\* As long as no call has been interrupted, no wake-up is lost: when nobody is
\* inside the pipe, no reader sleeps although there are bytes or no writer is
\* left.  A call wakes one reader at a time; the chain of calls has to reach
\* them all.
NoSleepThroughReady ==
    Quiet /\ ~interrupted => \A p \in Procs : Asleep(p) => ~Ready(p)

\* "If the reader wants more bytes than are valid, the valid bytes are output"
\* (read_at), a write of up to PIPE_BUFF_SIZE bytes is accepted, and one that
\* finds no room unlocks and sleeps (write_at): no call makes copy_from_slice
\* or the assertion of schedule() panic.
NoPanic == ~panicked

==============================================================================
