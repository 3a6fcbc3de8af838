-------------------------------- MODULE Futex --------------------------------
(***************************************************************************)
(* Futexes (libs/futex/futex.rs) for the threads of one address space:     *)
(* FLAGS_MATCH_NONE has the bit of FLAGS_SHARED, so every key is a pair of *)
(* an address space and an address, here the address.                      *)
(*                                                                         *)
(* One spin lock protects the map of buckets; a section under it is a step *)
(* but for futex_wait, whose timer runs before the waiter is queued.  The  *)
(* words are user memory that changes without the lock: whether one has    *)
(* the value a caller expects is a choice.                                 *)
(***************************************************************************)
EXTENDS Naturals, Sequences, FiniteSets, SequencesExt

CONSTANTS
    Procs, Addrs,     \* threads; addresses of futex words
    Bitsets, ANY,     \* the bitsets in use; FUTEX_BITSET_MATCH_ANY
    None,             \* no process, no address
    MaxWaits,         \* bound: calls of futex_wait per thread
    MaxSignals        \* bound: signals that reach a waiter

VARIABLES
    data,             \* FUTEX_DATA: address -> chain, for the addresses with a bucket
    guard,            \* who holds its lock over several steps, or None
    pc, state,        \* of each thread
    q,                \* the FutexObj of its last wait
    arg,              \* the bucket a futex_wake is going to try to remove
    timer, firing,    \* its timer; whose timer function is going to run
    signals,          \* signals left
    moved, woken,     \* history: its FutexObj was requeued; was popped by a wake
    ret               \* the result of its last futex_wait

thread == <<pc, q, arg>>
hist == <<moved, woken, ret>>
vars == <<data, guard, thread, state, timer, firing, signals, hist>>

Objs == [pcb : Procs, key : Addrs \cup {None}, bitset : Bitsets, id : 0 .. MaxWaits]

TypeOK ==
    /\ DOMAIN data \subseteq Addrs /\ \A a \in DOMAIN data : data[a] \in Seq(Objs)
    /\ guard \in Procs \cup {None}
    /\ pc \in [Procs -> {"out", "queue", "asleep", "try_remove", "spin", "dead"}]
    /\ state \in [Procs -> {"Runnable", "Blocked", "Exited", "Gone"}]
    /\ q \in [Procs -> Objs]
    /\ arg \in [Procs -> Addrs \cup {None}]
    /\ timer \in [Procs -> {"none", "armed", "triggered"}]
    /\ firing \in Procs \cup {None}
    /\ signals \in 0 .. MaxSignals
    /\ moved \in [Procs -> BOOLEAN] /\ woken \in [Procs -> BOOLEAN]
    /\ ret \in [Procs -> {"Ok", "ETIMEDOUT"}]

Init ==
    /\ data = <<>> /\ guard = None
    /\ pc = [p \in Procs |-> "out"] /\ state = [p \in Procs |-> "Runnable"]
    /\ q = [p \in Procs |-> [pcb |-> p, key |-> None,
                             bitset |-> ANY, id |-> 0]]
    /\ arg = [p \in Procs |-> None]
    /\ timer = [p \in Procs |-> "none"] /\ firing = None
    /\ signals = MaxSignals
    /\ moved = [p \in Procs |-> FALSE] /\ woken = [p \in Procs |-> FALSE]
    /\ ret = [p \in Procs |-> "Ok"]

Goto(p, from, to) == pc[p] = from /\ pc' = [pc EXCEPT ![p] = to]

\* the map with chain c in the bucket of a, which is made if there is none
WithBucket(d, a, c) == [x \in DOMAIN d \cup {a} |-> IF x = a THEN c ELSE d[x]]
Without(d, a) == [x \in DOMAIN d \ {a} |-> d[x]]

------------------------------------------------------------------------------
(* FutexHashBucket::wake_up.                                                *)

\* The loop, on a record of the chain, the objects popped for good, what it
\* counts and how it ends: "ok", "err" from wakeup of an exited process, "hang"
\* when every object left has the key and another bitset.  skipped counts the
\* objects put back in a row without pop_count.
RECURSIVE WakeLoop(_, _, _, _)
WakeLoop(l, key, bitset, nr) ==
    IF l.chain = <<>> THEN l
    ELSE LET o == Head(l.chain)
             back == Append(Tail(l.chain), o)
             pops == l.pops + 1
             Again(m) == IF m.pops >= Len(m.chain) THEN m
                                                   ELSE WakeLoop(m, key, bitset, nr)
         IN IF o.key # key
              THEN Again([l EXCEPT !.chain = back, !.pops = pops, !.skipped = 0])
            ELSE IF bitset # None /\ o.bitset # bitset
              THEN IF l.skipped = Len(l.chain) THEN [l EXCEPT !.end = "hang"]
                   ELSE WakeLoop([l EXCEPT !.chain = back, !.skipped = @ + 1],
                                 key, bitset, nr)
            ELSE LET m == [l EXCEPT !.chain = Tail(l.chain), !.popped = Append(@, o),
                                    !.count = @ + 1, !.pops = pops, !.skipped = 0]
                 IN IF state[o.pcb] = "Exited" THEN [m EXCEPT !.end = "err"]
                    ELSE IF m.count >= nr THEN m ELSE Again(m)

wake_up(chain, key, bitset, nr) ==
    WakeLoop([chain |-> chain, popped |-> <<>>, count |-> 0, pops |-> 0, skipped |-> 0,
              end |-> "ok"], key, bitset, nr)

\* ProcessManager::wakeup of the processes of popped objects
Waking(popped) ==
    /\ state' = [p \in Procs |-> IF state[p] = "Blocked" /\ \E o \in Range(popped) : o.pcb = p
                                   THEN "Runnable" ELSE state[p]]
    /\ woken' = [p \in Procs |-> woken[p] \/ (pc[p] = "asleep" /\ q[p] \in Range(popped))]

------------------------------------------------------------------------------
(* futex_wait.                                                              *)

\* the word is not what the caller expects, or its address is bad: an error, but
\* the bucket has been made
WaitAgain(p, a) ==
    /\ guard = None /\ Goto(p, "out", "out") /\ state[p] = "Runnable"
    /\ a \notin DOMAIN data
    /\ data' = WithBucket(data, a, <<>>)
    /\ UNCHANGED <<guard, state, q, arg, timer, firing, signals, hist>>

\* it is: the timer is activated, with the lock held
Wait(p, a, b, timed) ==
    /\ guard = None /\ Goto(p, "out", "queue") /\ state[p] = "Runnable"
    /\ q[p].id < MaxWaits
    /\ data' = WithBucket(data, a, IF a \in DOMAIN data THEN data[a] ELSE <<>>)
    /\ guard' = p
    /\ q' = [q EXCEPT ![p] = [pcb |-> p, key |-> a, bitset |-> b, id |-> @.id + 1]]
    /\ timer' = [timer EXCEPT ![p] = IF timed THEN "armed" ELSE "none"]
    /\ ret' = [ret EXCEPT ![p] = "Ok"]
    /\ UNCHANGED <<moved, woken, arg, state, firing, signals>>

\* Fault: asleep without having joined the chain.
SleepOnly(p) ==
    /\ guard = p /\ Goto(p, "queue", "asleep")
    /\ state' = [state EXCEPT ![p] = "Blocked"]
    /\ guard' = None
    /\ UNCHANGED <<data, q, arg, timer, firing, signals, hist>>

\* sleep_no_sched with interrupts off, then the lock is dropped, and schedule
SleepNoSched(p) ==
    /\ guard = p /\ Goto(p, "queue", "asleep")
    /\ data' = [data EXCEPT ![q[p].key] = Append(@, q[p])]
    /\ state' = [state EXCEPT ![p] = "Blocked"]
    /\ guard' = None
    /\ UNCHANGED <<q, arg, timer, firing, signals, hist>>

\* FutexHashBucket::contains: by process and key
IsQueued(a, o) ==
    a \in DOMAIN data /\ \E x \in Range(data[a]) : x.pcb = o.pcb /\ x.key = o.key

\* Fault: the timer is looked at before the chain.
ReturnTimerFirst(p) ==
    /\ state[p] = "Runnable" /\ guard = None /\ Goto(p, "asleep", "out")
    /\ LET late == timer[p] = "triggered"
           key == q[p].key
       IN /\ ret' = [ret EXCEPT ![p] = IF late THEN "ETIMEDOUT" ELSE "Ok"]
          /\ data' = IF late /\ key \in DOMAIN data
                       THEN [data EXCEPT ![key] = SelectSeq(@, LAMBDA x : x # q[p])] ELSE data
    /\ timer' = [timer EXCEPT ![p] = "none"]
    /\ moved' = [moved EXCEPT ![p] = FALSE] /\ woken' = [woken EXCEPT ![p] = FALSE]
    /\ UNCHANGED <<guard, state, q, arg, firing, signals>>

\* schedule returns.  A waiter that is still in the chain and whose timer has
\* triggered leaves it; one that a signal has woken stays in it.
Return(p) ==
    /\ state[p] = "Runnable" /\ guard = None /\ Goto(p, "asleep", "out")
    /\ LET late == IsQueued(q[p].key, q[p]) /\ timer[p] = "triggered"
       IN /\ ret' = [ret EXCEPT ![p] = IF late THEN "ETIMEDOUT" ELSE "Ok"]
          /\ data' = IF late THEN [data EXCEPT ![q[p].key] = SelectSeq(@, LAMBDA x : x # q[p])]
                             ELSE data
    /\ timer' = [timer EXCEPT ![p] = "none"]
    /\ moved' = [moved EXCEPT ![p] = FALSE] /\ woken' = [woken EXCEPT ![p] = FALSE]
    /\ UNCHANGED <<guard, state, q, arg, firing, signals>>

\* Timer::run: triggered, and the function taken out
TimerRun(p) ==
    /\ timer[p] = "armed" /\ firing = None
    /\ timer' = [timer EXCEPT ![p] = "triggered"]
    /\ firing' = p
    /\ UNCHANGED <<data, guard, thread, state, signals, hist>>

\* WakeUpHelper
TimerWake ==
    /\ firing # None
    /\ state' = [state EXCEPT ![firing] = IF @ = "Blocked" THEN "Runnable" ELSE @]
    /\ firing' = None
    /\ UNCHANGED <<data, guard, thread, timer, signals, hist>>

\* a signal for a waiter
Signal(p) ==
    /\ state[p] = "Blocked" /\ signals > 0
    /\ state' = [state EXCEPT ![p] = "Runnable"]
    /\ signals' = signals - 1
    /\ UNCHANGED <<data, guard, thread, timer, firing, hist>>

------------------------------------------------------------------------------
(* futex_wake, futex_requeue and futex_wake_op.                             *)

\* wake_up on a bucket that is there and not empty; a caller that never leaves
\* its loop keeps the lock
WakeBucket(p, a, b, nr, done, failed) ==
    LET r == wake_up(data[a], a, b, nr)
    IN /\ data' = [data EXCEPT ![a] = r.chain]
       /\ Waking(r.popped)
       /\ guard' = IF r.end = "hang" THEN p ELSE None
       /\ pc' = [pc EXCEPT ![p] = IF r.end = "hang" THEN "spin"
                                  ELSE IF r.end = "err" THEN failed ELSE done]

Wake(p, a, b, nr) ==
    /\ guard = None /\ pc[p] = "out" /\ state[p] = "Runnable"
    /\ a \in DOMAIN data /\ data[a] # <<>>
    /\ WakeBucket(p, a, b, nr, "try_remove", "out")
    /\ arg' = [arg EXCEPT ![p] = a]
    /\ UNCHANGED <<q, timer, firing, signals, moved, ret>>

\* FutexData::try_remove, in a section of its own
TryRemove(p) ==
    /\ guard = None /\ Goto(p, "try_remove", "out")
    /\ LET a == arg[p]
       IN data' = IF a \in DOMAIN data /\ data[a] = <<>> THEN Without(data, a) ELSE data
    /\ arg' = [arg EXCEPT ![p] = None]
    /\ UNCHANGED <<guard, state, q, timer, firing, signals, hist>>

\* the loop of futex_requeue: n objects go from a to b, with the key they have;
\* without a bucket for b the first is popped and the call fails
RECURSIVE Requeued(_, _, _, _)
Requeued(d, a, b, n) ==
    IF n = 0 \/ d[a] = <<>> THEN d
    ELSE LET e == [d EXCEPT ![a] = Tail(@)]
         IN IF b \in DOMAIN d THEN Requeued([e EXCEPT ![b] = Append(@, Head(d[a]))], a, b, n - 1)
                              ELSE e

Requeue(p, a, b, nw, nr) ==
    /\ guard = None /\ pc[p] = "out" /\ state[p] = "Runnable" /\ a \in DOMAIN data
    /\ LET r == wake_up(data[a], a, None, nw)
           d == [data EXCEPT ![a] = r.chain]
       IN /\ Waking(r.popped)
          /\ data' = IF r.end = "err" THEN d ELSE Requeued(d, a, b, nr)
          /\ moved' = [x \in Procs |-> moved[x] \/
                         (pc[x] = "asleep" /\ q[x] \in Range(d[a]) /\ q[x] \notin Range(data'[a]))]
    /\ UNCHANGED <<guard, thread, timer, firing, signals, ret>>

\* futex_wake_op: the comparison of the second word's old value with a constant
\* of the caller's comes out either way
WakeOp(p, a, b, nw, nw2, cmp) ==
    /\ guard = None /\ pc[p] = "out" /\ state[p] = "Runnable" /\ a \in DOMAIN data
    /\ LET r == wake_up(data[a], a, None, nw)
           d == [data EXCEPT ![a] = r.chain]
           r2 == wake_up(d[b], b, None, nw2)
           second == r.end = "ok" /\ cmp /\ b \in DOMAIN data
       IN /\ Waking(r.popped \o IF second THEN r2.popped ELSE <<>>)
          /\ data' = IF second THEN [d EXCEPT ![b] = r2.chain] ELSE d
    /\ UNCHANGED <<guard, thread, timer, firing, signals, moved, ret>>

------------------------------------------------------------------------------
\* exit() of a thread, which may have left an object behind
Exit(p) ==
    /\ Goto(p, "out", "dead") /\ state[p] = "Runnable"
    /\ state' = [state EXCEPT ![p] = "Exited"]
    /\ UNCHANGED <<data, guard, q, arg, timer, firing, signals, hist>>

\* the parent's wait4: the last reference to the pcb goes
Release(p) ==
    /\ pc[p] = "dead" /\ state[p] = "Exited"
    /\ state' = [state EXCEPT ![p] = "Gone"]
    /\ UNCHANGED <<data, guard, thread, timer, firing, signals, hist>>

Step(p) ==
    \/ \E a \in Addrs :
         \/ WaitAgain(p, a)
         \/ \E b \in Bitsets, timed \in BOOLEAN : Wait(p, a, b, timed)
         \/ \E b \in Bitsets, n \in 1 .. Cardinality(Procs) : Wake(p, a, b, n)
         \/ \E b \in Addrs, nw \in 0 .. 1, nr \in 1 .. 2 : Requeue(p, a, b, nw, nr)
         \/ \E b \in Addrs, cmp \in BOOLEAN : WakeOp(p, a, b, 1, 1, cmp)
    \/ SleepNoSched(p) \/ Return(p) \/ TimerRun(p) \/ Signal(p) \/ TryRemove(p)
    \/ Exit(p) \/ Release(p)

Next == TimerWake \/ \E p \in Procs : Step(p)

Spec == Init /\ [][Next]_vars

------------------------------------------------------------------------------
\* A thread asleep in futex_wait is in the bucket of the word it waits for, where
\* futex_wake looks for it, whatever buckets try_remove drops and whoever is
\* woken or times out meanwhile.  Only futex_requeue takes it elsewhere.
FutexSleeperListed ==
    \A p \in Procs :
        pc[p] = "asleep" /\ state[p] = "Blocked" /\ ~moved[p] /\ ~woken[p]
          => q[p].key \in DOMAIN data /\ q[p] \in Range(data[q[p].key])

\* A wake that was spent on a waiter is not reported to it as ETIMEDOUT, even if
\* its timer triggers before it runs: the caller of futex_wait knows that it was
\* woken.  (It can be, if an interrupted wait has left another object of the
\* thread in the chain.)
TimeoutTakesNoWake ==
    [][\A p \in Procs :
         pc[p] = "asleep" /\ pc'[p] = "out" /\ ret'[p] = "ETIMEDOUT"
           => ~woken[p] \/ \E x \in Range(data[q[p].key]) : x.pcb = p /\ x # q[p]]_vars
==============================================================================
