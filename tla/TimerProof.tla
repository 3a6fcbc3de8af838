----------------------------- MODULE TimerProof -----------------------------
(***************************************************************************)
(* The timer softirq runs once at a time and no sleeper is left without    *)
(* its timer, for any processes, remote timers and limits.                 *)
(*                                                                         *)
(* The argument: a step moves the top frame of one stack, or pushes or     *)
(* pops it, so the set of frames and what is in them change at one place.  *)
(* A frame carries a timer only while it is about to run it (Held), so the *)
(* timer that leaves the list is in a frame until its function has run.    *)
(***************************************************************************)
EXTENDS Timer, ListLemmas

\* A frame has a timer only in its hand, between the removal and the run.
Held == \A x \in AllFrames : FrameOf(x).timer # NoTimer => FrameOf(x).pc = "fire"

\* The counter is the number of frames, and stacks stay below the limit.
Counted ==
    /\ IsFiniteSet(AllFrames) /\ count = Cardinality(AllFrames)
    /\ \A p \in Procs : Len(stack[p]) <= MAX_RUNNING_PER_CPU

Single ==
    /\ \A x, y \in Running : x = y
    /\ running <=> Running # {}

\* The timer of the last call of p, and the timers that frames are about to run.
Mine(p) == <<p, calls[p]>>
InHand(t) == \E x \in AllFrames : FrameOf(x).timer = t

Armed ==
    \A p \in Sleepers :
      state[p] = "Blocked" =>
        /\ calls[p] > 0 /\ fn[Mine(p)] = "armed"
        /\ Has(list, <<expire[Mine(p)], Mine(p)>>) \/ InHand(Mine(p))

\* The inductive invariant.
Inv == TypeOK /\ Held /\ Counted /\ Single /\ Armed

\* The limits, one by one.
LEMMA Limits ==
  /\ Idle \notin Sleepers /\ Calls \in Nat /\ MaxJiffies \in Nat
  /\ MAX_RUNNING_PER_CPU \in Nat \ {0} /\ TIMER_RUN_CYCLE_THRESHOLD \in Nat \ {0}
BY TimerAssumption

------------------------------------------------------------------------------
(* The stacks of softirq frames.                                            *)

TopOf(p) == <<p, Len(stack[p])>>
Busy == {"loop", "fire", "clear"}

\* A frame that moves is the top one of its process; the others, and how many there are,
\* stay as they are.
LEMMA MoveTop ==
  ASSUME TypeOK, Counted, NEW p \in Procs, stack[p] # <<>>, NEW f \in Frames, SetTop(p, f)
  PROVE  /\ stack' \in [Procs -> Seq(Frames)]
         /\ \A q \in Procs : Len(stack'[q]) = Len(stack[q])
         /\ AllFrames' = AllFrames
         /\ TopOf(p) \in AllFrames /\ FrameOf(TopOf(p)) = TopFrame(p)
         /\ stack'[p][Len(stack[p])] = f
         /\ \A x \in AllFrames : x # TopOf(p) => FrameOf(x)' = FrameOf(x)
<1> DEFINE n == Len(stack[p])
<1>1. stack \in [Procs -> Seq(Frames)]
  BY DEF TypeOK
<1>2. stack[p] \in Seq(Frames) /\ n \in Nat \ {0}
  BY <1>1
<1>3. stack' = [stack EXCEPT ![p] = [stack[p] EXCEPT ![n] = f]]
  BY <1>1 DEF SetTop
<1>4. [stack[p] EXCEPT ![n] = f] \in Seq(Frames) /\ Len([stack[p] EXCEPT ![n] = f]) = n
      /\ \A i \in 1 .. n : [stack[p] EXCEPT ![n] = f][i] = IF i = n THEN f ELSE stack[p][i]
  BY <1>2
<1>. HIDE DEF n
<1>5. stack'[p] = [stack[p] EXCEPT ![n] = f] /\ \A q \in Procs : q # p => stack'[q] = stack[q]
  BY <1>1, <1>3
<1>6. stack' \in [Procs -> Seq(Frames)]
  BY <1>1, <1>3, <1>4
<1>7. \A q \in Procs : Len(stack'[q]) = Len(stack[q])
  BY <1>4, <1>5 DEF n
<1>8. AllFrames' = AllFrames
  BY <1>7 DEF AllFrames
<1>9. n <= MAX_RUNNING_PER_CPU
  BY DEF Counted, n
<1>10. TopOf(p) \in AllFrames
  BY <1>2, <1>9 DEF AllFrames, TopOf, n
<1>11. FrameOf(TopOf(p)) = TopFrame(p)
  BY DEF FrameOf, TopOf, TopFrame
<1>12. stack'[p][n] = f
  BY <1>2, <1>4, <1>5
<1>13. ASSUME NEW x \in AllFrames, x # TopOf(p) PROVE FrameOf(x)' = FrameOf(x)
  <2>1. x[1] \in Procs /\ x[2] \in 1 .. Len(stack[x[1]]) /\ x = <<x[1], x[2]>>
    BY <1>1 DEF AllFrames
  <2>2. CASE x[1] = p
    <3>1. x[2] # n /\ x[2] \in 1 .. n
      BY <1>13, <2>1, <2>2 DEF TopOf, n
    <3>. QED
      BY <3>1, <2>2, <1>4, <1>5 DEF FrameOf
  <2>3. CASE x[1] # p
    BY <2>1, <2>3, <1>5 DEF FrameOf
  <2>. QED
    BY <2>2, <2>3
<1>. QED
  BY <1>6, <1>7, <1>8, <1>10, <1>11, <1>12, <1>13 DEF n

------------------------------------------------------------------------------
(* What the moves of frames keep.                                           *)

\* A frame that moves keeps the invariants on frames, leaves or enters the handler alone,
\* and loses no timer but its own.
LEMMA MoveKeeps ==
  ASSUME TypeOK, Held, Counted, NEW p \in Procs, stack[p] # <<>>, NEW f \in Frames, SetTop(p, f),
         f.timer # NoTimer => f.pc = "fire", UNCHANGED count
  PROVE  /\ stack' \in [Procs -> Seq(Frames)] /\ Held' /\ Counted'
         /\ TopOf(p) \in Running <=> TopFrame(p).pc \in Busy
         /\ Running' = IF f.pc \in Busy THEN Running \cup {TopOf(p)} ELSE Running \ {TopOf(p)}
         /\ \A t : InHand(t) => t = TopFrame(p).timer \/ InHand(t)'
         /\ \A t : t = f.timer => InHand(t)'
<1>1. /\ stack' \in [Procs -> Seq(Frames)]
      /\ \A q \in Procs : Len(stack'[q]) = Len(stack[q])
      /\ AllFrames' = AllFrames
      /\ TopOf(p) \in AllFrames /\ FrameOf(TopOf(p)) = TopFrame(p)
      /\ stack'[p][Len(stack[p])] = f
      /\ \A x \in AllFrames : x # TopOf(p) => FrameOf(x)' = FrameOf(x)
  BY MoveTop
<1>2. stack'[TopOf(p)[1]][TopOf(p)[2]] = f
  BY <1>1 DEF TopOf
<1>3. \A x : x = TopOf(p) => FrameOf(x)' = f
  BY <1>2 DEF FrameOf
<1>. HIDE DEF TopOf
<1>4. Held'
  BY <1>1, <1>3 DEF Held
<1>5. Counted'
  BY <1>1 DEF Counted
<1>6. TopOf(p) \in Running <=> TopFrame(p).pc \in Busy
  BY <1>1 DEF Running, Busy
<1>7. Running' = IF f.pc \in Busy THEN Running \cup {TopOf(p)} ELSE Running \ {TopOf(p)}
  BY <1>1, <1>3 DEF Running, Busy
<1>8. \A t : InHand(t) => t = TopFrame(p).timer \/ InHand(t)'
  BY <1>1 DEF InHand
<1>9. \A t : t = f.timer => InHand(t)'
  BY <1>1, <1>3 DEF InHand
<1>. QED
  BY <1>1, <1>4, <1>5, <1>6, <1>7, <1>8, <1>9

\* The top frame of the current process; it has a timer only when it is about to run it.
LEMMA TopFacts ==
  ASSUME Inv, NEW p \in Procs, NEW at, AtTop(p, at)
  PROVE  /\ stack[p] # <<>> /\ TopFrame(p) \in Frames /\ TopFrame(p).pc = at
         /\ at # "fire" => TopFrame(p).timer = NoTimer
<1>1. stack[p] \in Seq(Frames) /\ stack[p] # <<>> /\ TopFrame(p).pc = at
  BY DEF Inv, TypeOK, AtTop
<1>2. Len(stack[p]) \in Nat \ {0} /\ TopFrame(p) \in Frames
  BY <1>1 DEF TopFrame
<1>3. Len(stack[p]) <= MAX_RUNNING_PER_CPU
  BY DEF Inv, Counted
<1>4. TopOf(p) \in AllFrames /\ FrameOf(TopOf(p)) = TopFrame(p)
  BY <1>2, <1>3, Limits DEF AllFrames, FrameOf, TopOf, TopFrame
<1>5. TopFrame(p).timer # NoTimer => TopFrame(p).pc = "fire"
  BY <1>4 DEF Inv, Held
<1>. QED
  BY <1>1, <1>2, <1>5

\* The timer of a sleeper is none of those that other CPUs use, nor that of a frame with
\* empty hands.
LEMMA MineIsATimer ==
  ASSUME Inv, NEW q \in Sleepers, state[q] = "Blocked"
  PROVE  Mine(q) \in Timers /\ Mine(q) # NoTimer /\ \A r : Mine(q) # <<r, 0>>
<1>1. calls[q] \in 1 .. Calls /\ q # Idle
  <2>1. calls[q] \in 0 .. Calls
    BY DEF Inv, TypeOK
  <2>2. calls[q] > 0
    BY ZenonT(40) DEF Inv, Armed
  <2>. QED
    BY <2>1, <2>2, Limits
<1>. QED
  BY <1>1 DEF Mine, NoTimer, Timers

\* A move with empty hands that touches neither timers nor processes keeps the invariant,
\* if it keeps the flag right.
LEMMA QuietMove ==
  ASSUME Inv, NEW p \in Procs, stack[p] # <<>>, NEW f \in Frames, SetTop(p, f),
         f.timer = NoTimer, TopFrame(p).timer = NoTimer, running' \in BOOLEAN, Single',
         UNCHANGED <<jiffies, timers, pending, count, procs>>
  PROVE  Inv'
<1>1. /\ stack' \in [Procs -> Seq(Frames)] /\ Held' /\ Counted'
      /\ \A t : InHand(t) => t = TopFrame(p).timer \/ InHand(t)'
  BY MoveKeeps DEF Inv
<1>2. TypeOK'
  BY <1>1 DEF Inv, TypeOK, timers, procs
<1>3. Armed'
  <2>. SUFFICES ASSUME NEW q \in Sleepers, state[q] = "Blocked"
                PROVE  /\ calls[q] > 0 /\ fn[Mine(q)] = "armed"
                       /\ Has(list, <<expire[Mine(q)], Mine(q)>>) \/ InHand(Mine(q))'
    BY DEF Armed, Mine, timers, procs
  <2>1. /\ calls[q] > 0 /\ fn[Mine(q)] = "armed"
        /\ Has(list, <<expire[Mine(q)], Mine(q)>>) \/ InHand(Mine(q))
    BY DEF Inv, Armed
  <2>2. Mine(q)' = Mine(q)
    BY DEF Mine, procs
  <2>. QED
    BY <2>1, <2>2, <1>1, MineIsATimer
<1>. QED
  BY <1>1, <1>2, <1>3 DEF Inv

\* set_run lets a frame into the handler when none is there.
LEMMA EnterKeeps == ASSUME Inv, NEW p \in Procs, Enter(p) PROVE Inv'
<1> DEFINE f == IF running THEN [TopFrame(p) EXCEPT !.pc = "end"]
                ELSE [TopFrame(p) EXCEPT !.pc = "loop", !.left = TIMER_RUN_CYCLE_THRESHOLD]
<1>1. /\ stack[p] # <<>> /\ TopFrame(p) \in Frames /\ TopFrame(p).pc = "handler"
      /\ TopFrame(p).timer = NoTimer
  BY TopFacts DEF Enter
<1>2. /\ SetTop(p, f) /\ running' = TRUE
      /\ UNCHANGED <<jiffies, timers, pending, count, procs>>
  BY DEF Enter, Move
<1>3. /\ f \in Frames /\ f.timer = NoTimer
      /\ f.pc = IF running THEN "end" ELSE "loop"
  <2>1. CASE running
    BY <1>1, <2>1 DEF Frames
  <2>2. CASE ~running
    <3>1. TIMER_RUN_CYCLE_THRESHOLD \in 0 .. TIMER_RUN_CYCLE_THRESHOLD
      BY Limits
    <3>. QED
      BY ZenonT(40), <1>1, <2>2, <3>1 DEF Frames
  <2>. QED
    BY <2>1, <2>2
<1>. HIDE DEF f
<1>4. /\ TopOf(p) \in Running <=> TopFrame(p).pc \in Busy
      /\ Running' = IF f.pc \in Busy THEN Running \cup {TopOf(p)} ELSE Running \ {TopOf(p)}
  BY <1>1, <1>2, <1>3, MoveKeeps DEF Inv
<1>5. Single'
  BY <1>1, <1>2, <1>3, <1>4 DEF Inv, Single, Busy
<1>. QED
  BY <1>1, <1>2, <1>3, <1>5, QuietMove

\* A round of the loop that finds the lock taken.
LEMMA ContendedKeeps == ASSUME Inv, NEW p \in Procs, Contended(p) PROVE Inv'
<1> DEFINE f == [TopFrame(p) EXCEPT !.left = @ - 1]
<1>1. /\ stack[p] # <<>> /\ TopFrame(p) \in Frames /\ TopFrame(p).pc = "loop"
      /\ TopFrame(p).timer = NoTimer
  BY TopFacts DEF Contended
<1>2. /\ SetTop(p, f) /\ running' = running /\ TopFrame(p).left > 0
      /\ UNCHANGED <<jiffies, timers, pending, count, procs>>
  BY DEF Contended
<1>3. f \in Frames /\ f.timer = NoTimer /\ f.pc = "loop"
  BY <1>1, <1>2, Limits DEF Frames
<1>. HIDE DEF f
<1>4. /\ TopOf(p) \in Running <=> TopFrame(p).pc \in Busy
      /\ Running' = IF f.pc \in Busy THEN Running \cup {TopOf(p)} ELSE Running \ {TopOf(p)}
  BY <1>1, <1>2, <1>3, MoveKeeps DEF Inv
<1>5. Single' /\ running' \in BOOLEAN
  BY <1>1, <1>2, <1>3, <1>4 DEF Inv, Single, Busy, TypeOK
<1>. QED
  BY <1>1, <1>2, <1>3, <1>5, QuietMove

\* The end of the loop.
LEMMA LoopEndKeeps == ASSUME Inv, NEW p \in Procs, LoopEnd(p) PROVE Inv'
<1> DEFINE f == [TopFrame(p) EXCEPT !.pc = "clear", !.left = 0]
<1>1. /\ stack[p] # <<>> /\ TopFrame(p) \in Frames /\ TopFrame(p).pc = "loop"
      /\ TopFrame(p).timer = NoTimer
  BY TopFacts DEF LoopEnd
<1>2. /\ SetTop(p, f) /\ running' = running
      /\ UNCHANGED <<jiffies, timers, pending, count, procs>>
  BY DEF LoopEnd
<1>3. f \in Frames /\ f.timer = NoTimer /\ f.pc = "clear"
  <2>1. 0 \in 0 .. TIMER_RUN_CYCLE_THRESHOLD
    BY Limits
  <2>. QED
    BY ZenonT(40), <1>1, <2>1 DEF Frames
<1>. HIDE DEF f
<1>4. /\ TopOf(p) \in Running <=> TopFrame(p).pc \in Busy
      /\ Running' = IF f.pc \in Busy THEN Running \cup {TopOf(p)} ELSE Running \ {TopOf(p)}
  BY <1>1, <1>2, <1>3, MoveKeeps DEF Inv
<1>5. Single' /\ running' \in BOOLEAN
  BY <1>1, <1>2, <1>3, <1>4 DEF Inv, Single, Busy, TypeOK
<1>. QED
  BY <1>1, <1>2, <1>3, <1>5, QuietMove

\* clear_run: the frame that leaves the handler was the only one in it.
LEMMA ClearRunKeeps == ASSUME Inv, NEW p \in Procs, ClearRun(p) PROVE Inv'
<1> DEFINE f == [TopFrame(p) EXCEPT !.pc = "end"]
<1>1. /\ stack[p] # <<>> /\ TopFrame(p) \in Frames /\ TopFrame(p).pc = "clear"
      /\ TopFrame(p).timer = NoTimer
  BY TopFacts DEF ClearRun
<1>2. /\ SetTop(p, f) /\ running' = FALSE
      /\ UNCHANGED <<jiffies, timers, pending, count, procs>>
  BY DEF ClearRun, Move
<1>3. f \in Frames /\ f.timer = NoTimer /\ f.pc = "end"
  BY <1>1 DEF Frames
<1>. HIDE DEF f
<1>4. /\ TopOf(p) \in Running <=> TopFrame(p).pc \in Busy
      /\ Running' = IF f.pc \in Busy THEN Running \cup {TopOf(p)} ELSE Running \ {TopOf(p)}
  BY <1>1, <1>2, <1>3, MoveKeeps DEF Inv
<1>5. Single'
  BY <1>1, <1>2, <1>3, <1>4 DEF Inv, Single, Busy
<1>. QED
  BY ZenonT(40), <1>1, <1>2, <1>3, <1>5, QuietMove

\* The timer that leaves the list is in the hand of the frame that took it.
LEMMA TakeKeeps == ASSUME Inv, NEW p \in Procs, Take(p) PROVE Inv'
<1> DEFINE f == [TopFrame(p) EXCEPT !.pc = "fire", !.left = @ - 1, !.timer = Head(list)[2]]
           S == (0 .. MaxJiffies) \X Timers
<1>1. /\ stack[p] # <<>> /\ TopFrame(p) \in Frames /\ TopFrame(p).pc = "loop"
      /\ TopFrame(p).timer = NoTimer
  BY TopFacts DEF Take
<1>2. /\ SetTop(p, f) /\ running' = running /\ TopFrame(p).left > 0 /\ list # <<>>
      /\ list' = Tail(list) /\ count' = count
      /\ UNCHANGED <<jiffies, rpc, fn, expire, pending, procs>>
  BY DEF Take
<1>3. /\ Head(list) \in S /\ Tail(list) \in Seq(S)
      /\ \A x : Has(list, x) => x = Head(list) \/ Has(Tail(list), x)
  <2>1. list \in Seq(S)
    BY DEF Inv, TypeOK
  <2>. QED
    BY <1>2, <2>1, TailKeeps
<1>4. f \in Frames /\ f.timer = Head(list)[2] /\ f.pc = "fire"
  <2>1. TopFrame(p).left - 1 \in 0 .. TIMER_RUN_CYCLE_THRESHOLD
    BY <1>1, <1>2, Limits DEF Frames
  <2>2. Head(list)[2] \in Timers
    BY <1>3
  <2>. QED
    BY ZenonT(40), <1>1, <2>1, <2>2 DEF Frames
<1>. HIDE DEF f
<1>5. /\ stack' \in [Procs -> Seq(Frames)] /\ Held' /\ Counted'
      /\ TopOf(p) \in Running <=> TopFrame(p).pc \in Busy
      /\ Running' = IF f.pc \in Busy THEN Running \cup {TopOf(p)} ELSE Running \ {TopOf(p)}
      /\ \A t : InHand(t) => t = TopFrame(p).timer \/ InHand(t)'
      /\ \A t : t = f.timer => InHand(t)'
  BY <1>1, <1>2, <1>4, MoveKeeps DEF Inv
<1>6. Single'
  BY <1>1, <1>2, <1>4, <1>5 DEF Inv, Single, Busy
<1>7. TypeOK'
  BY ZenonT(40), <1>2, <1>3, <1>5 DEF Inv, TypeOK, procs
<1>8. Armed'
  <2>. SUFFICES ASSUME NEW q \in Sleepers, state[q] = "Blocked"
                PROVE  /\ calls[q] > 0 /\ fn[Mine(q)] = "armed"
                       /\ Has(Tail(list), <<expire[Mine(q)], Mine(q)>>) \/ InHand(Mine(q))'
    BY ZenonT(40), <1>2 DEF Armed, Mine, procs
  <2>1. /\ calls[q] > 0 /\ fn[Mine(q)] = "armed"
        /\ Has(list, <<expire[Mine(q)], Mine(q)>>) \/ InHand(Mine(q))
    BY DEF Inv, Armed
  <2>2. Mine(q)' = Mine(q)
    BY <1>2 DEF Mine, procs
  <2>3. CASE InHand(Mine(q))
    BY <2>1, <2>2, <2>3, <1>1, <1>5, MineIsATimer
  <2>4. CASE <<expire[Mine(q)], Mine(q)>> = Head(list)
    BY <2>1, <2>2, <2>4, <1>4, <1>5
  <2>. QED
    BY <2>1, <2>3, <2>4, <1>3
<1>. QED
  BY <1>5, <1>6, <1>7, <1>8 DEF Inv

\* A frame lets go of a timer when its function has run and has woken the sleeper.
LEMMA FireKeeps == ASSUME Inv, NEW p \in Procs, Fire(p) PROVE Inv'
<1> DEFINE f == [TopFrame(p) EXCEPT !.pc = "loop", !.timer = NoTimer]
           t == TopFrame(p).timer
<1>1. stack[p] # <<>> /\ TopFrame(p) \in Frames /\ TopFrame(p).pc = "fire"
  BY TopFacts DEF Fire
<1>2. /\ SetTop(p, f) /\ running' = running /\ count' = count
      /\ fn' = [fn EXCEPT ![t] = "ran"]
      /\ state' = [q \in Sleepers |->
                     IF fn[t] = "armed" /\ t[1] = q THEN "Runnable" ELSE state[q]]
      /\ UNCHANGED <<jiffies, list, rpc, expire, pending, cur, pc, calls>>
  BY DEF Fire
<1>3. f \in Frames /\ f.timer = NoTimer /\ f.pc = "loop"
  BY ZenonT(40), <1>1 DEF Frames
<1>. HIDE DEF f
<1>5. /\ stack' \in [Procs -> Seq(Frames)] /\ Held' /\ Counted'
      /\ TopOf(p) \in Running <=> TopFrame(p).pc \in Busy
      /\ Running' = IF f.pc \in Busy THEN Running \cup {TopOf(p)} ELSE Running \ {TopOf(p)}
      /\ \A x : InHand(x) => x = TopFrame(p).timer \/ InHand(x)'
  BY <1>1, <1>2, <1>3, MoveKeeps DEF Inv
<1>6. Single'
  BY <1>1, <1>2, <1>3, <1>5 DEF Inv, Single, Busy
<1>7. TypeOK'
  <2>1. fn' \in [Timers -> {"none", "armed", "ran"}]
    BY ZenonT(40), <1>2 DEF Inv, TypeOK
  <2>2. state' \in [Sleepers -> {"Runnable", "Blocked"}]
    BY <1>2 DEF Inv, TypeOK
  <2>. QED
    BY ZenonT(40), <2>1, <2>2, <1>2, <1>5 DEF Inv, TypeOK
<1>8. Armed'
  <2>. SUFFICES ASSUME NEW q \in Sleepers, state'[q] = "Blocked"
                PROVE  /\ calls[q] > 0 /\ fn'[Mine(q)] = "armed"
                       /\ Has(list, <<expire[Mine(q)], Mine(q)>>) \/ InHand(Mine(q))'
    BY <1>2 DEF Armed, Mine
  <2>1. state[q] = "Blocked" /\ ~(fn[t] = "armed" /\ t[1] = q)
    BY <1>2
  <2>2. /\ calls[q] > 0 /\ fn[Mine(q)] = "armed"
        /\ Has(list, <<expire[Mine(q)], Mine(q)>>) \/ InHand(Mine(q))
    BY <2>1 DEF Inv, Armed
  <2>3. Mine(q)' = Mine(q)
    BY <1>2 DEF Mine
  <2>4. Mine(q) # t
    BY <2>1, <2>2 DEF Mine
  <2>5. fn'[Mine(q)] = "armed"
    BY <1>2, <2>1, <2>2, <2>4, MineIsATimer DEF Inv, TypeOK
  <2>. QED
    BY <2>2, <2>3, <2>4, <2>5, <1>5
<1>. QED
  BY <1>5, <1>6, <1>7, <1>8 DEF Inv

\* Steps that leave the stacks alone keep what concerns frames.
LEMMA SameFrames ==
  ASSUME Inv, UNCHANGED <<running, count, stack>>
  PROVE  Held' /\ Counted' /\ Single' /\ \A t : InHand(t)' <=> InHand(t)
<1>1. AllFrames' = AllFrames /\ Running' = Running
  BY DEF AllFrames, Running, FrameOf
<1>. QED
  BY <1>1 DEF Inv, Held, Counted, Single, InHand, FrameOf

\* schedule and its return, and early wake-ups, block nobody.
LEMMA ProcessKeeps ==
  ASSUME Inv, NEW p \in Sleepers, Schedule(p) \/ Return(p) \/ Interrupt(p)
  PROVE  Inv'
<1>1. /\ UNCHANGED <<jiffies, list, rpc, fn, expire, running, pending, count, stack, calls>>
      /\ cur' \in Procs /\ pc' \in [Sleepers -> {"out", "armed", "asleep"}]
      /\ state' \in [Sleepers -> {"Runnable", "Blocked"}]
      /\ \A q \in Sleepers : state'[q] = "Blocked" => state[q] = "Blocked"
  <2>1. CASE Schedule(p)
    BY <2>1 DEF Schedule, Ready, timers, softirq, Inv, TypeOK
  <2>2. CASE Return(p)
    BY <2>2 DEF Return, timers, softirq, Inv, TypeOK
  <2>3. CASE Interrupt(p)
    BY <2>3 DEF Interrupt, timers, softirq, Inv, TypeOK
  <2>. QED
    BY <2>1, <2>2, <2>3
<1>2. Held' /\ Counted' /\ Single' /\ \A t : InHand(t)' <=> InHand(t)
  BY <1>1, SameFrames
<1>3. TypeOK'
  BY <1>1 DEF Inv, TypeOK
<1>4. Armed'
  BY <1>1, <1>2 DEF Inv, Armed, Mine
<1>. QED
  BY <1>2, <1>3, <1>4 DEF Inv

\* The other CPU takes the lock with a timer of its own.
LEMMA RemoteLockKeeps ==
  ASSUME Inv, NEW r \in Remote, NEW n \in 0 .. 1, RemoteLock(r, n)
  PROVE  Inv'
<1>1. /\ UNCHANGED <<jiffies, list, running, pending, count, stack, cur, pc, state, calls>>
      /\ rpc' \in [Remote -> {"new", "activate", "active", "cancel", "gone"}]
      /\ fn' \in [Timers -> {"none", "armed", "ran"}] /\ expire' \in [Timers -> 0 .. MaxJiffies]
      /\ \A t \in Timers : t # <<r, 0>> => fn'[t] = fn[t] /\ expire'[t] = expire[t]
  <2>1. /\ UNCHANGED <<jiffies, list, running, pending, count, stack, cur, pc, state, calls>>
        /\ rpc \in [Remote -> {"new", "activate", "active", "cancel", "gone"}]
        /\ fn \in [Timers -> {"none", "armed", "ran"}] /\ expire \in [Timers -> 0 .. MaxJiffies]
    BY DEF RemoteLock, softirq, procs, Inv, TypeOK
  <2>2. CASE rpc[r] = "new"
    <3>1. jiffies + n \in 0 .. MaxJiffies
      BY <2>2, Limits DEF RemoteLock, Inv, TypeOK
    <3>2. /\ rpc' = [rpc EXCEPT ![r] = "activate"]
          /\ expire' = [expire EXCEPT ![<<r, 0>>] = jiffies + n]
          /\ fn' = [fn EXCEPT ![<<r, 0>>] = "armed"]
      BY <2>2 DEF RemoteLock
    <3>. QED
      BY ZenonT(40), <2>1, <3>1, <3>2
  <2>3. CASE rpc[r] # "new"
    <3>1. rpc' = [rpc EXCEPT ![r] = "cancel"] /\ UNCHANGED <<expire, fn>>
      BY <2>3 DEF RemoteLock
    <3>. QED
      BY <2>1, <3>1
  <2>. QED
    BY <2>2, <2>3
<1>2. Held' /\ Counted' /\ Single' /\ \A t : InHand(t)' <=> InHand(t)
  BY <1>1, SameFrames
<1>3. TypeOK'
  BY <1>1 DEF Inv, TypeOK
<1>4. Armed'
  BY ZenonT(40), <1>1, <1>2, MineIsATimer DEF Inv, Armed, Mine
<1>. QED
  BY <1>2, <1>3, <1>4 DEF Inv

\* cancel() removes the timer of the other CPU and no other.
LEMMA RemoteCancelKeeps ==
  ASSUME Inv, NEW r \in Remote, RemoteCancel(r)
  PROVE  Inv'
<1> DEFINE S == (0 .. MaxJiffies) \X (Timers \ {<<r, 0>>})
           T == (0 .. MaxJiffies) \X Timers
<1>1. /\ UNCHANGED <<jiffies, fn, expire, running, pending, count, stack, cur, pc, state, calls>>
      /\ rpc' \in [Remote -> {"new", "activate", "active", "cancel", "gone"}]
      /\ list' \in Retained(list, S)
  BY DEF RemoteCancel, softirq, procs, Inv, TypeOK
<1>2. Held' /\ Counted' /\ Single' /\ \A t : InHand(t)' <=> InHand(t)
  BY <1>1, SameFrames
<1>3. list' \in Seq(T) /\ \A x : Has(list', x) <=> Has(list, x) /\ x \in S
  <2>1. list \in Seq(T)
    BY DEF Inv, TypeOK
  <2>. QED
    BY <1>1, <2>1, RetainedHas
<1>4. TypeOK'
  BY <1>1, <1>3 DEF Inv, TypeOK
<1>5. Armed'
  <2>. SUFFICES ASSUME NEW q \in Sleepers, state[q] = "Blocked"
                PROVE  /\ calls[q] > 0 /\ fn[Mine(q)] = "armed"
                       /\ Has(list', <<expire[Mine(q)], Mine(q)>>) \/ InHand(Mine(q))'
    BY <1>1 DEF Armed, Mine
  <2>1. /\ calls[q] > 0 /\ fn[Mine(q)] = "armed"
        /\ Has(list, <<expire[Mine(q)], Mine(q)>>) \/ InHand(Mine(q))
    BY DEF Inv, Armed
  <2>2. Mine(q)' = Mine(q)
    BY <1>1 DEF Mine
  <2>3. <<expire[Mine(q)], Mine(q)>> \in S
    BY MineIsATimer DEF Inv, TypeOK
  <2>. QED
    BY ZenonT(40), <2>1, <2>2, <2>3, <1>2, <1>3
<1>. QED
  BY <1>2, <1>4, <1>5 DEF Inv

------------------------------------------------------------------------------
(* What takes counting: the first place in the list, and the nesting        *)
(* counter.                                                                 *)

INSTANCE FiniteSetTheorems

\* A set of numbers has a smallest one.
LEMMA NatMin ==
  ASSUME NEW T \in SUBSET Nat, T # {}
  PROVE  \E x \in T : \A y \in T : x <= y
<1>1. PICK x \in T : \A y \in T : ~ (<<y, x>> \in OpToRel(<, Nat))
  BY NatLessThanWellFounded, WFMin
<1>2. \A y \in T : ~ (y < x)
  BY ZenonT(40), <1>1 DEF OpToRel
<1>. QED
  BY <1>2

\* Numbers that are given to different elements are no more than those.
LEMMA CountInjection ==
  ASSUME NEW S, IsFiniteSet(S), NEW n \in Nat, NEW f \in [1 .. n -> S],
         \A i, j \in 1 .. n : f[i] = f[j] => i = j
  PROVE  Cardinality(S) \in Nat /\ n <= Cardinality(S)
<1>1. f \in Injection(1 .. n, S)
  BY DEF Injection, IsInjective
<1>2. Cardinality(1 .. n) <= Cardinality(S)
  BY <1>1, FS_Injection
<1>3. Cardinality(1 .. n) = IF 1 > n THEN 0 ELSE n - 1 + 1
  BY FS_Interval
<1>. QED
  BY <1>2, <1>3, FS_CardinalityType

\* activate() adds the timer to the list and loses none.
LEMMA InsertedProperties ==
  ASSUME NEW l \in Seq((0 .. MaxJiffies) \X Timers), NEW e \in 0 .. MaxJiffies, NEW t \in Timers
  PROVE  /\ Inserted(l, t, e) \in Seq((0 .. MaxJiffies) \X Timers)
         /\ Has(Inserted(l, t, e), <<e, t>>)
         /\ \A x : Has(l, x) => Has(Inserted(l, t, e), x)
<1> DEFINE S == (0 .. MaxJiffies) \X Timers
           n == Len(l)
           s == SplitPos(l, e)
           new == Inserted(l, t, e)
<1>1. n \in Nat /\ l \in [1 .. n -> S]
  OBVIOUS
<1>2. Later(l, e) \in SUBSET Nat /\ Later(l, e) # {} /\ Later(l, e) \subseteq 1 .. n + 1
  BY <1>1 DEF Later
<1>3. s \in 1 .. n + 1
  <2>1. \E i \in Later(l, e) : \A j \in Later(l, e) : i <= j
    BY ZenonT(40), <1>2, NatMin
  <2>. QED
    BY <2>1, <1>2 DEF SplitPos
<1>4. <<e, t>> \in S
  OBVIOUS
<1>. HIDE DEF S, n, s
<1>5. new = [k \in 1 .. n + 1 |-> IF k < s THEN l[k] ELSE IF k = s THEN <<e, t>> ELSE l[k - 1]]
  BY DEF Inserted, n, s
<1>. HIDE DEF new
<1>6. new \in [1 .. n + 1 -> S]
  <2>. SUFFICES ASSUME NEW k \in 1 .. n + 1
                PROVE  (IF k < s THEN l[k] ELSE IF k = s THEN <<e, t>> ELSE l[k - 1]) \in S
    BY ZenonT(40), <1>5
  <2>1. CASE k < s
    BY <2>1, <1>1, <1>3
  <2>2. CASE k = s
    BY <2>2, <1>3, <1>4
  <2>3. CASE k > s
    BY <2>3, <1>1, <1>3
  <2>. QED
    BY <2>1, <2>2, <2>3, <1>1, <1>3
<1>7. new \in Seq(S) /\ Len(new) = n + 1
  <2>1. n + 1 \in Nat
    BY <1>1
  <2>2. new \in Seq(S)
    BY <1>6, <2>1
  <2>3. DOMAIN new = 1 .. n + 1 /\ DOMAIN new = 1 .. Len(new) /\ Len(new) \in Nat
    BY <1>6, <2>2
  <2>. QED
    BY <2>1, <2>2, <2>3
<1>8. new[s] = <<e, t>>
  BY <1>3, <1>5, <1>1
<1>9. ASSUME NEW x, Has(l, x) PROVE Has(new, x)
  <2>1. PICK i \in 1 .. n : l[i] = x
    BY <1>9 DEF Has, n
  <2>2. CASE i < s
    <3>1. new[i] = x /\ i \in 1 .. Len(new)
      BY <1>1, <1>3, <1>5, <1>7, <2>1, <2>2
    <3>. QED
      BY <3>1 DEF Has
  <2>3. CASE i >= s
    <3>1. new[i + 1] = x /\ i + 1 \in 1 .. Len(new)
      BY <1>1, <1>3, <1>5, <1>7, <2>1, <2>3
    <3>. QED
      BY <3>1 DEF Has
  <2>. QED
    BY <1>1, <1>3, <2>2, <2>3
<1>. QED
  BY ZenonT(40), <1>3, <1>7, <1>8, <1>9 DEF Has, new, S

\* A softirq that is entered adds a frame: the counter keeps every stack below the limit.
LEMMA PushFrame ==
  ASSUME TypeOK, Counted, NEW f \in Frames, ~AtLimit,
         stack' = [stack EXCEPT ![cur] = Append(@, f)],
         NEW x0, x0 = <<cur, Len(stack[cur]) + 1>>
  PROVE  /\ stack' \in [Procs -> Seq(Frames)]
         /\ \A q \in Procs : Len(stack'[q]) <= MAX_RUNNING_PER_CPU
         /\ AllFrames' = AllFrames \cup {x0} /\ x0 \notin AllFrames
         /\ stack'[x0[1]][x0[2]] = f
         /\ \A x \in AllFrames : FrameOf(x)' = FrameOf(x)
<1> DEFINE n == Len(stack[cur])
           M == MAX_RUNNING_PER_CPU
<1>1. stack \in [Procs -> Seq(Frames)] /\ cur \in Procs
  BY DEF TypeOK
<1>2. stack[cur] \in Seq(Frames) /\ n \in Nat /\ M \in Nat \ {0}
  BY <1>1, Limits
<1>3. /\ Append(stack[cur], f) \in Seq(Frames)
      /\ Len(Append(stack[cur], f)) = n + 1
      /\ \A i \in 1 .. n : Append(stack[cur], f)[i] = stack[cur][i]
      /\ Append(stack[cur], f)[n + 1] = f
  BY <1>2
<1>4. stack'[cur] = Append(stack[cur], f) /\ \A q \in Procs : q # cur => stack'[q] = stack[q]
  BY <1>1
<1>5. stack' \in [Procs -> Seq(Frames)]
  BY <1>1, <1>3
<1>. HIDE DEF n, M
<1>6. n < M
  <2>. SUFFICES ASSUME n >= M PROVE FALSE
    BY <1>2
  <2> DEFINE g == [i \in 1 .. M |-> <<cur, i>>]
  <2>1. g \in [1 .. M -> AllFrames] /\ \A i, j \in 1 .. M : g[i] = g[j] => i = j
    BY <1>1, <1>2 DEF AllFrames, n, M
  <2>2. M <= Cardinality(AllFrames)
    BY ZenonT(40), <1>2, <2>1, CountInjection DEF Counted
  <2>. QED
    BY <2>2, <1>2 DEF Counted, AtLimit, TypeOK, M
<1>7. \A q \in Procs : Len(stack'[q]) <= M
  BY <1>2, <1>3, <1>4, <1>6 DEF Counted, M
<1>8. ASSUME NEW x \in Procs \X (1 .. M)
      PROVE  x[2] <= Len(stack'[x[1]]) <=> x[2] <= Len(stack[x[1]]) \/ x = x0
  <2>1. x[1] \in Procs /\ x[2] \in 1 .. M /\ x = <<x[1], x[2]>>
    BY <1>8
  <2>2. x = x0 <=> x[1] = cur /\ x[2] = n + 1
    BY <2>1 DEF n
  <2>3. CASE x[1] = cur
    BY <2>1, <2>2, <2>3, <1>2, <1>3, <1>4 DEF n
  <2>4. CASE x[1] # cur
    BY <2>1, <2>2, <2>4, <1>4
  <2>. QED
    BY <2>3, <2>4
<1>9. x0 \in Procs \X (1 .. M)
  BY <1>1, <1>2, <1>6 DEF n
<1>10. AllFrames' = AllFrames \cup {x0}
  BY <1>8, <1>9 DEF AllFrames, M
<1>11. x0 \notin AllFrames
  BY <1>2 DEF AllFrames, n
<1>12. stack'[x0[1]][x0[2]] = f
  BY <1>3, <1>4 DEF n
<1>13. ASSUME NEW x \in AllFrames PROVE FrameOf(x)' = FrameOf(x)
  <2>1. x[1] \in Procs /\ x[2] \in 1 .. Len(stack[x[1]])
    BY <1>1 DEF AllFrames
  <2>. QED
    BY <2>1, <1>3, <1>4 DEF FrameOf, n
<1>. QED
  BY <1>5, <1>7, <1>10, <1>11, <1>12, <1>13 DEF M

\* A softirq that returns drops the top frame of its process, and no other.
LEMMA PopFrame ==
  ASSUME TypeOK, Counted, NEW p \in Procs, stack[p] # <<>>,
         stack' = [stack EXCEPT ![p] = SubSeq(@, 1, Len(@) - 1)]
  PROVE  /\ stack' \in [Procs -> Seq(Frames)]
         /\ \A q \in Procs : Len(stack'[q]) <= MAX_RUNNING_PER_CPU
         /\ AllFrames' = AllFrames \ {TopOf(p)}
         /\ TopOf(p) \in AllFrames /\ FrameOf(TopOf(p)) = TopFrame(p)
         /\ \A x \in AllFrames : x # TopOf(p) => FrameOf(x)' = FrameOf(x)
<1> DEFINE n == Len(stack[p])
           M == MAX_RUNNING_PER_CPU
           s == SubSeq(stack[p], 1, n - 1)
<1>1. stack \in [Procs -> Seq(Frames)]
  BY DEF TypeOK
<1>2. stack[p] \in Seq(Frames) /\ n \in Nat \ {0} /\ M \in Nat \ {0}
      /\ stack[p] \in [1 .. n -> Frames]
  BY <1>1, Limits
<1>3. s \in Seq(Frames) /\ Len(s) = n - 1 /\ \A i \in 1 .. n - 1 : s[i] = stack[p][i]
  <2>1. \A i \in 1 .. n - 1 : stack[p][i] \in Frames
    BY <1>2
  <2>2. 1 \in Int /\ n - 1 \in Int
    BY <1>2
  <2>3. /\ s \in Seq(Frames)
        /\ Len(s) = IF 1 <= n - 1 THEN (n - 1) - 1 + 1 ELSE 0
        /\ \A i \in 1 .. (n - 1) - 1 + 1 : s[i] = stack[p][1 + i - 1]
    BY <2>1, <2>2
  <2>. QED
    BY <2>3, <1>2
<1>4. stack'[p] = s /\ \A q \in Procs : q # p => stack'[q] = stack[q]
  BY <1>1
<1>5. stack' \in [Procs -> Seq(Frames)]
  BY <1>1, <1>3
<1>. HIDE DEF n, M, s
<1>6. n <= M
  BY DEF Counted, n, M
<1>7. \A q \in Procs : Len(stack'[q]) <= M
  BY <1>2, <1>3, <1>4, <1>6 DEF Counted, M
<1>8. ASSUME NEW x \in Procs \X (1 .. M)
      PROVE  x[2] <= Len(stack'[x[1]]) <=> x[2] <= Len(stack[x[1]]) /\ x # TopOf(p)
  <2>1. x[1] \in Procs /\ x[2] \in 1 .. M /\ x = <<x[1], x[2]>>
    BY <1>8
  <2>2. x = TopOf(p) <=> x[1] = p /\ x[2] = n
    BY <2>1 DEF n, TopOf
  <2>3. CASE x[1] = p
    BY <2>1, <2>2, <2>3, <1>2, <1>3, <1>4 DEF n
  <2>4. CASE x[1] # p
    BY <2>1, <2>2, <2>4, <1>4
  <2>. QED
    BY <2>3, <2>4
<1>9. AllFrames' = AllFrames \ {TopOf(p)}
  BY <1>8 DEF AllFrames, M
<1>10. TopOf(p) \in AllFrames
  BY <1>2, <1>6 DEF AllFrames, TopOf, n, M
<1>11. FrameOf(TopOf(p)) = TopFrame(p)
  BY DEF FrameOf, TopOf, TopFrame
<1>12. ASSUME NEW x \in AllFrames, x # TopOf(p) PROVE FrameOf(x)' = FrameOf(x)
  <2>1. x[1] \in Procs /\ x[2] \in 1 .. Len(stack[x[1]]) /\ x = <<x[1], x[2]>>
    BY <1>1 DEF AllFrames
  <2>2. CASE x[1] = p
    <3>1. x[2] \in 1 .. n - 1
      BY <1>2, <1>12, <2>1, <2>2 DEF TopOf, n
    <3>. QED
      BY <3>1, <2>2, <1>3, <1>4 DEF FrameOf
  <2>3. CASE x[1] # p
    BY <2>1, <2>3, <1>4 DEF FrameOf
  <2>. QED
    BY <2>2, <2>3
<1>. QED
  BY <1>5, <1>7, <1>9, <1>10, <1>11, <1>12 DEF M

\* schedule_timeout: the process is marked asleep together with its timer.
LEMMA ScheduleTimeoutKeeps ==
  ASSUME Inv, NEW p \in Sleepers, NEW n \in 0 .. 1, ScheduleTimeout(p, n)
  PROVE  Inv'
<1> DEFINE t == <<p, calls[p] + 1>>
           e == jiffies + n
<1>1. /\ UNCHANGED <<jiffies, rpc, running, pending, count, stack, cur>>
      /\ calls[p] < Calls /\ e < MaxJiffies
      /\ expire' = [expire EXCEPT ![t] = e] /\ fn' = [fn EXCEPT ![t] = "armed"]
      /\ list' = Inserted(list, t, e)
      /\ calls' = [calls EXCEPT ![p] = @ + 1] /\ state' = [state EXCEPT ![p] = "Blocked"]
      /\ pc' = [pc EXCEPT ![p] = "armed"]
  BY DEF ScheduleTimeout, softirq
<1>2. calls[p] \in Nat /\ t \in Timers /\ e \in 0 .. MaxJiffies
  BY <1>1, Limits DEF Inv, TypeOK, Timers
<1>3. Held' /\ Counted' /\ Single' /\ \A x : InHand(x)' <=> InHand(x)
  BY <1>1, SameFrames
<1>4. /\ list' \in Seq((0 .. MaxJiffies) \X Timers) /\ Has(list', <<e, t>>)
      /\ \A x : Has(list, x) => Has(list', x)
  BY ZenonT(40), <1>1, <1>2, InsertedProperties DEF Inv, TypeOK
<1>. HIDE DEF e
<1>5. /\ expire' \in [Timers -> 0 .. MaxJiffies] /\ fn' \in [Timers -> {"none", "armed", "ran"}]
      /\ expire'[t] = e /\ fn'[t] = "armed"
      /\ \A x \in Timers : x # t => expire'[x] = expire[x] /\ fn'[x] = fn[x]
  BY <1>1, <1>2 DEF Inv, TypeOK
<1>6. /\ calls' \in [Sleepers -> 0 .. Calls] /\ calls'[p] = calls[p] + 1
      /\ state' \in [Sleepers -> {"Runnable", "Blocked"}]
      /\ pc' \in [Sleepers -> {"out", "armed", "asleep"}]
      /\ \A q \in Sleepers : q # p => calls'[q] = calls[q] /\ state'[q] = state[q]
  BY <1>1, <1>2, Limits DEF Inv, TypeOK
<1>7. TypeOK'
  BY <1>1, <1>4, <1>5, <1>6 DEF Inv, TypeOK
<1>8. Armed'
  <2>. SUFFICES ASSUME NEW q \in Sleepers, state'[q] = "Blocked"
                PROVE  /\ calls'[q] > 0 /\ fn'[<<q, calls'[q]>>] = "armed"
                       /\ \/ Has(list', <<expire'[<<q, calls'[q]>>], <<q, calls'[q]>> >>)
                          \/ InHand(<<q, calls[q]>>)' /\ calls'[q] = calls[q]
    BY ZenonT(40) DEF Armed, Mine, InHand, FrameOf, AllFrames
  <2>1. CASE q = p
    <3>1. <<q, calls'[q]>> = t /\ calls'[q] > 0
      BY <2>1, <1>2, <1>6
    <3>. HIDE DEF t
    <3>. QED
      BY ZenonT(40), <3>1, <1>4, <1>5
  <2>2. CASE q # p
    <3>1. state[q] = "Blocked" /\ calls'[q] = calls[q] /\ Mine(q) # t /\ Mine(q) \in Timers
      BY <2>2, <1>6, MineIsATimer DEF Mine
    <3>2. /\ calls[q] > 0 /\ fn[Mine(q)] = "armed"
          /\ Has(list, <<expire[Mine(q)], Mine(q)>>) \/ InHand(Mine(q))
      BY <3>1 DEF Inv, Armed
    <3>. QED
      BY ZenonT(40), <3>1, <3>2, <1>3, <1>4, <1>5 DEF Mine
  <2>. QED
    BY ZenonT(40), <2>1, <2>2
<1>. QED
  BY <1>3, <1>7, <1>8 DEF Inv

\* activate() of the other CPU.
LEMMA RemoteActivateKeeps == ASSUME Inv, NEW r \in Remote, RemoteActivate(r) PROVE Inv'
<1>1. /\ UNCHANGED <<jiffies, fn, expire, running, pending, count, stack, cur, pc, state, calls>>
      /\ rpc' \in [Remote -> {"new", "activate", "active", "cancel", "gone"}]
      /\ list' = Inserted(list, <<r, 0>>, expire[<<r, 0>>])
  BY DEF RemoteActivate, softirq, procs, Inv, TypeOK
<1>2. <<r, 0>> \in Timers /\ expire[<<r, 0>>] \in 0 .. MaxJiffies
  BY DEF Inv, TypeOK, Timers
<1>3. Held' /\ Counted' /\ Single' /\ \A x : InHand(x)' <=> InHand(x)
  BY <1>1, SameFrames
<1>4. list' \in Seq((0 .. MaxJiffies) \X Timers) /\ \A x : Has(list, x) => Has(list', x)
  BY ZenonT(40), <1>1, <1>2, InsertedProperties DEF Inv, TypeOK
<1>5. TypeOK'
  BY <1>1, <1>4 DEF Inv, TypeOK
<1>6. Armed'
  BY ZenonT(40), <1>1, <1>3, <1>4 DEF Inv, Armed, Mine
<1>. QED
  BY <1>3, <1>5, <1>6 DEF Inv

\* The tick pushes a frame with empty hands outside the handler, or switches.
LEMMA TickKeeps == ASSUME Inv, Tick PROVE Inv'
<1>1. /\ UNCHANGED <<list, rpc, fn, expire, running, pc, state, calls>>
      /\ jiffies' \in 0 .. MaxJiffies
  BY Limits DEF Tick, timers, Inv, TypeOK
<1>2. CASE AtLimit
  <2>1. /\ UNCHANGED <<running, count, stack>> /\ cur' \in Procs /\ pending' \in BOOLEAN
    BY ZenonT(40), <1>2 DEF Tick, Ready, Inv, TypeOK
  <2>2. Held' /\ Counted' /\ Single' /\ \A x : InHand(x)' <=> InHand(x)
    BY <2>1, SameFrames
  <2>3. TypeOK'
    BY <1>1, <2>1 DEF Inv, TypeOK
  <2>4. Armed'
    BY <1>1, <2>2 DEF Inv, Armed, Mine
  <2>. QED
    BY <2>2, <2>3, <2>4 DEF Inv
<1>3. CASE ~AtLimit
  <2>1. PICK raised \in BOOLEAN :
          /\ pending' = FALSE /\ count' = count + 1 /\ cur' = cur
          /\ stack' = [stack EXCEPT ![cur] =
                         Append(@, [pc |-> IF raised THEN "handler" ELSE "end",
                                    left |-> 0, timer |-> NoTimer])]
    <3>1. \A b \in {pending \/ Raises(jiffies')} \cup (IF locked THEN {pending} ELSE {}) :
            b \in BOOLEAN
      BY ZenonT(40) DEF Inv, TypeOK
    <3>. QED
      BY <1>3, <3>1 DEF Tick
  <2> DEFINE f == [pc |-> IF raised THEN "handler" ELSE "end", left |-> 0, timer |-> NoTimer]
             x0 == <<cur, Len(stack[cur]) + 1>>
  <2>2. f \in Frames /\ f.pc \notin Busy /\ f.timer = NoTimer
    BY Limits DEF Frames, Busy
  <2>3. stack' = [stack EXCEPT ![cur] = Append(@, f)]
    BY <2>1
  <2>. HIDE DEF f, x0
  <2>4. /\ stack' \in [Procs -> Seq(Frames)]
        /\ \A q \in Procs : Len(stack'[q]) <= MAX_RUNNING_PER_CPU
        /\ AllFrames' = AllFrames \cup {x0} /\ x0 \notin AllFrames
        /\ stack'[x0[1]][x0[2]] = f
        /\ \A x \in AllFrames : FrameOf(x)' = FrameOf(x)
    BY ZenonT(40), <1>3, <2>2, <2>3, PushFrame DEF Inv, x0
  <2>41. \A x : x = x0 => FrameOf(x)' = f
    BY <2>4 DEF FrameOf
  <2>5. Held'
    BY <2>2, <2>4, <2>41 DEF Inv, Held
  <2>6. Counted'
    BY ZenonT(40), <2>1, <2>4, FS_AddElement DEF Inv, Counted
  <2>7. Running' = Running
    BY <2>2, <2>4, <2>41 DEF Running, Busy
  <2>8. Single'
    BY <1>1, <2>7 DEF Inv, Single
  <2>9. Armed'
    <3>1. \A t : InHand(t) => InHand(t)'
      BY <2>4 DEF InHand
    <3>. QED
      BY <1>1, <3>1 DEF Inv, Armed, Mine
  <2>10. TypeOK'
    <3>1. count' \in 0 .. MAX_RUNNING_PER_CPU
      BY <1>3, <2>1, Limits DEF Inv, TypeOK, AtLimit
    <3>. QED
      BY ZenonT(40), <1>1, <2>1, <2>4, <3>1 DEF Inv, TypeOK
  <2>. QED
    BY <2>5, <2>6, <2>8, <2>9, <2>10 DEF Inv
<1>. QED
  BY <1>2, <1>3

\* A frame that returns is outside the handler and has empty hands.
LEMMA LeaveKeeps == ASSUME Inv, NEW p \in Procs, Leave(p) PROVE Inv'
<1>1. /\ stack[p] # <<>> /\ TopFrame(p).pc = "end" /\ TopFrame(p).timer = NoTimer
  BY TopFacts DEF Leave
<1>2. /\ UNCHANGED <<jiffies, list, rpc, fn, expire, running, pending, pc, state, calls>>
      /\ count' = count - 1 /\ cur' \in Procs
      /\ stack' = [stack EXCEPT ![p] = SubSeq(@, 1, Len(@) - 1)]
  BY DEF Leave, timers, Ready
<1>3. /\ stack' \in [Procs -> Seq(Frames)]
      /\ \A q \in Procs : Len(stack'[q]) <= MAX_RUNNING_PER_CPU
      /\ AllFrames' = AllFrames \ {TopOf(p)}
      /\ TopOf(p) \in AllFrames /\ FrameOf(TopOf(p)) = TopFrame(p)
      /\ \A x \in AllFrames : x # TopOf(p) => FrameOf(x)' = FrameOf(x)
  BY ZenonT(40), <1>1, <1>2, PopFrame DEF Inv
<1>4. Held'
  BY <1>3 DEF Inv, Held
<1>5. Counted' /\ count' \in 0 .. MAX_RUNNING_PER_CPU
  <2>1. /\ IsFiniteSet(AllFrames') /\ Cardinality(AllFrames') = Cardinality(AllFrames) - 1
        /\ Cardinality(AllFrames') \in Nat
    BY <1>3, FS_RemoveElement, FS_CardinalityType DEF Inv, Counted
  <2>. QED
    BY <1>2, <1>3, <2>1, Limits DEF Inv, Counted, TypeOK
<1>6. Running' = Running
  BY <1>1, <1>3 DEF Running
<1>7. Single'
  BY <1>2, <1>6 DEF Inv, Single
<1>8. Armed'
  <2>1. \A t : InHand(t) => t = NoTimer \/ InHand(t)'
    BY <1>1, <1>3 DEF InHand
  <2>. QED
    BY ZenonT(40), <1>2, <2>1, MineIsATimer DEF Inv, Armed, Mine
<1>9. TypeOK'
  BY <1>2, <1>3, <1>5 DEF Inv, TypeOK
<1>. QED
  BY <1>4, <1>5, <1>7, <1>8, <1>9 DEF Inv

------------------------------------------------------------------------------
(* The theorems.                                                            *)

\* The invariant holds initially.
LEMMA InvInit == Init => Inv
<1>. SUFFICES ASSUME Init PROVE Inv
  OBVIOUS
<1>1. TypeOK
  <2>1. jiffies \in 0 .. MaxJiffies /\ count \in 0 .. MAX_RUNNING_PER_CPU
        /\ expire \in [Timers -> 0 .. MaxJiffies] /\ calls \in [Sleepers -> 0 .. Calls]
    BY Limits DEF Init
  <2>2. list \in Seq((0 .. MaxJiffies) \X Timers)
    BY DEF Init
  <2>3. stack \in [Procs -> Seq(Frames)]
    BY DEF Init
  <2>. QED
    BY ZenonT(40), <2>1, <2>2, <2>3 DEF Init, TypeOK
<1>2. AllFrames = {}
  BY Limits DEF Init, AllFrames
<1>3. Held /\ Single
  BY <1>2 DEF Init, Held, Single, Running
<1>4. Counted
  BY <1>2, FS_EmptySet, Limits DEF Init, Counted
<1>5. Armed
  BY DEF Init, Armed
<1>. QED
  BY <1>1, <1>3, <1>4, <1>5 DEF Inv

\* The invariant is inductive.
LEMMA InvNext == Inv /\ [Next]_vars => Inv'
<1>. SUFFICES ASSUME Inv, [Next]_vars PROVE Inv'
  OBVIOUS
<1>1. ASSUME NEW p \in Procs, Frame(p) PROVE Inv'
  BY <1>1, EnterKeeps, ContendedKeeps, TakeKeeps, LoopEndKeeps, FireKeeps, ClearRunKeeps,
     LeaveKeeps DEF Frame
<1>2. ASSUME NEW p \in Sleepers, Sleeper(p) PROVE Inv'
  BY <1>2, ScheduleTimeoutKeeps, ProcessKeeps DEF Sleeper
<1>3. CASE UNCHANGED vars
  <2>1. UNCHANGED <<jiffies, list, rpc, fn, expire, running, pending, count, stack, cur,
                    pc, state, calls>>
    BY <1>3 DEF vars, timers, softirq, procs
  <2>2. Held' /\ Counted' /\ Single' /\ \A x : InHand(x)' <=> InHand(x)
    BY <2>1, SameFrames
  <2>. QED
    BY ZenonT(40), <2>1, <2>2 DEF Inv, TypeOK, Armed, Mine
<1>. QED
  BY <1>1, <1>2, <1>3, TickKeeps, RemoteActivateKeeps, RemoteCancelKeeps, RemoteLockKeeps
     DEF Next

\* The invariant holds in every behaviour.
LEMMA Always == Spec => []Inv
BY InvInit, InvNext, PTL DEF Spec

\* Every variable keeps its type; the nesting counter stays in its range.
THEOREM TypeCorrect == Spec => []TypeOK
<1>1. Inv => TypeOK
  BY DEF Inv
<1>. QED
  BY Always, <1>1, PTL

\* For any processes and limits: one frame at most is inside the timer handler,
\* `running` says whether one is, and the nesting counter is the number of frames.
THEOREM RunsOnce == Spec => []OneRunner
<1>1. Inv => OneRunner
  BY DEF Inv, Single, Counted, OneRunner
<1>. QED
  BY Always, <1>1, PTL

\* For any processes, remote timers and limits: a process asleep in schedule_timeout has
\* its timer in the list, or in the hand of a frame that is about to run it.
THEOREM SleepersHaveTimers == Spec => []SleeperHasTimer
<1>1. Inv => SleeperHasTimer
  <2>. SUFFICES ASSUME Inv, NEW p \in Sleepers, state[p] = "Blocked"
                PROVE  /\ fn[<<p, calls[p]>>] = "armed"
                       /\ InList(<<p, calls[p]>>) \/ InHand(<<p, calls[p]>>)
    BY DEF SleeperHasTimer, InHand
  <2> DEFINE t == <<p, calls[p]>>
  <2>1. fn[t] = "armed" /\ (Has(list, <<expire[t], t>>) \/ InHand(t))
    BY DEF Inv, Armed, Mine
  <2>. HIDE DEF t
  <2>2. ASSUME Has(list, <<expire[t], t>>) PROVE InList(t)
    <3>1. PICK i \in 1 .. Len(list) : list[i] = <<expire[t], t>>
      BY <2>2 DEF Has
    <3>2. list[i][2] = t
      BY <3>1
    <3>. QED
      BY <3>2 DEF InList
  <2>3. fn[t] = "armed" /\ (InList(t) \/ InHand(t))
    BY <2>1, <2>2
  <2>. QED
    BY <2>3 DEF t
<1>. QED
  BY Always, <1>1, PTL
==============================================================================
