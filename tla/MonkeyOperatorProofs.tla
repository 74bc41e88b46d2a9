------------------------- MODULE MonkeyOperatorProofs --------------------------
(***************************************************************************)
(* Proofs about MonkeyOperator, for any number of callers and any limit    *)
(* on ticks.                                                               *)
(***************************************************************************)
EXTENDS MonkeyOperator, FiniteSetTheorems, TLAPS

\* Every Run under way has a goroutine left to start (the bound of CallRun).
Room == started + Cardinality(UnderWay) <= MaxRuns

\* The goroutines that were started are the first ones.
StartedOnes ==
  \A r \in Runs :
    /\ loop[r] = "none" <=> started < r
    /\ started < r => made[r] = 0

\* A goroutine that may still make a block has room for one more, because ticks
\* are never behind blocks.
RoomForBlocks ==
  \A r \in Runs :
    /\ made[r] <= ticks[r]
    /\ Ticks > 0 => made[r] <= Ticks
    /\ Ticks > 0 /\ AtWork(r) => made[r] < Ticks

\* An operator that is run once: running, started and doneCh say where Run and
\* its goroutine are.
OneRun ==
  ~again =>
    /\ started <= 1
    /\ \A c, d \in Callers : pc[c] \in RunLabels /\ pc[d] \in RunLabels => c = d
    /\ (\E c \in Callers : pc[c] \in RunLabels) => started = 0
    /\ doneClosed = TRUE <=> loop[1] = "gone"
    /\ running = TRUE <=> \/ \E c \in Callers : pc[c] = "init"
                          \/ loop[1] \in {"select", "tick", "leaving"}
    /\ loop[1] # "panic"

IInv ==
  /\ TypeOK
  /\ Room
  /\ StartedOnes
  /\ RoomForBlocks
  /\ OneRun

--------------------------------------------------------------------------------

\* A Run under way may start its goroutine.
LEMMA RoomToStart ==
  ASSUME IInv, NEW c \in Callers, pc[c] = "init"
  PROVE  started + 1 \in Runs
<1>1. IsFiniteSet(UnderWay)
  BY OperatorAssumption, FS_Subset DEF UnderWay
<1>2. c \in UnderWay
  BY DEF UnderWay, RunLabels
<1>3. Cardinality(UnderWay) \in Nat /\ Cardinality(UnderWay) # 0
  BY <1>1, <1>2, FS_CardinalityType, FS_EmptySet
<1>. QED
  BY <1>3, OperatorAssumption DEF IInv, TypeOK, Room, Runs

\* Counting stays within the bound and keeps the order.
LEMMA Counting ==
  ASSUME NEW n \in 0..MaxTicks
  PROVE  /\ CountOn(n) \in 0..MaxTicks
         /\ n < MaxTicks => CountOn(n) = n + 1
         /\ \A m \in 0..MaxTicks : m <= n => CountOn(m) <= CountOn(n) /\ m <= CountOn(n)
  BY OperatorAssumption DEF CountOn

\* Every action keeps the state well typed.
LEMMA TypeStep ==
  ASSUME IInv, [Next]_vars
  PROVE  TypeOK'
<1>. USE OperatorAssumption DEF TypeOK, Runs, Goto, LoopGoto, Return, In, LoopIn, channels, loops, callers, RunLabels
<1>0. TypeOK
  BY DEF IInv
<1>1. ASSUME NEW c \in Callers, CallRun(c) PROVE TypeOK'
  BY <1>0, <1>1 DEF CallRun
<1>2. ASSUME NEW c \in Callers, StoreRunning(c) PROVE TypeOK'
  BY <1>0, <1>2 DEF StoreRunning
<1>3. ASSUME NEW c \in Callers, Initialize(c) PROVE TypeOK'
  <2>1. started + 1 \in Runs
    BY <1>3, RoomToStart DEF Initialize
  <2>2. started + 1 \in 0..MaxRuns
    BY <2>1
  <2>3. started' \in 0..MaxRuns /\ running' \in BOOLEAN
    BY <1>0, <2>2, <1>3 DEF Initialize
  <2>4. /\ loop' \in [Runs -> {"none", "select", "tick", "leaving", "closing", "gone", "panic"}]
    BY <1>0, <1>3 DEF Initialize
  <2>5. pc' \in [Callers -> RunLabels \cup {"idle", "waiting"}]
    BY <1>0, <1>3 DEF Initialize
  <2>6. failed' \in [Callers -> BOOLEAN]
    BY <1>0, <1>3 DEF Initialize
  <2>7. UNCHANGED <<channels, ticks, made, cancelled, again>>
    BY <1>3 DEF Initialize
  <2>. QED
    BY <1>0, <2>3, <2>4, <2>5, <2>6, <2>7
<1>4. ASSUME NEW c \in Callers, CallStop(c) PROVE TypeOK'
  BY <1>0, <1>4 DEF CallStop
<1>5. ASSUME NEW c \in Callers, Await(c) PROVE TypeOK'
  BY <1>0, <1>5 DEF Await
<1>6. ASSUME NEW r \in Runs, Tick(r) PROVE TypeOK'
  BY <1>0, <1>6 DEF Tick
<1>7. ASSUME NEW r \in Runs, Generated(r) PROVE TypeOK'
  <2>1. CountOn(ticks[r]) \in 0..MaxTicks /\ CountOn(made[r]) \in 0..MaxTicks
    BY <1>0, Counting
  <2>. QED
    BY <1>0, <2>1, <1>7 DEF Generated
<1>8. ASSUME NEW r \in Runs, NotGenerated(r) PROVE TypeOK'
  <2>1. CountOn(ticks[r]) \in 0..MaxTicks /\ CountOn(made[r]) \in 0..MaxTicks
    BY <1>0, Counting
  <2>2. ticks' \in [Runs -> 0..MaxTicks] /\ made' \in [Runs -> 0..MaxTicks]
    BY <1>0, <2>1, <1>8 DEF NotGenerated
  <2>3. loop' \in [Runs -> {"none", "select", "tick", "leaving", "closing", "gone", "panic"}]
    BY <1>0, <1>8 DEF NotGenerated
  <2>. QED
    BY <1>0, <2>2, <2>3, <1>8 DEF NotGenerated
<1>9. ASSUME NEW r \in Runs, Told(r) PROVE TypeOK'
  BY <1>0, <1>9 DEF Told
<1>10. ASSUME NEW r \in Runs, Leave(r) PROVE TypeOK'
  BY <1>0, <1>10 DEF Leave
<1>11. ASSUME NEW r \in Runs, CloseDone(r) PROVE TypeOK'
  BY <1>0, <1>11 DEF CloseDone
<1>12. ASSUME NEW r \in Runs, Cancel(r) PROVE TypeOK'
  BY <1>0, <1>12 DEF Cancel
<1>13. CASE UNCHANGED vars
  BY <1>0, <1>13 DEF vars
<1>. QED
  BY <1>1, <1>2, <1>3, <1>4, <1>5, <1>6, <1>7, <1>8, <1>9, <1>10, <1>11,
     <1>12, <1>13
     DEF Next, CallerStep, LoopStep, Dead

\* CallRun counts the Runs under way, which become goroutines or fail.
LEMMA RoomStep ==
  ASSUME IInv, [Next]_vars
  PROVE  Room'
<1>. USE OperatorAssumption DEF Goto, LoopGoto, Return, In, LoopIn, channels, loops, callers, RunLabels
<1>0. /\ Room /\ pc \in [Callers -> RunLabels \cup {"idle", "waiting"}]
      /\ started \in Nat /\ IsFiniteSet(UnderWay) /\ Cardinality(UnderWay) \in Nat
  BY FS_Subset, FS_CardinalityType DEF IInv, TypeOK, UnderWay
<1>1. ASSUME NEW c \in Callers, CallRun(c) PROVE Room'
  <2>1. CASE running
    <3>1. UnderWay' = UnderWay
      BY <1>0, <2>1, <1>1 DEF CallRun, UnderWay
    <3>. QED
      BY <1>0, <3>1, <1>1 DEF CallRun, Room
  <2>2. CASE ~running
    <3>1. UnderWay' = UnderWay \cup {c} /\ c \notin UnderWay
      BY <1>0, <2>2, <1>1 DEF CallRun, UnderWay
    <3>2. Cardinality(UnderWay') = Cardinality(UnderWay) + 1
      BY <1>0, <3>1, FS_AddElement
    <3>. QED
      BY <1>0, <3>2, <1>1 DEF CallRun, Room
  <2>. QED
    BY <2>1, <2>2
<1>2. ASSUME NEW c \in Callers, StoreRunning(c) PROVE Room'
  <2>1. UnderWay' = UnderWay
    BY <1>0, <1>2 DEF StoreRunning, UnderWay
  <2>. QED
    BY <1>0, <2>1, <1>2 DEF StoreRunning, Room
<1>3. ASSUME NEW c \in Callers, Initialize(c) PROVE Room'
  <2>1. UnderWay' = UnderWay \ {c} /\ c \in UnderWay
    BY <1>0, <1>3 DEF Initialize, UnderWay
  <2>2. Cardinality(UnderWay') = Cardinality(UnderWay) - 1
    BY <1>0, <2>1, FS_RemoveElement
  <2>3. started' \in {started, started + 1}
    BY <1>3 DEF Initialize
  <2>. QED
    BY <1>0, <2>2, <2>3 DEF Room
<1>4. ASSUME NEW c \in Callers, CallStop(c) PROVE Room'
  <2>1. UnderWay' = UnderWay
    BY <1>0, <1>4 DEF CallStop, UnderWay
  <2>. QED
    BY <1>0, <2>1, <1>4 DEF CallStop, Room
<1>5. ASSUME NEW c \in Callers, Await(c) PROVE Room'
  <2>1. UnderWay' = UnderWay
    BY <1>0, <1>5 DEF Await, UnderWay
  <2>. QED
    BY <1>0, <2>1, <1>5 DEF Await, Room
<1>6. ASSUME NEW r \in Runs, Tick(r) PROVE Room'
  <2>1. UnderWay' = UnderWay
    BY <1>0, <1>6 DEF Tick, UnderWay
  <2>. QED
    BY <1>0, <2>1, <1>6 DEF Tick, Room
<1>7. ASSUME NEW r \in Runs, Generated(r) PROVE Room'
  <2>1. UnderWay' = UnderWay
    BY <1>0, <1>7 DEF Generated, UnderWay
  <2>. QED
    BY <1>0, <2>1, <1>7 DEF Generated, Room
<1>8. ASSUME NEW r \in Runs, NotGenerated(r) PROVE Room'
  <2>1. UnderWay' = UnderWay
    BY <1>0, <1>8 DEF NotGenerated, UnderWay
  <2>. QED
    BY <1>0, <2>1, <1>8 DEF NotGenerated, Room
<1>9. ASSUME NEW r \in Runs, Told(r) PROVE Room'
  <2>1. UnderWay' = UnderWay
    BY <1>0, <1>9 DEF Told, UnderWay
  <2>. QED
    BY <1>0, <2>1, <1>9 DEF Told, Room
<1>10. ASSUME NEW r \in Runs, Leave(r) PROVE Room'
  <2>1. UnderWay' = UnderWay
    BY <1>0, <1>10 DEF Leave, UnderWay
  <2>. QED
    BY <1>0, <2>1, <1>10 DEF Leave, Room
<1>11. ASSUME NEW r \in Runs, CloseDone(r) PROVE Room'
  <2>1. UnderWay' = UnderWay
    BY <1>0, <1>11 DEF CloseDone, UnderWay
  <2>. QED
    BY <1>0, <2>1, <1>11 DEF CloseDone, Room
<1>12. ASSUME NEW r \in Runs, Cancel(r) PROVE Room'
  <2>1. UnderWay' = UnderWay
    BY <1>0, <1>12 DEF Cancel, UnderWay
  <2>. QED
    BY <1>0, <2>1, <1>12 DEF Cancel, Room
<1>13. CASE UNCHANGED vars
  BY <1>0, <1>13 DEF vars, UnderWay, Room
<1>. QED
  BY <1>1, <1>2, <1>3, <1>4, <1>5, <1>6, <1>7, <1>8, <1>9, <1>10, <1>11,
     <1>12, <1>13
     DEF Next, CallerStep, LoopStep, Dead

\* Goroutines are started in order and never again.
LEMMA StartedStep ==
  ASSUME IInv, [Next]_vars
  PROVE  StartedOnes'
<1>. USE OperatorAssumption DEF StartedOnes, Runs, Goto, LoopGoto, Return, In, LoopIn, channels, loops, callers, RunLabels
<1>0. /\ StartedOnes /\ started \in Nat
      /\ loop \in [Runs -> {"none", "select", "tick", "leaving", "closing", "gone", "panic"}]
      /\ made \in [Runs -> 0..MaxTicks]
  BY DEF IInv, TypeOK
<1>1. ASSUME NEW c \in Callers, CallRun(c) PROVE StartedOnes'
  BY <1>0, <1>1 DEF CallRun
<1>2. ASSUME NEW c \in Callers, StoreRunning(c) PROVE StartedOnes'
  BY <1>0, <1>2 DEF StoreRunning
<1>3. ASSUME NEW c \in Callers, Initialize(c) PROVE StartedOnes'
  BY <1>0, <1>3 DEF Initialize
<1>4. ASSUME NEW c \in Callers, CallStop(c) PROVE StartedOnes'
  BY <1>0, <1>4 DEF CallStop
<1>5. ASSUME NEW c \in Callers, Await(c) PROVE StartedOnes'
  BY <1>0, <1>5 DEF Await
<1>6. ASSUME NEW r \in Runs, Tick(r) PROVE StartedOnes'
  BY <1>0, <1>6 DEF Tick
<1>7. ASSUME NEW r \in Runs, Generated(r) PROVE StartedOnes'
  BY <1>0, <1>7 DEF Generated
<1>8. ASSUME NEW r \in Runs, NotGenerated(r) PROVE StartedOnes'
  BY <1>0, <1>8 DEF NotGenerated
<1>9. ASSUME NEW r \in Runs, Told(r) PROVE StartedOnes'
  BY <1>0, <1>9 DEF Told
<1>10. ASSUME NEW r \in Runs, Leave(r) PROVE StartedOnes'
  BY <1>0, <1>10 DEF Leave
<1>11. ASSUME NEW r \in Runs, CloseDone(r) PROVE StartedOnes'
  BY <1>0, <1>11 DEF CloseDone
<1>12. ASSUME NEW r \in Runs, Cancel(r) PROVE StartedOnes'
  BY <1>0, <1>12 DEF Cancel
<1>13. CASE UNCHANGED vars
  BY <1>0, <1>13 DEF vars
<1>. QED
  BY <1>1, <1>2, <1>3, <1>4, <1>5, <1>6, <1>7, <1>8, <1>9, <1>10, <1>11,
     <1>12, <1>13
     DEF Next, CallerStep, LoopStep, Dead

\* A tick counts before its block is compared with the limit.
LEMMA BlocksStep ==
  ASSUME IInv, [Next]_vars
  PROVE  RoomForBlocks'
<1>. USE OperatorAssumption DEF RoomForBlocks, AtWork, Runs, Goto, LoopGoto, Return, In, LoopIn, channels, loops, callers, RunLabels
<1>0. /\ RoomForBlocks /\ StartedOnes /\ started \in Nat
      /\ loop \in [Runs -> {"none", "select", "tick", "leaving", "closing", "gone", "panic"}]
      /\ made \in [Runs -> 0..MaxTicks] /\ ticks \in [Runs -> 0..MaxTicks]
  BY DEF IInv, TypeOK
<1>1. ASSUME NEW c \in Callers, CallRun(c) PROVE RoomForBlocks'
  BY <1>0, <1>1 DEF CallRun
<1>2. ASSUME NEW c \in Callers, StoreRunning(c) PROVE RoomForBlocks'
  BY <1>0, <1>2 DEF StoreRunning
<1>3. ASSUME NEW c \in Callers, Initialize(c) PROVE RoomForBlocks'
  <2>1. UNCHANGED <<made, ticks>>
    BY <1>3 DEF Initialize
  <2>2. \A r \in Runs : loop'[r] = loop[r] \/ r = started + 1
    BY <1>0, <1>3 DEF Initialize
  <2>3. \A r \in Runs : r = started + 1 => made[r] = 0
    BY <1>0 DEF StartedOnes
  <2>. QED
    BY <1>0, <2>1, <2>2, <2>3
<1>4. ASSUME NEW c \in Callers, CallStop(c) PROVE RoomForBlocks'
  BY <1>0, <1>4 DEF CallStop
<1>5. ASSUME NEW c \in Callers, Await(c) PROVE RoomForBlocks'
  BY <1>0, <1>5 DEF Await
<1>6. ASSUME NEW r \in Runs, Tick(r) PROVE RoomForBlocks'
  BY <1>0, <1>6 DEF Tick
<1>7. ASSUME NEW r \in Runs, Generated(r) PROVE RoomForBlocks'
  <2>1. /\ made' = [made EXCEPT ![r] = CountOn(made[r])]
        /\ ticks' = [ticks EXCEPT ![r] = CountOn(ticks[r])]
        /\ loop[r] = "tick"
    BY <1>7 DEF Generated
  <2>2. \A q \in Runs : q # r => UNCHANGED <<made[q], ticks[q], loop[q]>>
    BY <1>0, <1>7 DEF Generated
  <2>3. made'[r] = CountOn(made[r]) /\ ticks'[r] = CountOn(ticks[r])
    BY <1>0, <2>1
  <2>4. CountOn(made[r]) <= CountOn(ticks[r])
    BY <1>0, Counting
  <2>5. Ticks > 0 => CountOn(made[r]) = made[r] + 1 /\ made[r] + 1 <= Ticks
    <3>1. AtWork(r)
      BY <2>1
    <3>2. Ticks > 0 => made[r] < Ticks
      BY <1>0, <3>1
    <3>3. made[r] < MaxTicks => CountOn(made[r]) = made[r] + 1
      BY <1>0, Counting
    <3>4. made[r] \in 0..MaxTicks /\ Ticks \in Nat /\ MaxTicks \in Nat /\ Ticks < MaxTicks
      BY <1>0
    <3>. QED
      BY <3>2, <3>3, <3>4
  <2>6. Ticks > 0 /\ AtWork(r)' => made[r] + 1 < Ticks
    <3>1. loop'[r] = IF TicksReached(ticks'[r]) THEN "leaving" ELSE "select"
      BY <1>0, <1>7 DEF Generated
    <3>2. CountOn(ticks[r]) \in 0..MaxTicks
      BY <1>0, Counting
    <3>. QED
      BY <3>1, <3>2, <2>3, <2>4, <2>5, <1>0 DEF TicksReached
  <2>. QED
    BY <1>0, <2>2, <2>3, <2>4, <2>5, <2>6
<1>8. ASSUME NEW r \in Runs, NotGenerated(r) PROVE RoomForBlocks'
  <2>1. /\ made' = made \/ made' = [made EXCEPT ![r] = CountOn(made[r])]
        /\ ticks' = [ticks EXCEPT ![r] = CountOn(ticks[r])]
        /\ loop[r] = "tick"
        /\ made' = made \/ loop' = [loop EXCEPT ![r] = "leaving"]
    BY <1>8 DEF NotGenerated
  <2>2. \A q \in Runs : q # r => UNCHANGED <<made[q], ticks[q], loop[q]>>
    BY <1>0, <1>8 DEF NotGenerated
  <2>3. /\ made'[r] = made[r] \/ (made'[r] = CountOn(made[r]) /\ loop'[r] = "leaving")
        /\ ticks'[r] = CountOn(ticks[r])
    BY <1>0, <2>1
  <2>4. CountOn(made[r]) <= CountOn(ticks[r]) /\ made[r] <= CountOn(ticks[r])
    BY <1>0, Counting
  <2>5. Ticks > 0 => made[r] < Ticks /\ CountOn(made[r]) = made[r] + 1 /\ made[r] + 1 <= Ticks
    <3>1. AtWork(r)
      BY <2>1
    <3>2. Ticks > 0 => made[r] < Ticks
      BY <1>0, <3>1
    <3>3. made[r] < MaxTicks => CountOn(made[r]) = made[r] + 1
      BY <1>0, Counting
    <3>4. made[r] \in 0..MaxTicks /\ Ticks \in Nat /\ MaxTicks \in Nat /\ Ticks < MaxTicks
      BY <1>0
    <3>. QED
      BY <3>2, <3>3, <3>4
  <2>. QED
    BY <1>0, <2>2, <2>3, <2>4, <2>5
<1>9. ASSUME NEW r \in Runs, Told(r) PROVE RoomForBlocks'
  BY <1>0, <1>9 DEF Told
<1>10. ASSUME NEW r \in Runs, Leave(r) PROVE RoomForBlocks'
  BY <1>0, <1>10 DEF Leave
<1>11. ASSUME NEW r \in Runs, CloseDone(r) PROVE RoomForBlocks'
  BY <1>0, <1>11 DEF CloseDone
<1>12. ASSUME NEW r \in Runs, Cancel(r) PROVE RoomForBlocks'
  BY <1>0, <1>12 DEF Cancel
<1>13. CASE UNCHANGED vars
  BY <1>0, <1>13 DEF vars
<1>. QED
  BY <1>1, <1>2, <1>3, <1>4, <1>5, <1>6, <1>7, <1>8, <1>9, <1>10, <1>11,
     <1>12, <1>13
     DEF Next, CallerStep, LoopStep, Dead

\* The history is never unmade.
LEMMA AgainStays ==
  ASSUME [Next]_vars, again
  PROVE  again'
BY DEF Next, CallerStep, LoopStep, Dead, CallRun, StoreRunning, Initialize, CallStop, Await,
       Tick, Generated, NotGenerated, Told, Leave, CloseDone, Cancel, vars

\* As long as Runs neither overlap nor follow a success, only the first
\* goroutine may exist.
LEMMA OnlyTheFirst ==
  ASSUME IInv, ~again
  PROVE  /\ 1 \in Runs /\ started \in {0, 1}
         /\ started = 0 => loop[1] = "none"
         /\ \A r \in Runs : r # 1 => loop[r] = "none"
<1>1. started \in Nat /\ started <= 1 /\ 1 \in Runs
  BY OperatorAssumption DEF IInv, TypeOK, OneRun, Runs
<1>2. \A r \in Runs : r # 1 => 1 < r
  BY OperatorAssumption DEF Runs
<1>. QED
  BY <1>1, <1>2, OperatorAssumption DEF IInv, StartedOnes, Runs

\* Run and its one goroutine do not overlap with another.
LEMMA OneRunStep ==
  ASSUME IInv, [Next]_vars, ~again'
  PROVE  OneRun'
<1>. USE OperatorAssumption DEF OneRun, Goto, LoopGoto, Return, In, LoopIn, channels, loops, callers, RunLabels
<1>14. ~again
  BY AgainStays
<1>0. /\ OneRun /\ ~again /\ started \in {0, 1} /\ running \in BOOLEAN /\ again \in BOOLEAN
      /\ doneClosed \in BOOLEAN /\ pc \in [Callers -> RunLabels \cup {"idle", "waiting"}]
      /\ loop \in [Runs -> {"none", "select", "tick", "leaving", "closing", "gone", "panic"}]
      /\ 1 \in Runs /\ (started = 0 => loop[1] = "none")
      /\ \A r \in Runs : r # 1 => loop[r] = "none"
  BY <1>14, OnlyTheFirst DEF IInv, TypeOK
<1>1. ASSUME NEW c \in Callers, CallRun(c) PROVE OneRun'
  <2>1. CASE running
    BY <1>0, <2>1, <1>1 DEF CallRun
  <2>2. CASE ~running
    <3>1. IsFiniteSet(UnderWay) /\ Cardinality(UnderWay) \in Nat
      BY FS_Subset, FS_CardinalityType DEF UnderWay
    <3>2. ~(started + Cardinality(UnderWay) > 0)
      BY <2>2, <1>1 DEF CallRun
    <3>3. started = 0 /\ Cardinality(UnderWay) = 0
      BY <1>0, <3>1, <3>2
    <3>4. \A d \in Callers : pc[d] \notin RunLabels
      BY <3>1, <3>3, FS_EmptySet DEF UnderWay
    <3>5. pc' = [pc EXCEPT ![c] = "store"] /\ UNCHANGED <<running, channels, loops>>
      BY <2>2, <1>1 DEF CallRun
    <3>6. /\ \A d \in Callers : pc'[d] \in RunLabels => d = c
          /\ \A d \in Callers : pc'[d] # "init"
      BY <1>0, <3>4, <3>5
    <3>7. ~running /\ loop[1] = "none"
      BY <1>0, <2>2, <3>3
    <3>. QED
      BY <1>0, <3>3, <3>5, <3>6, <3>7
  <2>. QED
    BY <2>1, <2>2
<1>2. ASSUME NEW c \in Callers, StoreRunning(c) PROVE OneRun'
  BY <1>0, <1>2 DEF StoreRunning
<1>3. ASSUME NEW c \in Callers, Initialize(c) PROVE OneRun'
  <2>1. started = 0 /\ loop[1] = "none" /\ pc[c] = "init" /\ running = TRUE
    <3>1. pc[c] = "init"
      BY <1>3 DEF Initialize
    <3>. QED
      BY <1>0, <3>1
  <2>2. pc' = [pc EXCEPT ![c] = "idle"] /\ UNCHANGED channels
    BY <1>3 DEF Initialize
  <2>3. \A d \in Callers : pc'[d] \notin RunLabels
    BY <1>0, <2>1, <2>2
  <2>4. \/ running' = TRUE /\ loop'[1] = "select"
        \/ running' = FALSE /\ loop'[1] = "none"
    <3>1. CASE UNCHANGED loop /\ running' = FALSE
      BY <2>1, <3>1
    <3>2. CASE loop' = [loop EXCEPT ![started + 1] = "select"] /\ UNCHANGED running
      <4>1. 1 \in Runs /\ started + 1 = 1
        BY <1>0, <2>1
      <4>2. loop'[1] = "select"
        BY <1>0, <3>2, <4>1
      <4>. QED
        BY <2>1, <3>2, <4>2
    <3>. QED
      BY <3>1, <3>2, <1>3 DEF Initialize
  <2>5. started' \in {0, 1}
    <3>1. started' \in {started, started + 1}
      BY <1>3 DEF Initialize
    <3>. QED
      BY <2>1, <3>1
  <2>. QED
    BY <1>0, <2>1, <2>2, <2>3, <2>4, <2>5
<1>4. ASSUME NEW c \in Callers, CallStop(c) PROVE OneRun'
  BY <1>0, <1>4 DEF CallStop
<1>5. ASSUME NEW c \in Callers, Await(c) PROVE OneRun'
  BY <1>0, <1>5 DEF Await
<1>6. ASSUME NEW r \in Runs, Tick(r) PROVE OneRun'
  BY <1>0, <1>6 DEF Tick
<1>7. ASSUME NEW r \in Runs, Generated(r) PROVE OneRun'
  BY <1>0, <1>7 DEF Generated
<1>8. ASSUME NEW r \in Runs, NotGenerated(r) PROVE OneRun'
  BY <1>0, <1>8 DEF NotGenerated
<1>9. ASSUME NEW r \in Runs, Told(r) PROVE OneRun'
  BY <1>0, <1>9 DEF Told
<1>10. ASSUME NEW r \in Runs, Leave(r) PROVE OneRun'
  <2>1. r = 1 /\ loop[1] = "leaving" /\ started = 1
    <3>1. loop[r] = "leaving"
      BY <1>10 DEF Leave
    <3>. QED
      BY <1>0, <3>1
  <2>2. \A d \in Callers : pc[d] \notin RunLabels
    BY <1>0, <2>1
  <2>3. loop'[1] = "closing" /\ running' = FALSE /\ UNCHANGED <<channels, pc, started>>
    BY <1>0, <2>1, <1>10 DEF Leave
  <2>. QED
    BY <1>0, <2>1, <2>2, <2>3
<1>11. ASSUME NEW r \in Runs, CloseDone(r) PROVE OneRun'
  BY <1>0, <1>11 DEF CloseDone
<1>12. ASSUME NEW r \in Runs, Cancel(r) PROVE OneRun'
  BY <1>0, <1>12 DEF Cancel
<1>13. CASE UNCHANGED vars
  BY <1>0, <1>13 DEF vars
<1>. QED
  BY <1>1, <1>2, <1>3, <1>4, <1>5, <1>6, <1>7, <1>8, <1>9, <1>10, <1>11,
     <1>12, <1>13
     DEF Next, CallerStep, LoopStep, Dead

--------------------------------------------------------------------------------

LEMMA InitIInv == Init => IInv
<1>. SUFFICES ASSUME Init PROVE IInv
  OBVIOUS
<1>. USE OperatorAssumption
<1>1. TypeOK
  <2>1. /\ loop \in [Runs -> {"none", "select", "tick", "leaving", "closing", "gone", "panic"}]
        /\ pc \in [Callers -> RunLabels \cup {"idle", "waiting"}]
        /\ failed \in [Callers -> BOOLEAN]
    BY DEF Init
  <2>2. ticks \in [Runs -> 0..MaxTicks] /\ made \in [Runs -> 0..MaxTicks] /\ started \in 0..MaxRuns
    BY DEF Init
  <2>. QED
    BY <2>1, <2>2 DEF Init, TypeOK
<1>2. Room
  <2>1. UnderWay = {}
    BY DEF Init, UnderWay, RunLabels
  <2>. QED
    BY <2>1, FS_EmptySet DEF Init, Room
<1>3. StartedOnes /\ RoomForBlocks
  BY DEF Init, StartedOnes, RoomForBlocks, AtWork, Runs
<1>4. OneRun
  <2>1. loop[1] = "none" /\ started = 0
    BY DEF Init, Runs
  <2>. QED
    BY <2>1 DEF Init, OneRun, RunLabels
<1>. QED
  BY <1>1, <1>2, <1>3, <1>4 DEF IInv

\* The inductive invariant holds in every reachable state.
THEOREM Invariant == Spec => []IInv
<1>1. Init => IInv
  BY InitIInv
<1>2. IInv /\ [Next]_vars => IInv'
  <2>. SUFFICES ASSUME IInv, [Next]_vars PROVE IInv'
    OBVIOUS
  <2>1. OneRun'
    BY OneRunStep DEF OneRun
  <2>. QED
    BY <2>1, TypeStep, RoomStep, StartedStep, BlocksStep DEF IInv
<1>. QED
  BY <1>1, <1>2, PTL DEF Spec

\* Every field keeps its type, whoever calls what.
THEOREM TypeCorrect == Spec => []TypeOK
<1>1. IInv => TypeOK
  BY DEF IInv
<1>. QED
  BY <1>1, Invariant, PTL

\* Ticks bounds the blocks of every goroutine, whatever fails.
THEOREM BlocksBounded == Spec => []BlocksWithinTicks
<1>1. IInv => BlocksWithinTicks
  BY DEF IInv, RoomForBlocks, BlocksWithinTicks
<1>. QED
  BY <1>1, Invariant, PTL

\* IsRunning tells the truth about an operator that is run once.
THEOREM RunningTruthful == Spec => []RunningIsTruthful
<1>1. IInv => RunningIsTruthful
  <2>. SUFFICES ASSUME IInv, ~again PROVE RunningIsTruthful
    BY DEF RunningIsTruthful
  <2>. QED
    BY OnlyTheFirst DEF IInv, TypeOK, OneRun, RunningIsTruthful
<1>. QED
  BY <1>1, Invariant, PTL

\* A Stop that succeeds leaves no goroutine, for an operator that is run once.
THEOREM StopIsFinal == Spec => StopWaitsOnce
<1>. DEFINE Step1 == ~again => StoppedStep
<1>1. IInv /\ [Next]_vars => [Step1]_vars
  <2>. SUFFICES ASSUME IInv, Next, ~again, NEW c \in Callers,
                       pc[c] = "waiting", pc'[c] = "idle", ~failed'[c]
                PROVE  ~running /\ \A r \in Runs : loop[r] \in {"none", "gone"}
    BY DEF StoppedStep
  <2>1. PICK d \in Callers : CallRun(d) \/ StoreRunning(d) \/ Initialize(d) \/ CallStop(d) \/ Await(d)
    <3>1. ASSUME NEW r \in Runs, LoopStep(r) \/ Cancel(r) PROVE UNCHANGED pc
      BY <3>1 DEF LoopStep, Tick, Generated, NotGenerated, Told, Leave, CloseDone, Cancel, callers
    <3>. QED
      BY <3>1 DEF Next, CallerStep, Dead, vars
  <2>2. d = c
    BY <2>1 DEF CallRun, StoreRunning, Initialize, CallStop, Await, Goto, Return, IInv, TypeOK
  <2>3. Await(c)
    BY <2>1, <2>2 DEF CallRun, StoreRunning, Initialize, CallStop, In
  <2>4. doneClosed = TRUE
    <3>1. failed \in [Callers -> BOOLEAN]
      BY DEF IInv, TypeOK
    <3>. QED
      BY <2>3, <3>1 DEF Await, Return, Goto, IInv, TypeOK
  <2>5. loop[1] = "gone"
    BY <2>4 DEF IInv, OneRun
  <2>6. \A d1 \in Callers : pc[d1] \notin RunLabels
    BY <2>5, OnlyTheFirst DEF IInv, OneRun
  <2>. QED
    BY <2>5, <2>6, OnlyTheFirst DEF IInv, TypeOK, OneRun, RunLabels
<1>. QED
  BY <1>1, Invariant, PTL DEF Spec, StopWaitsOnce

--------------------------------------------------------------------------------
(***************************************************************************)
(* What the return of a Stop without a deadline rests on, for any number   *)
(* of Runs.                                                                *)
(***************************************************************************)

\* Whoever waits in Stop has closed stopCh; doneCh is closed by one goroutine,
\* which is gone.
Signalled ==
  /\ \A c \in Callers : pc[c] = "waiting" => stopClosed = TRUE
  /\ doneClosed = TRUE <=> \E r \in Runs : loop[r] = "gone"
  /\ \A r, s \in Runs : loop[r] = "gone" /\ loop[s] = "gone" => r = s

LEMMA SignalledStep ==
  ASSUME IInv, Signalled, [Next]_vars
  PROVE  Signalled'
<1>. USE DEF Signalled, Goto, LoopGoto, Return, In, LoopIn, channels, loops, callers, RunLabels
<1>0. /\ Signalled /\ stopClosed \in BOOLEAN /\ doneClosed \in BOOLEAN
      /\ pc \in [Callers -> RunLabels \cup {"idle", "waiting"}]
      /\ loop \in [Runs -> {"none", "select", "tick", "leaving", "closing", "gone", "panic"}]
  BY DEF IInv, TypeOK
<1>1. ASSUME NEW c \in Callers, CallRun(c) PROVE Signalled'
  BY <1>0, <1>1 DEF CallRun
<1>2. ASSUME NEW c \in Callers, StoreRunning(c) PROVE Signalled'
  BY <1>0, <1>2 DEF StoreRunning
<1>3. ASSUME NEW c \in Callers, Initialize(c) PROVE Signalled'
  <2>1. started + 1 \in Runs /\ loop[started + 1] = "none"
    <3>1. started + 1 \in Runs
      BY <1>3, RoomToStart DEF Initialize
    <3>. QED
      BY <3>1, OperatorAssumption DEF IInv, TypeOK, StartedOnes, Runs
  <2>2. \A r \in Runs : loop'[r] = "gone" <=> loop[r] = "gone"
    BY <1>0, <1>3, <2>1 DEF Initialize
  <2>3. \A d \in Callers : pc'[d] = "waiting" => pc[d] = "waiting"
    BY <1>0, <1>3 DEF Initialize
  <2>4. UNCHANGED channels
    BY <1>3 DEF Initialize
  <2>. QED
    BY <1>0, <2>2, <2>3, <2>4
<1>4. ASSUME NEW c \in Callers, CallStop(c) PROVE Signalled'
  BY <1>0, <1>4 DEF CallStop
<1>5. ASSUME NEW c \in Callers, Await(c) PROVE Signalled'
  BY <1>0, <1>5 DEF Await
<1>6. ASSUME NEW r \in Runs, Tick(r) PROVE Signalled'
  BY <1>0, <1>6 DEF Tick
<1>7. ASSUME NEW r \in Runs, Generated(r) PROVE Signalled'
  BY <1>0, <1>7 DEF Generated
<1>8. ASSUME NEW r \in Runs, NotGenerated(r) PROVE Signalled'
  BY <1>0, <1>8 DEF NotGenerated
<1>9. ASSUME NEW r \in Runs, Told(r) PROVE Signalled'
  BY <1>0, <1>9 DEF Told
<1>10. ASSUME NEW r \in Runs, Leave(r) PROVE Signalled'
  BY <1>0, <1>10 DEF Leave
<1>11. ASSUME NEW r \in Runs, CloseDone(r) PROVE Signalled'
  BY <1>0, <1>11 DEF CloseDone
<1>12. ASSUME NEW r \in Runs, Cancel(r) PROVE Signalled'
  BY <1>0, <1>12 DEF Cancel
<1>13. CASE UNCHANGED vars
  BY <1>0, <1>13 DEF vars
<1>. QED
  BY <1>1, <1>2, <1>3, <1>4, <1>5, <1>6, <1>7, <1>8, <1>9, <1>10, <1>11,
     <1>12, <1>13
     DEF Next, CallerStep, LoopStep, Dead

\* A Stop waits for goroutines that can hear it: stopCh is closed, and as long as
\* doneCh is not, every goroutine that was ever started is still on its way to
\* closing it, unless the process has ended.  So Stop can only wait in vain for an
\* operator that never started one.
StopHeard ==
  /\ \A c \in Callers : pc[c] = "waiting" => stopClosed
  /\ Alive /\ ~doneClosed =>
       \A r \in Runs : r <= started => loop[r] \in {"select", "tick", "leaving", "closing"}

\* What Stop waits for has been told, however often the operator was run.
THEOREM StopIsHeard == Spec => []StopHeard
<1>1. Init => Signalled
  BY DEF Init, Signalled
<1>2. IInv /\ Signalled /\ [Next]_vars => Signalled'
  BY SignalledStep
<1>3. ASSUME IInv, Signalled PROVE StopHeard
  <2>1. \A c \in Callers : pc[c] = "waiting" => stopClosed
    BY <1>3 DEF Signalled
  <2>2. ASSUME Alive, ~doneClosed, NEW r \in Runs, r <= started
        PROVE  loop[r] \in {"select", "tick", "leaving", "closing"}
    <3>1. loop[r] # "none"
      BY <1>3, <2>2, OperatorAssumption DEF IInv, TypeOK, StartedOnes, Runs
    <3>2. loop[r] # "gone" /\ loop[r] # "panic"
      BY <1>3, <2>2 DEF Signalled, Alive
    <3>. QED
      BY <1>3, <3>1, <3>2 DEF IInv, TypeOK
  <2>. QED
    BY <2>1, <2>2 DEF StopHeard
<1>. QED
  BY <1>1, <1>2, <1>3, Invariant, PTL DEF Spec

\* Closing doneCh twice, which panics, takes a second Run.
THEOREM OneRunLives == Spec => [](~again => Alive)
<1>1. ASSUME IInv, ~again PROVE Alive
  <2>1. \A r \in Runs : r # 1 => loop[r] = "none"
    BY <1>1, OnlyTheFirst
  <2>2. loop[1] # "panic"
    BY <1>1 DEF IInv, OneRun
  <2>. QED
    BY <2>1, <2>2 DEF Alive
<1>. QED
  BY <1>1, Invariant, PTL

================================================================================
