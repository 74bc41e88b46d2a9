------------------------- MODULE ServerLifecycleProofs -------------------------
(***************************************************************************)
(* Proofs about ServerLifecycle, for any number of callers and every       *)
(* environment.                                                            *)
(*                                                                         *)
(* The inductive invariant says who may be changing the life of the        *)
(* server, at most one caller, and what the fields are at each place of    *)
(* that caller's Run or Stop and when there is none.                       *)
(***************************************************************************)
EXTENDS ServerLifecycle, TLAPS

\* The places from which a caller changes what the others rely on.
Active == StartLabels \cup StopLabels

\* Run and Stop exclude each other and themselves once they are past their
\* tests: geth starts a node once, and running is compared and swapped.
Exclusive ==
  \A c, d \in Callers : pc[c] \in Active /\ pc[d] \in Active => c = d

\* s.stateDBMu.
StoreMutex ==
  \A c \in Callers :
    dbMu = c <=> pc[c] \in {"store close", "store nil", "kv check", "kv"}

NoLoop == \A c \in Callers : loop[c] = "none"

\* All is open, and a main loop was spawned or not.
Prepared == node = "started" /\ store = "open" /\ beacon = TRUE
Ready    == Prepared /\ ~NoLoop

\* The fields at each place of Run and Stop.
Place(c) ==
  /\ pc[c] \in Active => running = FALSE
  /\ pc[c] \in {"init lock", "init", "spawn"} => Prepared /\ NoLoop
  /\ pc[c] = "serve" => Prepared /\ cancelFunc = c /\ loop[c] # "none"
  /\ pc[c] \in {"cancel", "wait"} => Ready
  /\ pc[c] \in {"store lock", "store close"} => Ready /\ LoopsGone
  /\ pc[c] = "store nil" =>
       node = "started" /\ store = "closed" /\ beacon = TRUE /\ LoopsGone /\ ~NoLoop
  /\ pc[c] = "beacon stop" =>
       node = "started" /\ store = "nil" /\ beacon = TRUE /\ LoopsGone /\ ~NoLoop
  /\ pc[c] = "node close" =>
       node = "started" /\ store = "nil" /\ beacon = FALSE /\ LoopsGone /\ ~NoLoop
  /\ pc[c] = "node nil" =>
       node = "closed" /\ store = "nil" /\ beacon = FALSE /\ LoopsGone /\ ~NoLoop

Places == \A c \in Callers : Place(c)

\* The fields when no caller is changing them.
Rest ==
  (\A c \in Callers : pc[c] \notin Active) =>
    \/ node \in {"new", "closed"} /\ running = FALSE /\ store = "open" /\ beacon = TRUE /\ NoLoop
    \/ Prepared /\ (running = TRUE => cancelFunc # NoCaller /\ ~NoLoop)
    \/ node = "nil" /\ running = FALSE /\ store = "nil" /\ beacon = FALSE /\ LoopsGone /\ ~NoLoop

IInv ==
  /\ TypeOK
  /\ Exclusive
  /\ StoreMutex
  /\ Places
  /\ Rest
  /\ StoreUsedOpen

--------------------------------------------------------------------------------

\* Every action keeps the state well typed.
LEMMA TypeStep ==
  ASSUME IInv, [Next]_vars
  PROVE  TypeOK'
<1>. USE CallerAssumption DEF TypeOK, Goto, Return, In, LoopIn, MayFail, server, locks, StartLabels,
         StopLabels, UseLabels, UserLabels
<1>0. TypeOK
  BY DEF IInv
<1>1. ASSUME NEW c \in Callers, CallRun(c) PROVE TypeOK'
  BY <1>0, <1>1 DEF CallRun
<1>2. ASSUME NEW c \in Callers, CallStop(c) PROVE TypeOK'
  BY <1>0, <1>2 DEF CallStop
<1>3. ASSUME NEW c \in Callers, CallGenerateBlocks(c) PROVE TypeOK'
  BY <1>0, <1>3 DEF CallGenerateBlocks
<1>4. ASSUME NEW c \in Callers, NEW label \in UserLabels, CallUser(c, label)
      PROVE TypeOK'
  BY <1>0, <1>4 DEF CallUser
<1>5. ASSUME NEW c \in Callers, InitLock(c) PROVE TypeOK'
  BY <1>0, <1>5 DEF InitLock
<1>6. ASSUME NEW c \in Callers, LockStore(c) PROVE TypeOK'
  BY <1>0, <1>6 DEF LockStore
<1>7. ASSUME NEW c \in Callers, LockChain(c) PROVE TypeOK'
  BY <1>0, <1>7 DEF LockChain
<1>8. ASSUME NEW c \in Callers, LockKV(c) PROVE TypeOK'
  BY <1>0, <1>8 DEF LockKV
<1>9. ASSUME NEW c \in Callers, StartNode(c) PROVE TypeOK'
  BY <1>0, <1>9 DEF StartNode
<1>10. ASSUME NEW c \in Callers, InitChain(c) PROVE TypeOK'
  BY <1>0, <1>10 DEF InitChain
<1>11. ASSUME NEW c \in Callers, SpawnLoop(c) PROVE TypeOK'
  BY <1>0, <1>11 DEF SpawnLoop
<1>12. ASSUME NEW c \in Callers, Serve(c) PROVE TypeOK'
  BY <1>0, <1>12 DEF Serve
<1>13. ASSUME NEW c \in Callers, CancelLoop(c) PROVE TypeOK'
  BY <1>0, <1>13 DEF CancelLoop
<1>14. ASSUME NEW c \in Callers, WaitLoop(c) PROVE TypeOK'
  BY <1>0, <1>14 DEF WaitLoop
<1>15. ASSUME NEW c \in Callers, CloseStore(c) PROVE TypeOK'
  BY <1>0, <1>15 DEF CloseStore
<1>16. ASSUME NEW c \in Callers, UnlockStore(c) PROVE TypeOK'
  BY <1>0, <1>16 DEF UnlockStore
<1>17. ASSUME NEW c \in Callers, StopBeacon(c) PROVE TypeOK'
  BY <1>0, <1>17 DEF StopBeacon
<1>18. ASSUME NEW c \in Callers, CloseNode(c) PROVE TypeOK'
  BY <1>0, <1>18 DEF CloseNode
<1>19. ASSUME NEW c \in Callers, EndStop(c) PROVE TypeOK'
  BY <1>0, <1>19 DEF EndStop
<1>20. ASSUME NEW c \in Callers, UseChain(c) PROVE TypeOK'
  BY <1>0, <1>20 DEF UseChain
<1>21. ASSUME NEW c \in Callers, CheckKV(c) PROVE TypeOK'
  BY <1>0, <1>21 DEF CheckKV
<1>22. ASSUME NEW c \in Callers, UseKV(c) PROVE TypeOK'
  BY <1>0, <1>22 DEF UseKV
<1>23. ASSUME NEW c \in Callers, CheckEndpoint(c) PROVE TypeOK'
  BY <1>0, <1>23 DEF CheckEndpoint
<1>24. ASSUME NEW c \in Callers, UseEndpoint(c) PROVE TypeOK'
  BY <1>0, <1>24 DEF UseEndpoint
<1>25. ASSUME NEW c \in Callers, LoopTick(c) PROVE TypeOK'
  BY <1>0, <1>25 DEF LoopTick
<1>26. ASSUME NEW c \in Callers, LoopLock(c) PROVE TypeOK'
  BY <1>0, <1>26 DEF LoopLock
<1>27. ASSUME NEW c \in Callers, LoopUnlock(c) PROVE TypeOK'
  BY <1>0, <1>27 DEF LoopUnlock
<1>28. ASSUME NEW c \in Callers, LoopReturn(c) PROVE TypeOK'
  BY <1>0, <1>28 DEF LoopReturn
<1>29. ASSUME NEW c \in Callers, Cancel(c) PROVE TypeOK'
  BY <1>0, <1>29 DEF Cancel
<1>30. CASE UNCHANGED vars
  BY <1>0, <1>30 DEF vars
<1>. QED
  BY <1>1, <1>2, <1>3, <1>4, <1>5, <1>6, <1>7, <1>8, <1>9, <1>10, <1>11,
     <1>12, <1>13, <1>14, <1>15, <1>16, <1>17, <1>18, <1>19, <1>20, <1>21,
     <1>22, <1>23, <1>24, <1>25, <1>26, <1>27, <1>28, <1>29, <1>30
     DEF Next, Call, Acquire, Step, LoopStep, Dead

\* While the server runs, or before it starts, nobody is inside Run or Stop.
LEMMA Quiet ==
  ASSUME IInv, running = TRUE \/ node = "new"
  PROVE  \A c \in Callers : pc[c] \notin Active
<1>. TAKE c \in Callers
<1>1. Place(c)
  BY DEF IInv, Places
<1>. QED
  BY <1>1 DEF Place, Prepared, Ready, Active, StartLabels, StopLabels

\* A running server is complete.
LEMMA Settled ==
  ASSUME IInv, running = TRUE
  PROVE  Ready /\ cancelFunc # NoCaller
<1>1. \A c \in Callers : pc[c] \notin Active
  BY Quiet
<1>. QED
  BY <1>1 DEF IInv, Rest, Ready

\* A second caller gets into Run or Stop only when the first is out.
LEMMA ExclusiveStep ==
  ASSUME IInv, [Next]_vars
  PROVE  Exclusive'
<1>. USE DEF Exclusive, Goto, Return, In, LoopIn, server, locks, Active,
         StartLabels, StopLabels, UserLabels
<1>0. /\ Exclusive
      /\ pc \in [Callers -> {"idle", "panic"} \cup StartLabels \cup StopLabels \cup UseLabels]
      /\ running = TRUE \/ node = "new" => \A c \in Callers : pc[c] \notin Active
  BY Quiet DEF IInv, TypeOK
<1>1. ASSUME NEW c \in Callers, CallRun(c) PROVE Exclusive'
  <2>1. PICK l \in {"idle", "start"} : pc' = [pc EXCEPT ![c] = l]
    BY <1>1 DEF CallRun
  <2>. QED
    BY <1>0, <2>1
<1>2. ASSUME NEW c \in Callers, CallStop(c) PROVE Exclusive'
  BY <1>0, <1>2 DEF CallStop
<1>3. ASSUME NEW c \in Callers, CallGenerateBlocks(c) PROVE Exclusive'
  BY <1>0, <1>3 DEF CallGenerateBlocks
<1>4. ASSUME NEW c \in Callers, NEW label \in UserLabels, CallUser(c, label)
      PROVE Exclusive'
  BY <1>0, <1>4 DEF CallUser
<1>5. ASSUME NEW c \in Callers, InitLock(c) PROVE Exclusive'
  BY <1>0, <1>5 DEF InitLock
<1>6. ASSUME NEW c \in Callers, LockStore(c) PROVE Exclusive'
  BY <1>0, <1>6 DEF LockStore
<1>7. ASSUME NEW c \in Callers, LockChain(c) PROVE Exclusive'
  BY <1>0, <1>7 DEF LockChain
<1>8. ASSUME NEW c \in Callers, LockKV(c) PROVE Exclusive'
  BY <1>0, <1>8 DEF LockKV
<1>9. ASSUME NEW c \in Callers, StartNode(c) PROVE Exclusive'
  <2>1. CASE node = "new"
    <3>1. PICK l \in {"spawn", "init lock", "idle"} : pc' = [pc EXCEPT ![c] = l]
      BY <1>9, <2>1 DEF StartNode
    <3>2. \A d \in Callers : pc[d] \notin Active
      BY <1>0, <2>1
    <3>. QED
      BY <1>0, <3>1, <3>2
  <2>2. CASE node # "new"
    <3>1. PICK l \in {"idle", "panic"} : pc' = [pc EXCEPT ![c] = l]
      BY <1>9, <2>2 DEF StartNode
    <3>. QED
      BY <1>0, <3>1
  <2>. QED
    BY <2>1, <2>2
<1>10. ASSUME NEW c \in Callers, InitChain(c) PROVE Exclusive'
  BY <1>0, <1>10 DEF InitChain
<1>11. ASSUME NEW c \in Callers, SpawnLoop(c) PROVE Exclusive'
  BY <1>0, <1>11 DEF SpawnLoop
<1>12. ASSUME NEW c \in Callers, Serve(c) PROVE Exclusive'
  BY <1>0, <1>12 DEF Serve
<1>13. ASSUME NEW c \in Callers, CancelLoop(c) PROVE Exclusive'
  BY <1>0, <1>13 DEF CancelLoop
<1>14. ASSUME NEW c \in Callers, WaitLoop(c) PROVE Exclusive'
  BY <1>0, <1>14 DEF WaitLoop
<1>15. ASSUME NEW c \in Callers, CloseStore(c) PROVE Exclusive'
  BY <1>0, <1>15 DEF CloseStore
<1>16. ASSUME NEW c \in Callers, UnlockStore(c) PROVE Exclusive'
  BY <1>0, <1>16 DEF UnlockStore
<1>17. ASSUME NEW c \in Callers, StopBeacon(c) PROVE Exclusive'
  BY <1>0, <1>17 DEF StopBeacon
<1>18. ASSUME NEW c \in Callers, CloseNode(c) PROVE Exclusive'
  BY <1>0, <1>18 DEF CloseNode
<1>19. ASSUME NEW c \in Callers, EndStop(c) PROVE Exclusive'
  BY <1>0, <1>19 DEF EndStop
<1>20. ASSUME NEW c \in Callers, UseChain(c) PROVE Exclusive'
  BY <1>0, <1>20 DEF UseChain
<1>21. ASSUME NEW c \in Callers, CheckKV(c) PROVE Exclusive'
  <2>1. PICK l \in {"idle", "kv"} : pc' = [pc EXCEPT ![c] = l]
    BY <1>21 DEF CheckKV
  <2>. QED
    BY <1>0, <2>1
<1>22. ASSUME NEW c \in Callers, UseKV(c) PROVE Exclusive'
  BY <1>0, <1>22 DEF UseKV
<1>23. ASSUME NEW c \in Callers, CheckEndpoint(c) PROVE Exclusive'
  BY <1>0, <1>23 DEF CheckEndpoint
<1>24. ASSUME NEW c \in Callers, UseEndpoint(c) PROVE Exclusive'
  BY <1>0, <1>24 DEF UseEndpoint
<1>25. ASSUME NEW c \in Callers, LoopTick(c) PROVE Exclusive'
  BY <1>0, <1>25 DEF LoopTick
<1>26. ASSUME NEW c \in Callers, LoopLock(c) PROVE Exclusive'
  BY <1>0, <1>26 DEF LoopLock
<1>27. ASSUME NEW c \in Callers, LoopUnlock(c) PROVE Exclusive'
  BY <1>0, <1>27 DEF LoopUnlock
<1>28. ASSUME NEW c \in Callers, LoopReturn(c) PROVE Exclusive'
  BY <1>0, <1>28 DEF LoopReturn
<1>29. ASSUME NEW c \in Callers, Cancel(c) PROVE Exclusive'
  BY <1>0, <1>29 DEF Cancel
<1>30. CASE UNCHANGED vars
  BY <1>0, <1>30 DEF vars
<1>. QED
  BY <1>1, <1>2, <1>3, <1>4, <1>5, <1>6, <1>7, <1>8, <1>9, <1>10, <1>11,
     <1>12, <1>13, <1>14, <1>15, <1>16, <1>17, <1>18, <1>19, <1>20, <1>21,
     <1>22, <1>23, <1>24, <1>25, <1>26, <1>27, <1>28, <1>29, <1>30
     DEF Next, Call, Acquire, Step, LoopStep, Dead

\* s.stateDBMu has one holder, and is given back.
LEMMA StoreMutexStep ==
  ASSUME IInv, [Next]_vars
  PROVE  StoreMutex'
<1>. USE CallerAssumption DEF StoreMutex, Goto, Return, In, LoopIn, server, locks,
         StartLabels, StopLabels, UseLabels, UserLabels
<1>0. /\ StoreMutex /\ dbMu \in Callers \cup {NoCaller}
      /\ pc \in [Callers -> {"idle", "panic"} \cup StartLabels \cup StopLabels \cup UseLabels]
  BY DEF IInv, TypeOK
<1>1. ASSUME NEW c \in Callers, CallRun(c) PROVE StoreMutex'
  <2>1. PICK l \in {"idle", "start"} : pc' = [pc EXCEPT ![c] = l] /\ dbMu' = dbMu /\ pc[c] = "idle"
    BY <1>1 DEF CallRun
  <2>. QED
    BY <1>0, <2>1
<1>2. ASSUME NEW c \in Callers, CallStop(c) PROVE StoreMutex'
  BY <1>0, <1>2 DEF CallStop
<1>3. ASSUME NEW c \in Callers, CallGenerateBlocks(c) PROVE StoreMutex'
  BY <1>0, <1>3 DEF CallGenerateBlocks
<1>4. ASSUME NEW c \in Callers, NEW label \in UserLabels, CallUser(c, label)
      PROVE StoreMutex'
  BY <1>0, <1>4 DEF CallUser
<1>5. ASSUME NEW c \in Callers, InitLock(c) PROVE StoreMutex'
  BY <1>0, <1>5 DEF InitLock
<1>6. ASSUME NEW c \in Callers, LockStore(c) PROVE StoreMutex'
  BY <1>0, <1>6 DEF LockStore
<1>7. ASSUME NEW c \in Callers, LockChain(c) PROVE StoreMutex'
  BY <1>0, <1>7 DEF LockChain
<1>8. ASSUME NEW c \in Callers, LockKV(c) PROVE StoreMutex'
  BY <1>0, <1>8 DEF LockKV
<1>9. ASSUME NEW c \in Callers, StartNode(c) PROVE StoreMutex'
  BY <1>0, <1>9 DEF StartNode
<1>10. ASSUME NEW c \in Callers, InitChain(c) PROVE StoreMutex'
  BY <1>0, <1>10 DEF InitChain
<1>11. ASSUME NEW c \in Callers, SpawnLoop(c) PROVE StoreMutex'
  BY <1>0, <1>11 DEF SpawnLoop
<1>12. ASSUME NEW c \in Callers, Serve(c) PROVE StoreMutex'
  BY <1>0, <1>12 DEF Serve
<1>13. ASSUME NEW c \in Callers, CancelLoop(c) PROVE StoreMutex'
  BY <1>0, <1>13 DEF CancelLoop
<1>14. ASSUME NEW c \in Callers, WaitLoop(c) PROVE StoreMutex'
  BY <1>0, <1>14 DEF WaitLoop
<1>15. ASSUME NEW c \in Callers, CloseStore(c) PROVE StoreMutex'
  BY <1>0, <1>15 DEF CloseStore
<1>16. ASSUME NEW c \in Callers, UnlockStore(c) PROVE StoreMutex'
  BY <1>0, <1>16 DEF UnlockStore
<1>17. ASSUME NEW c \in Callers, StopBeacon(c) PROVE StoreMutex'
  BY <1>0, <1>17 DEF StopBeacon
<1>18. ASSUME NEW c \in Callers, CloseNode(c) PROVE StoreMutex'
  BY <1>0, <1>18 DEF CloseNode
<1>19. ASSUME NEW c \in Callers, EndStop(c) PROVE StoreMutex'
  BY <1>0, <1>19 DEF EndStop
<1>20. ASSUME NEW c \in Callers, UseChain(c) PROVE StoreMutex'
  BY <1>0, <1>20 DEF UseChain
<1>21. ASSUME NEW c \in Callers, CheckKV(c) PROVE StoreMutex'
  BY <1>0, <1>21 DEF CheckKV
<1>22. ASSUME NEW c \in Callers, UseKV(c) PROVE StoreMutex'
  BY <1>0, <1>22 DEF UseKV
<1>23. ASSUME NEW c \in Callers, CheckEndpoint(c) PROVE StoreMutex'
  BY <1>0, <1>23 DEF CheckEndpoint
<1>24. ASSUME NEW c \in Callers, UseEndpoint(c) PROVE StoreMutex'
  BY <1>0, <1>24 DEF UseEndpoint
<1>25. ASSUME NEW c \in Callers, LoopTick(c) PROVE StoreMutex'
  BY <1>0, <1>25 DEF LoopTick
<1>26. ASSUME NEW c \in Callers, LoopLock(c) PROVE StoreMutex'
  BY <1>0, <1>26 DEF LoopLock
<1>27. ASSUME NEW c \in Callers, LoopUnlock(c) PROVE StoreMutex'
  BY <1>0, <1>27 DEF LoopUnlock
<1>28. ASSUME NEW c \in Callers, LoopReturn(c) PROVE StoreMutex'
  BY <1>0, <1>28 DEF LoopReturn
<1>29. ASSUME NEW c \in Callers, Cancel(c) PROVE StoreMutex'
  BY <1>0, <1>29 DEF Cancel
<1>30. CASE UNCHANGED vars
  BY <1>0, <1>30 DEF vars
<1>. QED
  BY <1>1, <1>2, <1>3, <1>4, <1>5, <1>6, <1>7, <1>8, <1>9, <1>10, <1>11,
     <1>12, <1>13, <1>14, <1>15, <1>16, <1>17, <1>18, <1>19, <1>20, <1>21,
     <1>22, <1>23, <1>24, <1>25, <1>26, <1>27, <1>28, <1>29, <1>30
     DEF Next, Call, Acquire, Step, LoopStep, Dead

\* The store is closed, and still there, only between its Close and its nil.
LEMMA NilKeepsClosed ==
  ASSUME IInv, \A d \in Callers : pc[d] # "store nil"
  PROVE  store # "closed"
<1>1. CASE \A d \in Callers : pc[d] \notin Active
  BY <1>1 DEF IInv, Rest, Prepared
<1>2. ASSUME NEW d \in Callers, pc[d] \in Active PROVE store # "closed"
  BY <1>2 DEF IInv, Places, Place, Prepared, Ready, Active, StartLabels, StopLabels
<1>. QED
  BY <1>1, <1>2

\* A store that was found open under s.stateDBMu stays open.
LEMMA StoreUsedOpenStep ==
  ASSUME IInv, [Next]_vars
  PROVE  StoreUsedOpen'
<1>. USE CallerAssumption DEF StoreUsedOpen, Goto, Return, In, LoopIn, server, locks,
         StartLabels, StopLabels, UseLabels, UserLabels
<1>0. /\ StoreUsedOpen /\ StoreMutex /\ store \in {"open", "closed", "nil"}
      /\ dbMu \in Callers \cup {NoCaller}
      /\ pc \in [Callers -> {"idle", "panic"} \cup StartLabels \cup StopLabels \cup UseLabels]
  BY DEF IInv, TypeOK
<1>1. ASSUME NEW c \in Callers, CallRun(c) PROVE StoreUsedOpen'
  BY <1>0, <1>1 DEF CallRun
<1>2. ASSUME NEW c \in Callers, CallStop(c) PROVE StoreUsedOpen'
  BY <1>0, <1>2 DEF CallStop
<1>3. ASSUME NEW c \in Callers, CallGenerateBlocks(c) PROVE StoreUsedOpen'
  BY <1>0, <1>3 DEF CallGenerateBlocks
<1>4. ASSUME NEW c \in Callers, NEW label \in UserLabels, CallUser(c, label)
      PROVE StoreUsedOpen'
  BY <1>0, <1>4 DEF CallUser
<1>5. ASSUME NEW c \in Callers, InitLock(c) PROVE StoreUsedOpen'
  BY <1>0, <1>5 DEF InitLock
<1>6. ASSUME NEW c \in Callers, LockStore(c) PROVE StoreUsedOpen'
  BY <1>0, <1>6 DEF LockStore
<1>7. ASSUME NEW c \in Callers, LockChain(c) PROVE StoreUsedOpen'
  BY <1>0, <1>7 DEF LockChain
<1>8. ASSUME NEW c \in Callers, LockKV(c) PROVE StoreUsedOpen'
  BY <1>0, <1>8 DEF LockKV
<1>9. ASSUME NEW c \in Callers, StartNode(c) PROVE StoreUsedOpen'
  BY <1>0, <1>9 DEF StartNode
<1>10. ASSUME NEW c \in Callers, InitChain(c) PROVE StoreUsedOpen'
  BY <1>0, <1>10 DEF InitChain
<1>11. ASSUME NEW c \in Callers, SpawnLoop(c) PROVE StoreUsedOpen'
  BY <1>0, <1>11 DEF SpawnLoop
<1>12. ASSUME NEW c \in Callers, Serve(c) PROVE StoreUsedOpen'
  BY <1>0, <1>12 DEF Serve
<1>13. ASSUME NEW c \in Callers, CancelLoop(c) PROVE StoreUsedOpen'
  BY <1>0, <1>13 DEF CancelLoop
<1>14. ASSUME NEW c \in Callers, WaitLoop(c) PROVE StoreUsedOpen'
  BY <1>0, <1>14 DEF WaitLoop
<1>15. ASSUME NEW c \in Callers, CloseStore(c) PROVE StoreUsedOpen'
  <2>1. \A d \in Callers : pc[d] # "kv"
    BY <1>0, <1>15 DEF CloseStore, StoreMutex
  <2>. QED
    BY <1>0, <2>1, <1>15 DEF CloseStore
<1>16. ASSUME NEW c \in Callers, UnlockStore(c) PROVE StoreUsedOpen'
  <2>1. \A d \in Callers : pc[d] # "kv"
    BY <1>0, <1>16 DEF UnlockStore, StoreMutex
  <2>. QED
    BY <1>0, <2>1, <1>16 DEF UnlockStore
<1>17. ASSUME NEW c \in Callers, StopBeacon(c) PROVE StoreUsedOpen'
  BY <1>0, <1>17 DEF StopBeacon
<1>18. ASSUME NEW c \in Callers, CloseNode(c) PROVE StoreUsedOpen'
  BY <1>0, <1>18 DEF CloseNode
<1>19. ASSUME NEW c \in Callers, EndStop(c) PROVE StoreUsedOpen'
  BY <1>0, <1>19 DEF EndStop
<1>20. ASSUME NEW c \in Callers, UseChain(c) PROVE StoreUsedOpen'
  BY <1>0, <1>20 DEF UseChain
<1>21. ASSUME NEW c \in Callers, CheckKV(c) PROVE StoreUsedOpen'
  <2>1. \A d \in Callers : pc[d] # "store nil"
    BY <1>0, <1>21 DEF CheckKV, StoreMutex
  <2>2. store # "closed"
    BY <2>1, NilKeepsClosed
  <2>. QED
    BY <1>0, <2>2, <1>21 DEF CheckKV
<1>22. ASSUME NEW c \in Callers, UseKV(c) PROVE StoreUsedOpen'
  BY <1>0, <1>22 DEF UseKV
<1>23. ASSUME NEW c \in Callers, CheckEndpoint(c) PROVE StoreUsedOpen'
  BY <1>0, <1>23 DEF CheckEndpoint
<1>24. ASSUME NEW c \in Callers, UseEndpoint(c) PROVE StoreUsedOpen'
  BY <1>0, <1>24 DEF UseEndpoint
<1>25. ASSUME NEW c \in Callers, LoopTick(c) PROVE StoreUsedOpen'
  BY <1>0, <1>25 DEF LoopTick
<1>26. ASSUME NEW c \in Callers, LoopLock(c) PROVE StoreUsedOpen'
  BY <1>0, <1>26 DEF LoopLock
<1>27. ASSUME NEW c \in Callers, LoopUnlock(c) PROVE StoreUsedOpen'
  BY <1>0, <1>27 DEF LoopUnlock
<1>28. ASSUME NEW c \in Callers, LoopReturn(c) PROVE StoreUsedOpen'
  BY <1>0, <1>28 DEF LoopReturn
<1>29. ASSUME NEW c \in Callers, Cancel(c) PROVE StoreUsedOpen'
  BY <1>0, <1>29 DEF Cancel
<1>30. CASE UNCHANGED vars
  BY <1>0, <1>30 DEF vars
<1>. QED
  BY <1>1, <1>2, <1>3, <1>4, <1>5, <1>6, <1>7, <1>8, <1>9, <1>10, <1>11,
     <1>12, <1>13, <1>14, <1>15, <1>16, <1>17, <1>18, <1>19, <1>20, <1>21,
     <1>22, <1>23, <1>24, <1>25, <1>26, <1>27, <1>28, <1>29, <1>30
     DEF Next, Call, Acquire, Step, LoopStep, Dead

\* The fields are what the places of Run and Stop say.
LEMMA PlacesStep ==
  ASSUME IInv, [Next]_vars
  PROVE  Places'
<1>. USE CallerAssumption DEF Places, Place, Exclusive, Prepared, Ready, NoLoop, LoopsGone, Goto, Return, In, LoopIn, server,
         locks, Active, StartLabels, StopLabels, UserLabels
<1>0. /\ Places /\ Exclusive
      /\ running = TRUE => Ready /\ cancelFunc # NoCaller
      /\ running = TRUE \/ node = "new" => \A c \in Callers : pc[c] \notin Active
      /\ loop \in [Callers -> {"none", "idle", "lock", "tick", "gone"}]
      /\ pc \in [Callers -> {"idle", "panic"} \cup StartLabels \cup StopLabels \cup UseLabels]
  BY Quiet, Settled DEF IInv, TypeOK, Exclusive, Rest
<1>1. ASSUME NEW c \in Callers, CallRun(c) PROVE Places'
  <2>1. PICK l \in {"idle", "start"} : pc' = [pc EXCEPT ![c] = l]
    BY <1>1 DEF CallRun
  <2>2. UNCHANGED <<running, cancelFunc, loop, node, beacon, store>>
    BY <1>1 DEF CallRun
  <2>. QED
    BY <1>0, <2>1, <2>2
<1>2. ASSUME NEW c \in Callers, CallStop(c) PROVE Places'
  <2>1. CASE running = TRUE
    <3>1. pc' = [pc EXCEPT ![c] = "cancel"]
      BY <1>2, <2>1 DEF CallStop
    <3>2. UNCHANGED <<cancelFunc, loop, node, beacon, store>> /\ running' = FALSE
      BY <1>2 DEF CallStop
    <3>3. Ready /\ \A d \in Callers : pc[d] \notin Active
      BY <1>0, <2>1
    <3>. QED
      BY <1>0, <3>1, <3>2, <3>3
  <2>2. CASE running # TRUE
    <3>1. pc' = [pc EXCEPT ![c] = "idle"]
      BY <1>2, <2>2 DEF CallStop
    <3>2. UNCHANGED <<cancelFunc, loop, node, beacon, store>> /\ running' = FALSE
      BY <1>2 DEF CallStop
    <3>. QED
      BY <1>0, <3>1, <3>2
  <2>. QED
    BY <2>1, <2>2
<1>3. ASSUME NEW c \in Callers, CallGenerateBlocks(c) PROVE Places'
  BY <1>0, <1>3 DEF CallGenerateBlocks
<1>4. ASSUME NEW c \in Callers, NEW label \in UserLabels, CallUser(c, label)
      PROVE Places'
  BY <1>0, <1>4 DEF CallUser
<1>5. ASSUME NEW c \in Callers, InitLock(c) PROVE Places'
  BY <1>0, <1>5 DEF InitLock
<1>6. ASSUME NEW c \in Callers, LockStore(c) PROVE Places'
  BY <1>0, <1>6 DEF LockStore
<1>7. ASSUME NEW c \in Callers, LockChain(c) PROVE Places'
  BY <1>0, <1>7 DEF LockChain
<1>8. ASSUME NEW c \in Callers, LockKV(c) PROVE Places'
  BY <1>0, <1>8 DEF LockKV
<1>9. ASSUME NEW c \in Callers, StartNode(c) PROVE Places'
  <2>1. CASE node = "new"
    <3>1. PICK l \in {"spawn", "init lock", "idle"} : pc' = [pc EXCEPT ![c] = l]
      BY <1>9, <2>1 DEF StartNode
    <3>2. /\ UNCHANGED <<running, cancelFunc, loop, beacon, store>>
          /\ l # "idle" => node' = "started"
      BY <1>0, <1>9, <2>1, <3>1 DEF StartNode, IInv, TypeOK
    <3>3. \A d \in Callers : pc[d] \notin Active
      BY <1>0, <2>1
    <3>4. /\ running = FALSE /\ store = "open" /\ beacon = TRUE
          /\ \A d \in Callers : loop[d] = "none"
      BY <3>3, <2>1 DEF IInv, Rest
    <3>. QED
      BY <1>0, <3>1, <3>2, <3>3, <3>4
  <2>2. CASE node # "new"
    <3>1. PICK l \in {"idle", "panic"} : pc' = [pc EXCEPT ![c] = l]
      BY <1>9, <2>2 DEF StartNode
    <3>2. UNCHANGED <<running, cancelFunc, loop, node, beacon, store>>
      BY <1>9, <2>2 DEF StartNode
    <3>. QED
      BY <1>0, <3>1, <3>2
  <2>. QED
    BY <2>1, <2>2
<1>10. ASSUME NEW c \in Callers, InitChain(c) PROVE Places'
  <2>1. ASSUME NEW d \in Callers, d # c PROVE Place(d)'
    <3>1. pc'[d] = pc[d]
      BY <1>0, <2>1, <1>10 DEF InitChain
    <3>2. pc[d] \notin Active
      <4>1. pc[c] \in Active
        BY <1>10 DEF InitChain
      <4>. QED
        BY <1>0, <2>1, <4>1
    <3>. QED
      BY <3>1, <3>2
  <2>2. Place(c)'
    BY <1>0, <1>10 DEF InitChain
  <2>. QED
    BY <2>1, <2>2
<1>11. ASSUME NEW c \in Callers, SpawnLoop(c) PROVE Places'
  <2>1. ASSUME NEW d \in Callers, d # c PROVE Place(d)'
    <3>1. pc'[d] = pc[d]
      BY <1>0, <2>1, <1>11 DEF SpawnLoop
    <3>2. pc[d] \notin Active
      <4>1. pc[c] \in Active
        BY <1>11 DEF SpawnLoop
      <4>. QED
        BY <1>0, <2>1, <4>1
    <3>. QED
      BY <3>1, <3>2
  <2>2. Place(c)'
    BY <1>0, <1>11 DEF SpawnLoop
  <2>. QED
    BY <2>1, <2>2
<1>12. ASSUME NEW c \in Callers, Serve(c) PROVE Places'
  <2>1. ASSUME NEW d \in Callers, d # c PROVE Place(d)'
    <3>1. pc'[d] = pc[d]
      BY <1>0, <2>1, <1>12 DEF Serve
    <3>2. pc[d] \notin Active
      <4>1. pc[c] \in Active
        BY <1>12 DEF Serve
      <4>. QED
        BY <1>0, <2>1, <4>1
    <3>. QED
      BY <3>1, <3>2
  <2>2. Place(c)'
    BY <1>0, <1>12 DEF Serve
  <2>. QED
    BY <2>1, <2>2
<1>13. ASSUME NEW c \in Callers, CancelLoop(c) PROVE Places'
  <2>1. ASSUME NEW d \in Callers, d # c PROVE Place(d)'
    <3>1. pc'[d] = pc[d]
      BY <1>0, <2>1, <1>13 DEF CancelLoop
    <3>2. pc[d] \notin Active
      <4>1. pc[c] \in Active
        BY <1>13 DEF CancelLoop
      <4>. QED
        BY <1>0, <2>1, <4>1
    <3>. QED
      BY <3>1, <3>2
  <2>2. Place(c)'
    BY <1>0, <1>13 DEF CancelLoop
  <2>. QED
    BY <2>1, <2>2
<1>14. ASSUME NEW c \in Callers, WaitLoop(c) PROVE Places'
  BY <1>0, <1>14 DEF WaitLoop
<1>15. ASSUME NEW c \in Callers, CloseStore(c) PROVE Places'
  <2>1. ASSUME NEW d \in Callers, d # c PROVE Place(d)'
    <3>1. pc'[d] = pc[d]
      BY <1>0, <2>1, <1>15 DEF CloseStore
    <3>2. pc[d] \notin Active
      <4>1. pc[c] \in Active
        BY <1>15 DEF CloseStore
      <4>. QED
        BY <1>0, <2>1, <4>1
    <3>. QED
      BY <3>1, <3>2
  <2>2. Place(c)'
    BY <1>0, <1>15 DEF CloseStore
  <2>. QED
    BY <2>1, <2>2
<1>16. ASSUME NEW c \in Callers, UnlockStore(c) PROVE Places'
  <2>1. ASSUME NEW d \in Callers, d # c PROVE Place(d)'
    <3>1. pc'[d] = pc[d]
      BY <1>0, <2>1, <1>16 DEF UnlockStore
    <3>2. pc[d] \notin Active
      <4>1. pc[c] \in Active
        BY <1>16 DEF UnlockStore
      <4>. QED
        BY <1>0, <2>1, <4>1
    <3>. QED
      BY <3>1, <3>2
  <2>2. Place(c)'
    BY <1>0, <1>16 DEF UnlockStore
  <2>. QED
    BY <2>1, <2>2
<1>17. ASSUME NEW c \in Callers, StopBeacon(c) PROVE Places'
  <2>1. ASSUME NEW d \in Callers, d # c PROVE Place(d)'
    <3>1. pc'[d] = pc[d]
      BY <1>0, <2>1, <1>17 DEF StopBeacon
    <3>2. pc[d] \notin Active
      <4>1. pc[c] \in Active
        BY <1>17 DEF StopBeacon
      <4>. QED
        BY <1>0, <2>1, <4>1
    <3>. QED
      BY <3>1, <3>2
  <2>2. Place(c)'
    BY <1>0, <1>17 DEF StopBeacon
  <2>. QED
    BY <2>1, <2>2
<1>18. ASSUME NEW c \in Callers, CloseNode(c) PROVE Places'
  <2>1. ASSUME NEW d \in Callers, d # c PROVE Place(d)'
    <3>1. pc'[d] = pc[d]
      BY <1>0, <2>1, <1>18 DEF CloseNode
    <3>2. pc[d] \notin Active
      <4>1. pc[c] \in Active
        BY <1>18 DEF CloseNode
      <4>. QED
        BY <1>0, <2>1, <4>1
    <3>. QED
      BY <3>1, <3>2
  <2>2. Place(c)'
    BY <1>0, <1>18 DEF CloseNode
  <2>. QED
    BY <2>1, <2>2
<1>19. ASSUME NEW c \in Callers, EndStop(c) PROVE Places'
  <2>1. ASSUME NEW d \in Callers, d # c PROVE Place(d)'
    <3>1. pc'[d] = pc[d]
      BY <1>0, <2>1, <1>19 DEF EndStop
    <3>2. pc[d] \notin Active
      <4>1. pc[c] \in Active
        BY <1>19 DEF EndStop
      <4>. QED
        BY <1>0, <2>1, <4>1
    <3>. QED
      BY <3>1, <3>2
  <2>2. Place(c)'
    BY <1>0, <1>19 DEF EndStop
  <2>. QED
    BY <2>1, <2>2
<1>20. ASSUME NEW c \in Callers, UseChain(c) PROVE Places'
  BY <1>0, <1>20 DEF UseChain
<1>21. ASSUME NEW c \in Callers, CheckKV(c) PROVE Places'
  <2>1. PICK l \in {"idle", "kv"} : pc' = [pc EXCEPT ![c] = l]
    BY <1>21 DEF CheckKV
  <2>2. UNCHANGED <<running, cancelFunc, loop, node, beacon, store>>
    BY <1>21 DEF CheckKV
  <2>. QED
    BY <1>0, <2>1, <2>2
<1>22. ASSUME NEW c \in Callers, UseKV(c) PROVE Places'
  BY <1>0, <1>22 DEF UseKV
<1>23. ASSUME NEW c \in Callers, CheckEndpoint(c) PROVE Places'
  BY <1>0, <1>23 DEF CheckEndpoint
<1>24. ASSUME NEW c \in Callers, UseEndpoint(c) PROVE Places'
  BY <1>0, <1>24 DEF UseEndpoint
<1>25. ASSUME NEW c \in Callers, LoopTick(c) PROVE Places'
  BY <1>0, <1>25 DEF LoopTick
<1>26. ASSUME NEW c \in Callers, LoopLock(c) PROVE Places'
  BY <1>0, <1>26 DEF LoopLock
<1>27. ASSUME NEW c \in Callers, LoopUnlock(c) PROVE Places'
  BY <1>0, <1>27 DEF LoopUnlock
<1>28. ASSUME NEW c \in Callers, LoopReturn(c) PROVE Places'
  BY <1>0, <1>28 DEF LoopReturn
<1>29. ASSUME NEW c \in Callers, Cancel(c) PROVE Places'
  BY <1>0, <1>29 DEF Cancel
<1>30. CASE UNCHANGED vars
  BY <1>0, <1>30 DEF vars
<1>. QED
  BY <1>1, <1>2, <1>3, <1>4, <1>5, <1>6, <1>7, <1>8, <1>9, <1>10, <1>11,
     <1>12, <1>13, <1>14, <1>15, <1>16, <1>17, <1>18, <1>19, <1>20, <1>21,
     <1>22, <1>23, <1>24, <1>25, <1>26, <1>27, <1>28, <1>29, <1>30
     DEF Next, Call, Acquire, Step, LoopStep, Dead

\* When a caller leaves Run or Stop the server is in one of three conditions.
LEMMA RestStep ==
  ASSUME IInv, [Next]_vars
  PROVE  Rest'
<1>. USE CallerAssumption DEF Rest, Places, Prepared, Ready, NoLoop, LoopsGone, Goto, Return, In, LoopIn, server,
         locks, Active, StartLabels, StopLabels, UserLabels
<1>0. /\ Rest /\ Places /\ Exclusive
      /\ loop \in [Callers -> {"none", "idle", "lock", "tick", "gone"}]
      /\ pc \in [Callers -> {"idle", "panic"} \cup StartLabels \cup StopLabels \cup UseLabels]
  BY DEF IInv, TypeOK, Exclusive
<1>1. ASSUME NEW c \in Callers, CallRun(c) PROVE Rest'
  BY <1>0, <1>1 DEF CallRun
<1>2. ASSUME NEW c \in Callers, CallStop(c) PROVE Rest'
  BY <1>0, <1>2 DEF CallStop
<1>3. ASSUME NEW c \in Callers, CallGenerateBlocks(c) PROVE Rest'
  BY <1>0, <1>3 DEF CallGenerateBlocks
<1>4. ASSUME NEW c \in Callers, NEW label \in UserLabels, CallUser(c, label)
      PROVE Rest'
  BY <1>0, <1>4 DEF CallUser
<1>5. ASSUME NEW c \in Callers, InitLock(c) PROVE Rest'
  BY <1>0, <1>5 DEF InitLock
<1>6. ASSUME NEW c \in Callers, LockStore(c) PROVE Rest'
  BY <1>0, <1>6 DEF LockStore
<1>7. ASSUME NEW c \in Callers, LockChain(c) PROVE Rest'
  BY <1>0, <1>7 DEF LockChain
<1>8. ASSUME NEW c \in Callers, LockKV(c) PROVE Rest'
  BY <1>0, <1>8 DEF LockKV
<1>9. ASSUME NEW c \in Callers, StartNode(c) PROVE Rest'
  BY <1>0, <1>9 DEF StartNode
<1>10. ASSUME NEW c \in Callers, InitChain(c) PROVE Rest'
  <2>1. CASE pc'[c] \in Active
    BY <2>1 DEF Rest
  <2>2. CASE pc'[c] \notin Active
    <3>1. Prepared' /\ running' = FALSE
      BY <1>0, <2>2, <1>10 DEF InitChain, Place
    <3>. QED
      BY <3>1 DEF Rest
  <2>. QED
    BY <2>1, <2>2
<1>11. ASSUME NEW c \in Callers, SpawnLoop(c) PROVE Rest'
  BY <1>0, <1>11 DEF SpawnLoop
<1>12. ASSUME NEW c \in Callers, Serve(c) PROVE Rest'
  <2>1. CASE pc'[c] \in Active
    BY <2>1 DEF Rest
  <2>2. CASE pc'[c] \notin Active
    <3>1. Prepared' /\ cancelFunc' # NoCaller /\ ~NoLoop'
      BY <1>0, <2>2, <1>12 DEF Serve, Place
    <3>. QED
      BY <3>1 DEF Rest
  <2>. QED
    BY <2>1, <2>2
<1>13. ASSUME NEW c \in Callers, CancelLoop(c) PROVE Rest'
  BY <1>0, <1>13 DEF CancelLoop
<1>14. ASSUME NEW c \in Callers, WaitLoop(c) PROVE Rest'
  <2>1. CASE pc'[c] \in Active
    BY <2>1 DEF Rest
  <2>2. CASE pc'[c] \notin Active
    <3>1. Prepared' /\ running' = FALSE
      BY <1>0, <2>2, <1>14 DEF WaitLoop, Place
    <3>. QED
      BY <3>1 DEF Rest
  <2>. QED
    BY <2>1, <2>2
<1>15. ASSUME NEW c \in Callers, CloseStore(c) PROVE Rest'
  BY <1>0, <1>15 DEF CloseStore
<1>16. ASSUME NEW c \in Callers, UnlockStore(c) PROVE Rest'
  BY <1>0, <1>16 DEF UnlockStore
<1>17. ASSUME NEW c \in Callers, StopBeacon(c) PROVE Rest'
  BY <1>0, <1>17 DEF StopBeacon
<1>18. ASSUME NEW c \in Callers, CloseNode(c) PROVE Rest'
  BY <1>0, <1>18 DEF CloseNode
<1>19. ASSUME NEW c \in Callers, EndStop(c) PROVE Rest'
  <2>1. CASE pc'[c] \in Active
    BY <2>1 DEF Rest
  <2>2. CASE pc'[c] \notin Active
    <3>1. /\ node' = "nil" /\ running' = FALSE /\ store' = "nil"
          /\ beacon' = FALSE /\ LoopsGone' /\ ~NoLoop'
      BY <1>0, <2>2, <1>19 DEF EndStop, Place
    <3>. QED
      BY <3>1 DEF Rest
  <2>. QED
    BY <2>1, <2>2
<1>20. ASSUME NEW c \in Callers, UseChain(c) PROVE Rest'
  BY <1>0, <1>20 DEF UseChain
<1>21. ASSUME NEW c \in Callers, CheckKV(c) PROVE Rest'
  BY <1>0, <1>21 DEF CheckKV
<1>22. ASSUME NEW c \in Callers, UseKV(c) PROVE Rest'
  BY <1>0, <1>22 DEF UseKV
<1>23. ASSUME NEW c \in Callers, CheckEndpoint(c) PROVE Rest'
  BY <1>0, <1>23 DEF CheckEndpoint
<1>24. ASSUME NEW c \in Callers, UseEndpoint(c) PROVE Rest'
  BY <1>0, <1>24 DEF UseEndpoint
<1>25. ASSUME NEW c \in Callers, LoopTick(c) PROVE Rest'
  BY <1>0, <1>25 DEF LoopTick
<1>26. ASSUME NEW c \in Callers, LoopLock(c) PROVE Rest'
  BY <1>0, <1>26 DEF LoopLock
<1>27. ASSUME NEW c \in Callers, LoopUnlock(c) PROVE Rest'
  BY <1>0, <1>27 DEF LoopUnlock
<1>28. ASSUME NEW c \in Callers, LoopReturn(c) PROVE Rest'
  BY <1>0, <1>28 DEF LoopReturn
<1>29. ASSUME NEW c \in Callers, Cancel(c) PROVE Rest'
  BY <1>0, <1>29 DEF Cancel
<1>30. CASE UNCHANGED vars
  BY <1>0, <1>30 DEF vars
<1>. QED
  BY <1>1, <1>2, <1>3, <1>4, <1>5, <1>6, <1>7, <1>8, <1>9, <1>10, <1>11,
     <1>12, <1>13, <1>14, <1>15, <1>16, <1>17, <1>18, <1>19, <1>20, <1>21,
     <1>22, <1>23, <1>24, <1>25, <1>26, <1>27, <1>28, <1>29, <1>30
     DEF Next, Call, Acquire, Step, LoopStep, Dead

--------------------------------------------------------------------------------

LEMMA InitIInv == Init => IInv
  BY CallerAssumption
  DEF Init, IInv, TypeOK, Exclusive, StoreMutex, Places, Place, Prepared, Ready, NoLoop, LoopsGone,
      Rest, StoreUsedOpen, Active, StartLabels, StopLabels, UseLabels

\* The inductive invariant holds in every reachable state.
THEOREM Invariant == Spec => []IInv
<1>1. Init => IInv
  BY InitIInv
<1>2. IInv /\ [Next]_vars => IInv'
  BY TypeStep, ExclusiveStep, StoreMutexStep, StoreUsedOpenStep, PlacesStep, RestStep DEF IInv
<1>. QED
  BY <1>1, <1>2, PTL DEF Spec

\* Every field keeps its type, whoever calls what.
THEOREM TypeCorrect == Spec => []TypeOK
<1>1. IInv => TypeOK
  BY DEF IInv
<1>. QED
  BY <1>1, Invariant, PTL

\* Whoever sees running may count on everything Run set up.
THEOREM RunningSafe == Spec => []RunningIsUsable
<1>1. IInv => RunningIsUsable
  BY Settled DEF IInv, TypeOK, RunningIsUsable, Ready, Prepared, Open, Resources
<1>. QED
  BY <1>1, Invariant, PTL

\* No tick works on a node or a beacon that Stop has closed.
THEOREM LoopSafe == Spec => []LoopHasItsNode
<1>1. ASSUME IInv, NEW c \in Callers, loop[c] \in {"lock", "tick"}
      PROVE  node = "started" /\ beacon
  <2>. USE DEF Prepared, Ready, NoLoop, LoopsGone
  <2>1. CASE \A d \in Callers : pc[d] \notin Active
    BY <1>1, <2>1 DEF IInv, Rest
  <2>2. ASSUME NEW d \in Callers, pc[d] \in Active PROVE node = "started" /\ beacon
    <3>1. Place(d)
      BY <1>1 DEF IInv, Places
    <3>. QED
      BY <1>1, <2>2, <3>1 DEF Place, Active, StartLabels, StopLabels
  <2>. QED
    BY <2>1, <2>2
<1>2. IInv => LoopHasItsNode
  BY <1>1 DEF LoopHasItsNode
<1>. QED
  BY <1>2, Invariant, PTL

\* A closed store is never read or written.
THEOREM StoreSafe == Spec => []StoreUsedOpen
<1>1. IInv => StoreUsedOpen
  BY DEF IInv
<1>. QED
  BY <1>1, Invariant, PTL

--------------------------------------------------------------------------------

\* What Phase is, condition by condition.
LEMMA PhaseOf ==
  ASSUME IInv
  PROVE  /\ node = "new" => Phase = "created"
         /\ running = TRUE => Phase = "serving"
         /\ At(StopLabels) => Phase = "draining"
         /\ At(StartLabels) => Phase = "starting"
         /\ ~At(StopLabels) /\ ~At(StartLabels) =>
              /\ node = "nil" => Phase = "stopped"
              /\ node = "started" /\ running = FALSE =>
                   Phase = IF NoLoop THEN "failed" ELSE "abandoned"
<1>1. running \in BOOLEAN
  BY DEF IInv, TypeOK
<1>2. running = TRUE => node = "started"
  BY Settled DEF Ready, Prepared
<1>3. ASSUME NEW c \in Callers, pc[c] \in StopLabels
      PROVE  node # "new" /\ running = FALSE
  BY <1>3 DEF IInv, Places, Place, Prepared, Ready, Active, StartLabels, StopLabels
<1>4. ASSUME NEW c \in Callers, pc[c] \in StartLabels
      PROVE  node = "started" /\ running = FALSE
  BY <1>4 DEF IInv, Places, Place, Prepared, Ready, Active, StartLabels, StopLabels
<1>5. At(StartLabels) => ~At(StopLabels)
  BY DEF At, IInv, Exclusive, Active, StartLabels, StopLabels
<1>6. /\ At(StopLabels) => node # "new" /\ running = FALSE
      /\ At(StartLabels) => node = "started" /\ running = FALSE
  BY <1>3, <1>4 DEF At
<1>7. NoLoop <=> Work = "never"
  BY DEF NoLoop, Work
<1>8. node = "new" => Phase = "created"
  BY <1>1, <1>2, <1>5, <1>6, <1>7 DEF Phase
<1>9. running = TRUE => Phase = "serving"
  BY <1>1, <1>2, <1>5, <1>6, <1>7 DEF Phase
<1>10. At(StopLabels) => Phase = "draining"
  BY <1>1, <1>2, <1>5, <1>6, <1>7 DEF Phase
<1>11. At(StartLabels) => Phase = "starting"
  BY <1>1, <1>2, <1>5, <1>6, <1>7 DEF Phase
<1>12. ~At(StopLabels) /\ ~At(StartLabels) /\ node = "nil" =>
        Phase = "stopped"
  BY <1>1, <1>2, <1>5, <1>6, <1>7 DEF Phase
<1>13. ~At(StopLabels) /\ ~At(StartLabels) /\ node = "started" /\ running = FALSE =>
        Phase = IF NoLoop THEN "failed" ELSE "abandoned"
  BY <1>1, <1>2, <1>5, <1>6, <1>7 DEF Phase
<1>. QED
  BY <1>8, <1>9, <1>10, <1>11, <1>12, <1>13

\* The same after a step.
LEMMA PhaseNext ==
  ASSUME IInv'
  PROVE  /\ node' = "new" => Phase' = "created"
         /\ running' = TRUE => Phase' = "serving"
         /\ At(StopLabels)' => Phase' = "draining"
         /\ At(StartLabels)' => Phase' = "starting"
         /\ ~At(StopLabels)' /\ ~At(StartLabels)' =>
              /\ node' = "nil" => Phase' = "stopped"
              /\ node' = "started" /\ running' = FALSE =>
                   Phase' = IF NoLoop' THEN "failed" ELSE "abandoned"
<1>1. running' \in BOOLEAN
  BY DEF IInv, TypeOK
<1>2. running' = TRUE => node' = "started"
  <2>1. CASE \A c \in Callers : pc'[c] \notin Active
    BY <2>1 DEF IInv, Rest, Prepared
  <2>2. CASE \E c \in Callers : pc'[c] \in Active
    BY <2>2 DEF IInv, Places, Place
  <2>. QED
    BY <2>1, <2>2
<1>3. ASSUME NEW c \in Callers, pc'[c] \in StopLabels
      PROVE  node' # "new" /\ running' = FALSE
  BY <1>3 DEF IInv, Places, Place, Prepared, Ready, Active, StartLabels, StopLabels
<1>4. ASSUME NEW c \in Callers, pc'[c] \in StartLabels
      PROVE  node' = "started" /\ running' = FALSE
  BY <1>4 DEF IInv, Places, Place, Prepared, Ready, Active, StartLabels, StopLabels
<1>5. At(StartLabels)' => ~At(StopLabels)'
  BY DEF At, IInv, Exclusive, Active, StartLabels, StopLabels
<1>6. /\ At(StopLabels)' => node' # "new" /\ running' = FALSE
      /\ At(StartLabels)' => node' = "started" /\ running' = FALSE
  BY <1>3, <1>4 DEF At
<1>7. NoLoop' <=> Work' = "never"
  BY DEF NoLoop, Work
<1>8. node' = "new" => Phase' = "created"
  BY <1>1, <1>2, <1>5, <1>6, <1>7 DEF Phase
<1>9. running' = TRUE => Phase' = "serving"
  BY <1>1, <1>2, <1>5, <1>6, <1>7 DEF Phase
<1>10. At(StopLabels)' => Phase' = "draining"
  BY <1>1, <1>2, <1>5, <1>6, <1>7 DEF Phase
<1>11. At(StartLabels)' => Phase' = "starting"
  BY <1>1, <1>2, <1>5, <1>6, <1>7 DEF Phase
<1>12. ~At(StopLabels)' /\ ~At(StartLabels)' /\ node' = "nil" =>
        Phase' = "stopped"
  BY <1>1, <1>2, <1>5, <1>6, <1>7 DEF Phase
<1>13. ~At(StopLabels)' /\ ~At(StartLabels)' /\ node' = "started" /\ running' = FALSE =>
        Phase' = IF NoLoop' THEN "failed" ELSE "abandoned"
  BY <1>1, <1>2, <1>5, <1>6, <1>7 DEF Phase
<1>. QED
  BY <1>8, <1>9, <1>10, <1>11, <1>12, <1>13

\* A caller that moves outside Run and Stop, or within one of them, and changes
\* none of the fields does not change the life of the server.
LEMMA SameLife ==
  ASSUME pc \in [Callers -> {"idle", "panic"} \cup StartLabels \cup StopLabels \cup UseLabels],
         NEW c \in Callers, NEW l, pc' = [pc EXCEPT ![c] = l],
         pc[c] \in StartLabels <=> l \in StartLabels,
         pc[c] \in StopLabels <=> l \in StopLabels,
         UNCHANGED <<running, node, beacon, store, loop>>
  PROVE  UNCHANGED Abs!vars
<1>1. /\ At(StartLabels)' <=> At(StartLabels)
      /\ At(StopLabels)' <=> At(StopLabels)
  BY DEF At
<1>2. UNCHANGED <<Work, Open>>
  BY DEF Work, Open, LoopsGone
<1>3. UNCHANGED Phase
  BY <1>1, <1>2 DEF Phase
<1>. QED
  BY <1>2, <1>3 DEF Abs!vars

\* The fields that make up the life, unchanged with every caller's place.
LEMMA SamePlaces ==
  ASSUME UNCHANGED <<running, node, beacon, store, loop, pc>>
  PROVE  UNCHANGED Abs!vars
  BY DEF Abs!vars, Phase, Work, Open, LoopsGone, At

\* A move of the main loop is not seen from outside, unless it was the end.
LEMMA LoopLife ==
  ASSUME loop \in [Callers -> {"none", "idle", "lock", "tick", "gone"}],
         NEW c \in Callers, NEW l \in {"idle", "lock", "tick", "gone"},
         loop[c] \in {"idle", "lock", "tick"}, loop' = [loop EXCEPT ![c] = l],
         UNCHANGED <<running, node, beacon, store, pc>>
  PROVE  Abs!Rest \/ UNCHANGED Abs!vars
<1>1. Work = "working"
  BY DEF Work, LoopsGone
<1>2. Work' \in {"working", "over"}
  BY DEF Work, LoopsGone
<1>3. UNCHANGED Open
  BY DEF Open
<1>4. UNCHANGED Phase
  BY <1>1, <1>2 DEF Phase, At
<1>. QED
  BY <1>1, <1>2, <1>3, <1>4 DEF Abs!Rest, Abs!vars

\* Nobody is left inside Run or Stop when the caller that was there returns.
LEMMA LastOut ==
  ASSUME IInv, NEW c \in Callers, pc[c] \in Active, pc' = [pc EXCEPT ![c] = "idle"]
  PROVE  ~At(StopLabels)' /\ ~At(StartLabels)'
<1>1. \A d \in Callers : d # c => pc[d] \notin Active
  BY DEF IInv, Exclusive
<1>2. pc'[c] = "idle" /\ \A d \in Callers : d # c => pc'[d] = pc[d]
  BY DEF IInv, TypeOK
<1>. QED
  BY <1>1, <1>2 DEF At, Active, StartLabels, StopLabels

\* Every action is a step of the life of the server, or none.
LEMMA LifeStep ==
  ASSUME IInv, IInv', [Next]_vars
  PROVE  [Abs!Next]_(Abs!vars)
<1>. USE CallerAssumption DEF Goto, Return, In, LoopIn, MayFail, server, locks, StartLabels,
         StopLabels, UserLabels
<1>0. /\ IInv /\ IInv'
      /\ pc \in [Callers -> {"idle", "panic"} \cup StartLabels \cup StopLabels \cup UseLabels]
  BY DEF IInv, TypeOK
<1>1. ASSUME NEW c \in Callers, CallRun(c) PROVE [Abs!Next]_(Abs!vars)
  <2>1. PICK l \in {"idle", "start"} : pc' = [pc EXCEPT ![c] = l]
    BY <1>1 DEF CallRun
  <2>2. UNCHANGED <<running, node, beacon, store, loop>>
    BY <1>1 DEF CallRun
  <2>3. /\ pc[c] \in StartLabels <=> l \in StartLabels
        /\ pc[c] \in StopLabels <=> l \in StopLabels
    BY <1>1 DEF CallRun
  <2>. QED
    BY <1>0, <2>1, <2>2, <2>3, SameLife
<1>2. ASSUME NEW c \in Callers, CallStop(c) PROVE [Abs!Next]_(Abs!vars)
  <2>1. CASE running = TRUE
    <3>1. Phase = "serving"
      BY <1>0, <2>1, PhaseOf
    <3>2. Phase' = "draining"
      BY <1>0, <2>1, <1>2, PhaseNext DEF CallStop, At
    <3>3. UNCHANGED <<Work, Open>>
      BY <1>2 DEF CallStop, Work, Open, LoopsGone
    <3>. QED
      BY <3>1, <3>2, <3>3 DEF Abs!BeginStop, Abs!Next
  <2>2. CASE running = FALSE
    <3>1. pc' = [pc EXCEPT ![c] = "idle"]
      BY <1>2, <2>2 DEF CallStop
    <3>2. UNCHANGED <<running, node, beacon, store, loop>>
      BY <1>2, <2>2 DEF CallStop
    <3>3. /\ pc[c] \in StartLabels <=> "idle" \in StartLabels
          /\ pc[c] \in StopLabels <=> "idle" \in StopLabels
      BY <1>2 DEF CallStop
    <3>. QED
      BY <1>0, <3>1, <3>2, <3>3, SameLife
  <2>. QED
    BY <1>0, <2>1, <2>2 DEF IInv, TypeOK
<1>3. ASSUME NEW c \in Callers, CallGenerateBlocks(c) PROVE [Abs!Next]_(Abs!vars)
  <2>1. PICK l \in {"chain lock"} : pc' = [pc EXCEPT ![c] = l]
    BY <1>3 DEF CallGenerateBlocks
  <2>2. UNCHANGED <<running, node, beacon, store, loop>>
    BY <1>3 DEF CallGenerateBlocks
  <2>3. /\ pc[c] \in StartLabels <=> l \in StartLabels
        /\ pc[c] \in StopLabels <=> l \in StopLabels
    BY <1>3 DEF CallGenerateBlocks
  <2>. QED
    BY <1>0, <2>1, <2>2, <2>3, SameLife
<1>4. ASSUME NEW c \in Callers, NEW label \in UserLabels, CallUser(c, label)
      PROVE [Abs!Next]_(Abs!vars)
  <2>1. PICK l \in {label} : pc' = [pc EXCEPT ![c] = l]
    BY <1>4 DEF CallUser
  <2>2. UNCHANGED <<running, node, beacon, store, loop>>
    BY <1>4 DEF CallUser
  <2>3. /\ pc[c] \in StartLabels <=> l \in StartLabels
        /\ pc[c] \in StopLabels <=> l \in StopLabels
    BY <1>4 DEF CallUser
  <2>. QED
    BY <1>0, <2>1, <2>2, <2>3, SameLife
<1>5. ASSUME NEW c \in Callers, InitLock(c) PROVE [Abs!Next]_(Abs!vars)
  <2>1. PICK l \in {"init"} : pc' = [pc EXCEPT ![c] = l]
    BY <1>5 DEF InitLock
  <2>2. UNCHANGED <<running, node, beacon, store, loop>>
    BY <1>5 DEF InitLock
  <2>3. /\ pc[c] \in StartLabels <=> l \in StartLabels
        /\ pc[c] \in StopLabels <=> l \in StopLabels
    BY <1>5 DEF InitLock
  <2>. QED
    BY <1>0, <2>1, <2>2, <2>3, SameLife
<1>6. ASSUME NEW c \in Callers, LockStore(c) PROVE [Abs!Next]_(Abs!vars)
  <2>1. PICK l \in {"store nil", "store close"} : pc' = [pc EXCEPT ![c] = l]
    BY <1>6 DEF LockStore
  <2>2. UNCHANGED <<running, node, beacon, store, loop>>
    BY <1>6 DEF LockStore
  <2>3. /\ pc[c] \in StartLabels <=> l \in StartLabels
        /\ pc[c] \in StopLabels <=> l \in StopLabels
    BY <1>6 DEF LockStore
  <2>. QED
    BY <1>0, <2>1, <2>2, <2>3, SameLife
<1>7. ASSUME NEW c \in Callers, LockChain(c) PROVE [Abs!Next]_(Abs!vars)
  <2>1. PICK l \in {"chain"} : pc' = [pc EXCEPT ![c] = l]
    BY <1>7 DEF LockChain
  <2>2. UNCHANGED <<running, node, beacon, store, loop>>
    BY <1>7 DEF LockChain
  <2>3. /\ pc[c] \in StartLabels <=> l \in StartLabels
        /\ pc[c] \in StopLabels <=> l \in StopLabels
    BY <1>7 DEF LockChain
  <2>. QED
    BY <1>0, <2>1, <2>2, <2>3, SameLife
<1>8. ASSUME NEW c \in Callers, LockKV(c) PROVE [Abs!Next]_(Abs!vars)
  <2>1. PICK l \in {"kv check"} : pc' = [pc EXCEPT ![c] = l]
    BY <1>8 DEF LockKV
  <2>2. UNCHANGED <<running, node, beacon, store, loop>>
    BY <1>8 DEF LockKV
  <2>3. /\ pc[c] \in StartLabels <=> l \in StartLabels
        /\ pc[c] \in StopLabels <=> l \in StopLabels
    BY <1>8 DEF LockKV
  <2>. QED
    BY <1>0, <2>1, <2>2, <2>3, SameLife
<1>9. ASSUME NEW c \in Callers, StartNode(c) PROVE [Abs!Next]_(Abs!vars)
  <2>1. CASE node = "new" /\ node' = "started"
    <3>1. Phase = "created"
      BY <1>0, <2>1, PhaseOf
    <3>2. Phase' = "starting"
      BY <1>0, <2>1, <1>9, PhaseNext DEF StartNode, At
    <3>3. UNCHANGED Work
      BY <2>1, <1>9 DEF StartNode, Work, LoopsGone
    <3>4. UNCHANGED Open
      BY <2>1, <1>9 DEF StartNode, Open
    <3>. QED
      BY <3>1, <3>2, <3>3, <3>4 DEF Abs!Start, Abs!Next
  <2>3. CASE node = "new" /\ node' = "closed"
    <3>0. /\ pc' = [pc EXCEPT ![c] = "idle"]
          /\ UNCHANGED <<running, loop, beacon, store>>
      BY <2>3, <1>9 DEF StartNode
    <3>1. Phase = "created"
      BY <1>0, <2>3, PhaseOf
    <3>2. \A d \in Callers : pc[d] \notin Active
      BY <1>0, <2>3, Quiet
    <3>3. /\ running = FALSE /\ store = "open" /\ beacon = TRUE
          /\ \A d \in Callers : loop[d] = "none"
      BY <1>0, <3>2, <2>3 DEF IInv, Rest, NoLoop, Prepared
    <3>4. \A d \in Callers : pc'[d] \notin Active
      BY <1>0, <3>0, <3>2 DEF Active
    <3>5. Work = "never" /\ Work' = "never"
      BY <3>0, <3>3 DEF Work
    <3>6. Phase' = "failed"
      BY <2>3, <3>0, <3>3, <3>4, <3>5 DEF Phase, At, Active
    <3>7. Open = Resources /\ Open' = Resources \ {"node"}
      BY <2>3, <3>0, <3>3 DEF Open, Resources
    <3>8. \E r \in Open : Open' = Open \ {r}
      BY <3>7 DEF Resources
    <3>. QED
      BY <3>1, <3>5, <3>6, <3>8 DEF Abs!FailStart, Abs!Next
  <2>2. CASE node # "new"
    <3>1. PICK l \in {"idle", "panic"} : pc' = [pc EXCEPT ![c] = l]
      BY <1>9, <2>2 DEF StartNode
    <3>2. UNCHANGED <<running, node, beacon, store, loop>>
      BY <1>9, <2>2 DEF StartNode
    <3>3. /\ pc[c] \in StartLabels <=> l \in StartLabels
          /\ pc[c] \in StopLabels <=> l \in StopLabels
      BY <1>9 DEF StartNode
    <3>. QED
      BY <1>0, <3>1, <3>2, <3>3, SameLife
  <2>. QED
    BY <2>1, <2>2, <2>3, <1>9 DEF StartNode
<1>10. ASSUME NEW c \in Callers, InitChain(c) PROVE [Abs!Next]_(Abs!vars)
  <2>1. CASE pc' = [pc EXCEPT ![c] = "spawn"]
    <3>1. pc' = [pc EXCEPT ![c] = "spawn"]
      BY <1>10, <2>1 DEF InitChain
    <3>2. UNCHANGED <<running, node, beacon, store, loop>>
      BY <1>10, <2>1 DEF InitChain
    <3>3. /\ pc[c] \in StartLabels <=> "spawn" \in StartLabels
          /\ pc[c] \in StopLabels <=> "spawn" \in StopLabels
      BY <1>10 DEF InitChain
    <3>. QED
      BY <1>0, <3>1, <3>2, <3>3, SameLife
  <2>2. CASE pc' = [pc EXCEPT ![c] = "idle"]
    <3>1. Place(c) /\ pc[c] \in Active
      BY <1>0, <1>10, <2>2 DEF IInv, Places, Active, InitChain
    <3>2. Phase = "starting"
      BY <1>0, <1>10, <2>2, PhaseOf DEF At, InitChain
    <3>3. Phase' = "failed"
      BY <1>0, <3>1, <1>10, <2>2, PhaseNext, LastOut DEF At, Place, Prepared, Ready, NoLoop,
           InitChain, TypeOK
    <3>4. Work = "never" /\ UNCHANGED Work
      BY <1>0, <3>1, <1>10, <2>2 DEF Place, Work, Prepared, Ready, NoLoop, LoopsGone, TypeOK,
           InitChain
    <3>5. UNCHANGED Open
      BY <1>0, <3>1, <1>10, <2>2 DEF Place, Prepared, Ready, Open, Resources, TypeOK, InitChain
    <3>. QED
      BY <3>2, <3>3, <3>4, <3>5 DEF Abs!Next, Abs!vars, Abs!Fail
  <2>. QED
    BY <2>1, <2>2, <1>10 DEF InitChain
<1>11. ASSUME NEW c \in Callers, SpawnLoop(c) PROVE [Abs!Next]_(Abs!vars)
  <2>1. Place(c) /\ pc[c] \in Active
    BY <1>0, <1>11 DEF IInv, Places, Active, SpawnLoop
  <2>2. Phase = "starting"
    BY <1>0, <1>11, PhaseOf DEF At, SpawnLoop
  <2>3. Phase' = "starting"
    BY <1>0, <2>1, <1>11, PhaseNext, LastOut DEF At, Place, Prepared, Ready, NoLoop, SpawnLoop,
         TypeOK
  <2>4. Work = "never" /\ Work' = "working"
    <3>1. \A d \in Callers : loop[d] = "none"
      BY <1>0, <2>1, <1>11 DEF Place, NoLoop, SpawnLoop
    <3>2. loop'[c] = "idle"
      BY <1>0, <1>11 DEF IInv, TypeOK, SpawnLoop
    <3>. QED
      BY <3>1, <3>2 DEF Work, LoopsGone
  <2>5. UNCHANGED Open
    BY <1>0, <2>1, <1>11 DEF Place, Prepared, Ready, Open, Resources, TypeOK, SpawnLoop
  <2>. QED
    BY <2>2, <2>3, <2>4, <2>5 DEF Abs!Next, Abs!vars, Abs!Work
<1>12. ASSUME NEW c \in Callers, Serve(c) PROVE [Abs!Next]_(Abs!vars)
  <2>1. Place(c) /\ pc[c] \in Active
    BY <1>0, <1>12 DEF IInv, Places, Active, Serve
  <2>2. Phase = "starting"
    BY <1>0, <1>12, PhaseOf DEF At, Serve
  <2>3. Phase' = "serving"
    BY <1>0, <2>1, <1>12, PhaseNext, LastOut DEF At, Place, Prepared, Ready, NoLoop, Serve, TypeOK
  <2>4. Work # "never" /\ UNCHANGED Work
    BY <1>0, <2>1, <1>12 DEF Place, Work, Prepared, Ready, NoLoop, LoopsGone, TypeOK, Serve
  <2>5. UNCHANGED Open
    BY <1>0, <2>1, <1>12 DEF Place, Prepared, Ready, Open, Resources, TypeOK, Serve
  <2>. QED
    BY <2>2, <2>3, <2>4, <2>5 DEF Abs!Next, Abs!vars, Abs!Serve
<1>13. ASSUME NEW c \in Callers, CancelLoop(c) PROVE [Abs!Next]_(Abs!vars)
  <2>1. PICK l \in {"wait"} : pc' = [pc EXCEPT ![c] = l]
    BY <1>13 DEF CancelLoop
  <2>2. UNCHANGED <<running, node, beacon, store, loop>>
    BY <1>13 DEF CancelLoop
  <2>3. /\ pc[c] \in StartLabels <=> l \in StartLabels
        /\ pc[c] \in StopLabels <=> l \in StopLabels
    BY <1>13 DEF CancelLoop
  <2>. QED
    BY <1>0, <2>1, <2>2, <2>3, SameLife
<1>14. ASSUME NEW c \in Callers, WaitLoop(c) PROVE [Abs!Next]_(Abs!vars)
  <2>1. CASE pc' = [pc EXCEPT ![c] = "store lock"]
    <3>1. pc' = [pc EXCEPT ![c] = "store lock"]
      BY <1>14, <2>1 DEF WaitLoop
    <3>2. UNCHANGED <<running, node, beacon, store, loop>>
      BY <1>14, <2>1 DEF WaitLoop
    <3>3. /\ pc[c] \in StartLabels <=> "store lock" \in StartLabels
          /\ pc[c] \in StopLabels <=> "store lock" \in StopLabels
      BY <1>14 DEF WaitLoop
    <3>. QED
      BY <1>0, <3>1, <3>2, <3>3, SameLife
  <2>2. CASE pc' = [pc EXCEPT ![c] = "idle"]
    <3>1. Place(c) /\ pc[c] \in Active
      BY <1>0, <1>14, <2>2 DEF IInv, Places, Active, WaitLoop
    <3>2. Phase = "draining"
      BY <1>0, <1>14, <2>2, PhaseOf DEF At, WaitLoop
    <3>3. Phase' = "abandoned"
      BY <1>0, <3>1, <1>14, <2>2, PhaseNext, LastOut DEF At, Place, Prepared, Ready, NoLoop,
           WaitLoop, TypeOK
    <3>4. UNCHANGED Work
      BY <1>0, <3>1, <1>14, <2>2 DEF Place, Work, Prepared, Ready, NoLoop, LoopsGone, TypeOK,
           WaitLoop
    <3>5. Open = Resources /\ UNCHANGED Open
      BY <1>0, <3>1, <1>14, <2>2 DEF Place, Prepared, Ready, Open, Resources, TypeOK, WaitLoop
    <3>. QED
      BY <3>2, <3>3, <3>4, <3>5 DEF Abs!Next, Abs!vars, Abs!Abandon
  <2>. QED
    BY <2>1, <2>2, <1>14 DEF WaitLoop
<1>15. ASSUME NEW c \in Callers, CloseStore(c) PROVE [Abs!Next]_(Abs!vars)
  <2>1. Place(c) /\ pc[c] \in Active
    BY <1>0, <1>15 DEF IInv, Places, Active, CloseStore
  <2>2. Phase = "draining"
    BY <1>0, <1>15, PhaseOf DEF At, CloseStore
  <2>3. Phase' = "draining"
    BY <1>0, <2>1, <1>15, PhaseNext, LastOut DEF At, Place, Prepared, Ready, NoLoop, CloseStore,
         TypeOK
  <2>4. Work = "over" /\ UNCHANGED Work
    BY <1>0, <2>1, <1>15 DEF Place, Work, Prepared, Ready, NoLoop, LoopsGone, TypeOK, CloseStore
  <2>5. "store" \in Open /\ Open' = Open \ {"store"}
    BY <1>0, <2>1, <1>15 DEF Place, Prepared, Ready, Open, Resources, TypeOK, CloseStore
  <2>. QED
    BY <2>2, <2>3, <2>4, <2>5 DEF Abs!Next, Abs!vars, Abs!Release
<1>16. ASSUME NEW c \in Callers, UnlockStore(c) PROVE [Abs!Next]_(Abs!vars)
  <2>1. Place(c) /\ pc[c] \in Active
    BY <1>0, <1>16 DEF IInv, Places, Active, UnlockStore
  <2>2. Phase = "draining"
    BY <1>0, <1>16, PhaseOf DEF At, UnlockStore
  <2>3. Phase' = "draining"
    BY <1>0, <2>1, <1>16, PhaseNext, LastOut DEF At, Place, Prepared, Ready, NoLoop,
         UnlockStore, TypeOK
  <2>4. UNCHANGED Work
    BY <1>0, <2>1, <1>16 DEF Place, Work, Prepared, Ready, NoLoop, LoopsGone, TypeOK, UnlockStore
  <2>5. UNCHANGED Open
    BY <1>0, <2>1, <1>16 DEF Place, Prepared, Ready, Open, Resources, TypeOK, UnlockStore
  <2>. QED
    BY <2>2, <2>3, <2>4, <2>5 DEF Abs!vars
<1>17. ASSUME NEW c \in Callers, StopBeacon(c) PROVE [Abs!Next]_(Abs!vars)
  <2>1. Place(c) /\ pc[c] \in Active
    BY <1>0, <1>17 DEF IInv, Places, Active, StopBeacon
  <2>2. Phase = "draining"
    BY <1>0, <1>17, PhaseOf DEF At, StopBeacon
  <2>3. Phase' = "draining"
    BY <1>0, <2>1, <1>17, PhaseNext, LastOut DEF At, Place, Prepared, Ready, NoLoop, StopBeacon,
         TypeOK
  <2>4. Work = "over" /\ UNCHANGED Work
    BY <1>0, <2>1, <1>17 DEF Place, Work, Prepared, Ready, NoLoop, LoopsGone, TypeOK, StopBeacon
  <2>5. "beacon" \in Open /\ Open' = Open \ {"beacon"}
    BY <1>0, <2>1, <1>17 DEF Place, Prepared, Ready, Open, Resources, TypeOK, StopBeacon
  <2>. QED
    BY <2>2, <2>3, <2>4, <2>5 DEF Abs!Next, Abs!vars, Abs!Release
<1>18. ASSUME NEW c \in Callers, CloseNode(c) PROVE [Abs!Next]_(Abs!vars)
  <2>1. Place(c) /\ pc[c] \in Active
    BY <1>0, <1>18 DEF IInv, Places, Active, CloseNode
  <2>2. Phase = "draining"
    BY <1>0, <1>18, PhaseOf DEF At, CloseNode
  <2>3. Phase' = "draining"
    BY <1>0, <2>1, <1>18, PhaseNext, LastOut DEF At, Place, Prepared, Ready, NoLoop, CloseNode,
         TypeOK
  <2>4. Work = "over" /\ UNCHANGED Work
    BY <1>0, <2>1, <1>18 DEF Place, Work, Prepared, Ready, NoLoop, LoopsGone, TypeOK, CloseNode
  <2>5. "node" \in Open /\ Open' = Open \ {"node"}
    BY <1>0, <2>1, <1>18 DEF Place, Prepared, Ready, Open, Resources, TypeOK, CloseNode
  <2>. QED
    BY <2>2, <2>3, <2>4, <2>5 DEF Abs!Next, Abs!vars, Abs!Release
<1>19. ASSUME NEW c \in Callers, EndStop(c) PROVE [Abs!Next]_(Abs!vars)
  <2>1. Place(c) /\ pc[c] \in Active
    BY <1>0, <1>19 DEF IInv, Places, Active, EndStop
  <2>2. Phase = "draining"
    BY <1>0, <1>19, PhaseOf DEF At, EndStop
  <2>3. Phase' = "stopped"
    BY <1>0, <2>1, <1>19, PhaseNext, LastOut DEF At, Place, Prepared, Ready, NoLoop, EndStop, TypeOK
  <2>4. UNCHANGED Work
    BY <1>0, <2>1, <1>19 DEF Place, Work, Prepared, Ready, NoLoop, LoopsGone, TypeOK, EndStop
  <2>5. Open = {} /\ UNCHANGED Open
    BY <1>0, <2>1, <1>19 DEF Place, Prepared, Ready, Open, Resources, TypeOK, EndStop
  <2>. QED
    BY <2>2, <2>3, <2>4, <2>5 DEF Abs!Next, Abs!vars, Abs!EndStop
<1>20. ASSUME NEW c \in Callers, UseChain(c) PROVE [Abs!Next]_(Abs!vars)
  <2>1. PICK l \in {"idle"} : pc' = [pc EXCEPT ![c] = l]
    BY <1>20 DEF UseChain
  <2>2. UNCHANGED <<running, node, beacon, store, loop>>
    BY <1>20 DEF UseChain
  <2>3. /\ pc[c] \in StartLabels <=> l \in StartLabels
        /\ pc[c] \in StopLabels <=> l \in StopLabels
    BY <1>20 DEF UseChain
  <2>. QED
    BY <1>0, <2>1, <2>2, <2>3, SameLife
<1>21. ASSUME NEW c \in Callers, CheckKV(c) PROVE [Abs!Next]_(Abs!vars)
  <2>1. PICK l \in {"idle", "kv"} : pc' = [pc EXCEPT ![c] = l]
    BY <1>21 DEF CheckKV
  <2>2. UNCHANGED <<running, node, beacon, store, loop>>
    BY <1>21 DEF CheckKV
  <2>3. /\ pc[c] \in StartLabels <=> l \in StartLabels
        /\ pc[c] \in StopLabels <=> l \in StopLabels
    BY <1>21 DEF CheckKV
  <2>. QED
    BY <1>0, <2>1, <2>2, <2>3, SameLife
<1>22. ASSUME NEW c \in Callers, UseKV(c) PROVE [Abs!Next]_(Abs!vars)
  <2>1. PICK l \in {"idle"} : pc' = [pc EXCEPT ![c] = l]
    BY <1>22 DEF UseKV
  <2>2. UNCHANGED <<running, node, beacon, store, loop>>
    BY <1>22 DEF UseKV
  <2>3. /\ pc[c] \in StartLabels <=> l \in StartLabels
        /\ pc[c] \in StopLabels <=> l \in StopLabels
    BY <1>22 DEF UseKV
  <2>. QED
    BY <1>0, <2>1, <2>2, <2>3, SameLife
<1>23. ASSUME NEW c \in Callers, CheckEndpoint(c) PROVE [Abs!Next]_(Abs!vars)
  <2>1. PICK l \in {"idle", "endpoint"} : pc' = [pc EXCEPT ![c] = l]
    BY <1>23 DEF CheckEndpoint
  <2>2. UNCHANGED <<running, node, beacon, store, loop>>
    BY <1>23 DEF CheckEndpoint
  <2>3. /\ pc[c] \in StartLabels <=> l \in StartLabels
        /\ pc[c] \in StopLabels <=> l \in StopLabels
    BY <1>23 DEF CheckEndpoint
  <2>. QED
    BY <1>0, <2>1, <2>2, <2>3, SameLife
<1>24. ASSUME NEW c \in Callers, UseEndpoint(c) PROVE [Abs!Next]_(Abs!vars)
  <2>1. PICK l \in {"idle", "panic"} : pc' = [pc EXCEPT ![c] = l]
    BY <1>24 DEF UseEndpoint
  <2>2. UNCHANGED <<running, node, beacon, store, loop>>
    BY <1>24 DEF UseEndpoint
  <2>3. /\ pc[c] \in StartLabels <=> l \in StartLabels
        /\ pc[c] \in StopLabels <=> l \in StopLabels
    BY <1>24 DEF UseEndpoint
  <2>. QED
    BY <1>0, <2>1, <2>2, <2>3, SameLife
<1>25. ASSUME NEW c \in Callers, LoopTick(c) PROVE [Abs!Next]_(Abs!vars)
  <2>1. /\ loop[c] \in {"idle", "lock", "tick"}
        /\ loop' = [loop EXCEPT ![c] = "lock"]
        /\ UNCHANGED <<running, node, beacon, store, pc>>
    BY <1>25 DEF LoopTick
  <2>2. Abs!Rest \/ UNCHANGED Abs!vars
    BY <1>0, <2>1, LoopLife DEF IInv, TypeOK
  <2>. QED
    BY <2>2 DEF Abs!Next
<1>26. ASSUME NEW c \in Callers, LoopLock(c) PROVE [Abs!Next]_(Abs!vars)
  <2>1. /\ loop[c] \in {"idle", "lock", "tick"}
        /\ loop' = [loop EXCEPT ![c] = "tick"]
        /\ UNCHANGED <<running, node, beacon, store, pc>>
    BY <1>26 DEF LoopLock
  <2>2. Abs!Rest \/ UNCHANGED Abs!vars
    BY <1>0, <2>1, LoopLife DEF IInv, TypeOK
  <2>. QED
    BY <2>2 DEF Abs!Next
<1>27. ASSUME NEW c \in Callers, LoopUnlock(c) PROVE [Abs!Next]_(Abs!vars)
  <2>1. /\ loop[c] \in {"idle", "lock", "tick"}
        /\ loop' = [loop EXCEPT ![c] = "idle"]
        /\ UNCHANGED <<running, node, beacon, store, pc>>
    BY <1>27 DEF LoopUnlock
  <2>2. Abs!Rest \/ UNCHANGED Abs!vars
    BY <1>0, <2>1, LoopLife DEF IInv, TypeOK
  <2>. QED
    BY <2>2 DEF Abs!Next
<1>28. ASSUME NEW c \in Callers, LoopReturn(c) PROVE [Abs!Next]_(Abs!vars)
  <2>1. /\ loop[c] \in {"idle", "lock", "tick"}
        /\ loop' = [loop EXCEPT ![c] = "gone"]
        /\ UNCHANGED <<running, node, beacon, store, pc>>
    BY <1>28 DEF LoopReturn
  <2>2. Abs!Rest \/ UNCHANGED Abs!vars
    BY <1>0, <2>1, LoopLife DEF IInv, TypeOK
  <2>. QED
    BY <2>2 DEF Abs!Next
<1>29. ASSUME NEW c \in Callers, Cancel(c) PROVE [Abs!Next]_(Abs!vars)
  <2>1. UNCHANGED <<running, node, beacon, store, loop, pc>>
    BY <1>29 DEF Cancel
  <2>. QED
    BY <2>1, SamePlaces
<1>30. CASE UNCHANGED vars
  BY <1>30, SamePlaces DEF vars
<1>. QED
  BY <1>1, <1>2, <1>3, <1>4, <1>5, <1>6, <1>7, <1>8, <1>9, <1>10, <1>11,
     <1>12, <1>13, <1>14, <1>15, <1>16, <1>17, <1>18, <1>19, <1>20, <1>21,
     <1>22, <1>23, <1>24, <1>25, <1>26, <1>27, <1>28, <1>29, <1>30
     DEF Next, Call, Acquire, Step, LoopStep, Dead

LEMMA LifeInit == Init => Abs!Init
<1>. SUFFICES ASSUME Init PROVE Abs!Init
  OBVIOUS
<1>1. Phase = "created" /\ Work = "never"
  BY DEF Init, Phase, Work
<1>2. Open = Resources
  BY DEF Init, Open, Resources
<1>. QED
  BY <1>1, <1>2 DEF Abs!Init

\* However the calls interleave, the server lives once: it starts once, serves,
\* is stopped once, and releases each resource once, after its loop is gone.
THEOREM LivesOnce == Spec => ImplementsOneShotServer
<1>1. Init => Abs!Init
  BY LifeInit
<1>2. IInv /\ IInv' /\ [Next]_vars => [Abs!Next]_(Abs!vars)
  BY LifeStep
<1>. QED
  BY <1>1, <1>2, Invariant, PTL DEF Spec, ImplementsOneShotServer, Abs!Spec

--------------------------------------------------------------------------------

\* What SuccessMeansReleased says of a step.
Released ==
  \A c \in Callers :
    pc[c] \in StopLabels /\ pc'[c] = "idle" /\ ~failed'[c] =>
      Open' = {} /\ LoopsGone'

\* The call that ends a Stop without an error is the one that ends its last step.
LEMMA ReleasedStep ==
  ASSUME IInv, [Next]_vars
  PROVE  Released
<1>. USE CallerAssumption DEF Goto, Return, In, LoopIn, MayFail, server, locks, Released, StopLabels,
         UserLabels
<1>0. /\ IInv
      /\ pc \in [Callers -> {"idle", "panic"} \cup StartLabels \cup StopLabels \cup UseLabels]
  BY DEF IInv, TypeOK
<1>1. ASSUME NEW c \in Callers, CallRun(c) PROVE Released
  BY <1>0, <1>1 DEF CallRun
<1>2. ASSUME NEW c \in Callers, CallStop(c) PROVE Released
  BY <1>0, <1>2 DEF CallStop
<1>3. ASSUME NEW c \in Callers, CallGenerateBlocks(c) PROVE Released
  BY <1>0, <1>3 DEF CallGenerateBlocks
<1>4. ASSUME NEW c \in Callers, NEW label \in UserLabels, CallUser(c, label)
      PROVE Released
  BY <1>0, <1>4 DEF CallUser
<1>5. ASSUME NEW c \in Callers, InitLock(c) PROVE Released
  BY <1>0, <1>5 DEF InitLock
<1>6. ASSUME NEW c \in Callers, LockStore(c) PROVE Released
  BY <1>0, <1>6 DEF LockStore
<1>7. ASSUME NEW c \in Callers, LockChain(c) PROVE Released
  BY <1>0, <1>7 DEF LockChain
<1>8. ASSUME NEW c \in Callers, LockKV(c) PROVE Released
  BY <1>0, <1>8 DEF LockKV
<1>9. ASSUME NEW c \in Callers, StartNode(c) PROVE Released
  BY <1>0, <1>9 DEF StartNode
<1>10. ASSUME NEW c \in Callers, InitChain(c) PROVE Released
  BY <1>0, <1>10 DEF InitChain
<1>11. ASSUME NEW c \in Callers, SpawnLoop(c) PROVE Released
  BY <1>0, <1>11 DEF SpawnLoop
<1>12. ASSUME NEW c \in Callers, Serve(c) PROVE Released
  BY <1>0, <1>12 DEF Serve
<1>13. ASSUME NEW c \in Callers, CancelLoop(c) PROVE Released
  BY <1>0, <1>13 DEF CancelLoop
<1>14. ASSUME NEW c \in Callers, WaitLoop(c) PROVE Released
  <2>1. \A d \in Callers : d # c => pc'[d] = pc[d]
    BY <1>0, <1>14 DEF WaitLoop
  <2>2. pc'[c] = "store lock" \/ (pc'[c] = "idle" /\ failed'[c])
    <3>1. failed \in [Callers -> BOOLEAN]
      BY <1>0 DEF IInv, TypeOK
    <3>. QED
      BY <1>0, <3>1, <1>14 DEF WaitLoop
  <2>. QED
    BY <2>1, <2>2
<1>15. ASSUME NEW c \in Callers, CloseStore(c) PROVE Released
  BY <1>0, <1>15 DEF CloseStore
<1>16. ASSUME NEW c \in Callers, UnlockStore(c) PROVE Released
  BY <1>0, <1>16 DEF UnlockStore
<1>17. ASSUME NEW c \in Callers, StopBeacon(c) PROVE Released
  BY <1>0, <1>17 DEF StopBeacon
<1>18. ASSUME NEW c \in Callers, CloseNode(c) PROVE Released
  BY <1>0, <1>18 DEF CloseNode
<1>19. ASSUME NEW c \in Callers, EndStop(c) PROVE Released
  <2>1. Place(c) /\ pc[c] = "node nil"
    BY <1>0, <1>19 DEF EndStop, IInv, Places
  <2>2. LoopsGone' /\ Open' = {}
    BY <2>1, <1>19 DEF EndStop, Place, Open, Resources, LoopsGone
  <2>. QED
    BY <2>2
<1>20. ASSUME NEW c \in Callers, UseChain(c) PROVE Released
  BY <1>0, <1>20 DEF UseChain
<1>21. ASSUME NEW c \in Callers, CheckKV(c) PROVE Released
  BY <1>0, <1>21 DEF CheckKV
<1>22. ASSUME NEW c \in Callers, UseKV(c) PROVE Released
  BY <1>0, <1>22 DEF UseKV
<1>23. ASSUME NEW c \in Callers, CheckEndpoint(c) PROVE Released
  BY <1>0, <1>23 DEF CheckEndpoint
<1>24. ASSUME NEW c \in Callers, UseEndpoint(c) PROVE Released
  BY <1>0, <1>24 DEF UseEndpoint
<1>25. ASSUME NEW c \in Callers, LoopTick(c) PROVE Released
  BY <1>0, <1>25 DEF LoopTick
<1>26. ASSUME NEW c \in Callers, LoopLock(c) PROVE Released
  BY <1>0, <1>26 DEF LoopLock
<1>27. ASSUME NEW c \in Callers, LoopUnlock(c) PROVE Released
  BY <1>0, <1>27 DEF LoopUnlock
<1>28. ASSUME NEW c \in Callers, LoopReturn(c) PROVE Released
  BY <1>0, <1>28 DEF LoopReturn
<1>29. ASSUME NEW c \in Callers, Cancel(c) PROVE Released
  BY <1>0, <1>29 DEF Cancel
<1>30. CASE UNCHANGED vars
  BY <1>0, <1>30 DEF vars
<1>. QED
  BY <1>1, <1>2, <1>3, <1>4, <1>5, <1>6, <1>7, <1>8, <1>9, <1>10, <1>11,
     <1>12, <1>13, <1>14, <1>15, <1>16, <1>17, <1>18, <1>19, <1>20, <1>21,
     <1>22, <1>23, <1>24, <1>25, <1>26, <1>27, <1>28, <1>29, <1>30
     DEF Next, Call, Acquire, Step, LoopStep, Dead

\* A Stop that reports success has released everything, after the loop was gone.
THEOREM SuccessReleases == Spec => SuccessMeansReleased
<1>1. IInv /\ [Next]_vars => [Released]_vars
  BY ReleasedStep
<1>. QED
  BY <1>1, Invariant, PTL DEF Spec, SuccessMeansReleased, Released

--------------------------------------------------------------------------------
(***************************************************************************)
(* What liveness rests on: nobody who is waited for waits in a circle, and *)
(* the loop that Stop waits for has been told to end.                      *)
(***************************************************************************)

\* The holders of s.mu.
ByCaller(c) == <<c, "caller">>
ByLoop(c)   == <<c, "loop">>

\* s.mu is held exactly at the places that use the chain.
InChain(c) == pc[c] \in {"init", "chain"}
InTick(c)  == loop[c] = "tick"

ChainMutex ==
  \A c \in Callers : (mu = ByCaller(c) <=> InChain(c)) /\ (mu = ByLoop(c) <=> InTick(c))

\* There is a main loop for the next Stop to cancel.
LoopDue == running = TRUE \/ \E c \in Callers : pc[c] \in {"serve", "cancel"}

\* There is one main loop, whose cancel function is in s.cancelFunc until Stop
\* has called it.
Reached ==
  /\ \A c, d \in Callers : loop[c] # "none" /\ loop[d] # "none" => c = d
  /\ LoopDue => cancelFunc \in Callers /\ loop[cancelFunc] # "none"
  /\ \A c, d \in Callers : pc[c] = "wait" /\ loop[d] # "none" => d \in cancelled

\* Holders differ from one another and from nobody.
LEMMA Holders ==
  ASSUME NEW c \in Callers, NEW d \in Callers
  PROVE  /\ ByCaller(c) # NoCaller
         /\ ByLoop(c) # NoCaller
         /\ ByCaller(c) # ByLoop(d)
         /\ ByCaller(c) = ByCaller(d) => c = d
         /\ ByLoop(c) = ByLoop(d) => c = d
<1>1. ByCaller(c) \in Callers \X {"caller", "loop"} /\ ByLoop(c) \in Callers \X {"caller", "loop"}
  BY DEF ByCaller, ByLoop
<1>2. ByCaller(c) # NoCaller /\ ByLoop(c) # NoCaller
  BY <1>1, CallerAssumption
<1>. QED
  BY <1>2 DEF ByCaller, ByLoop

\* A step that leaves the mutex and who uses the chain alone.
ChainAlone ==
  /\ mu' = mu
  /\ \A c \in Callers : (InChain(c)' <=> InChain(c)) /\ (InTick(c)' <=> InTick(c))

LEMMA ChainAloneKeeps == ChainMutex /\ ChainAlone => ChainMutex'
  BY DEF ChainMutex, ChainAlone, ByCaller, ByLoop

\* A caller takes the mutex and uses the chain ...
LEMMA CallerTakes ==
  ASSUME ChainMutex, NEW c \in Callers, mu = NoCaller, mu' = ByCaller(c), InChain(c)',
         \A d \in Callers : d # c => (InChain(d)' <=> InChain(d)),
         \A d \in Callers : InTick(d)' <=> InTick(d)
  PROVE  ChainMutex'
<1>1. \A d \in Callers : ~InChain(d) /\ ~InTick(d)
  BY Holders DEF ChainMutex
<1>2. ASSUME NEW d \in Callers PROVE mu' = ByCaller(d) <=> InChain(d)'
  BY <1>1, Holders
<1>3. ASSUME NEW d \in Callers PROVE mu' = ByLoop(d) <=> InTick(d)'
  BY <1>1, Holders
<1>. QED
  BY <1>2, <1>3 DEF ChainMutex, ByCaller, ByLoop

\* ... or the loop does ...
LEMMA LoopTakes ==
  ASSUME ChainMutex, NEW c \in Callers, mu = NoCaller, mu' = ByLoop(c), InTick(c)',
         \A d \in Callers : d # c => (InTick(d)' <=> InTick(d)),
         \A d \in Callers : InChain(d)' <=> InChain(d)
  PROVE  ChainMutex'
<1>1. \A d \in Callers : ~InChain(d) /\ ~InTick(d)
  BY Holders DEF ChainMutex
<1>2. ASSUME NEW d \in Callers PROVE mu' = ByCaller(d) <=> InChain(d)'
  BY <1>1, Holders
<1>3. ASSUME NEW d \in Callers PROVE mu' = ByLoop(d) <=> InTick(d)'
  BY <1>1, Holders
<1>. QED
  BY <1>2, <1>3 DEF ChainMutex, ByCaller, ByLoop

\* ... and each gives it back.
LEMMA CallerGives ==
  ASSUME ChainMutex, NEW c \in Callers, InChain(c), mu' = NoCaller, ~InChain(c)',
         \A d \in Callers : d # c => (InChain(d)' <=> InChain(d)),
         \A d \in Callers : InTick(d)' <=> InTick(d)
  PROVE  ChainMutex'
<1>1. mu = ByCaller(c)
  BY DEF ChainMutex
<1>2. \A d \in Callers : ~InTick(d) /\ (d # c => ~InChain(d))
  BY <1>1, Holders DEF ChainMutex
<1>3. \A d \in Callers : ~InChain(d)' /\ ~InTick(d)'
  BY <1>2
<1>4. \A d \in Callers : mu' # ByCaller(d) /\ mu' # ByLoop(d)
  BY Holders
<1>. QED
  BY <1>3, <1>4 DEF ChainMutex, ByCaller, ByLoop

\* The same for the loop.
LEMMA LoopGives ==
  ASSUME ChainMutex, NEW c \in Callers, InTick(c), mu' = NoCaller, ~InTick(c)',
         \A d \in Callers : d # c => (InTick(d)' <=> InTick(d)),
         \A d \in Callers : InChain(d)' <=> InChain(d)
  PROVE  ChainMutex'
<1>1. mu = ByLoop(c)
  BY DEF ChainMutex
<1>2. \A d \in Callers : ~InChain(d) /\ (d # c => ~InTick(d))
  BY <1>1, Holders DEF ChainMutex
<1>3. \A d \in Callers : ~InChain(d)' /\ ~InTick(d)'
  BY <1>2
<1>4. \A d \in Callers : mu' # ByCaller(d) /\ mu' # ByLoop(d)
  BY Holders
<1>. QED
  BY <1>3, <1>4 DEF ChainMutex, ByCaller, ByLoop

\* s.mu has one holder, and is given back.
LEMMA ChainMutexStep ==
  ASSUME IInv, ChainMutex, [Next]_vars
  PROVE  ChainMutex'
<1>. USE DEF Goto, Return, In, LoopIn, MayFail, server, locks, StartLabels, StopLabels,
         UseLabels, UserLabels, InChain, InTick
<1>0. /\ pc \in [Callers -> {"idle", "panic"} \cup StartLabels \cup StopLabels \cup UseLabels]
      /\ loop \in [Callers -> {"none", "idle", "lock", "tick", "gone"}]
  BY DEF IInv, TypeOK
<1>c. ChainAlone => ChainMutex'
  BY ChainAloneKeeps
<1>1. ASSUME NEW c \in Callers, CallRun(c) PROVE ChainAlone
  BY <1>0, <1>1 DEF CallRun, ChainAlone
<1>2. ASSUME NEW c \in Callers, CallStop(c) PROVE ChainAlone
  BY <1>0, <1>2 DEF CallStop, ChainAlone
<1>3. ASSUME NEW c \in Callers, CallGenerateBlocks(c) PROVE ChainAlone
  BY <1>0, <1>3 DEF CallGenerateBlocks, ChainAlone
<1>4. ASSUME NEW c \in Callers, NEW label \in UserLabels, CallUser(c, label)
      PROVE ChainAlone
  BY <1>0, <1>4 DEF CallUser, ChainAlone
<1>5. ASSUME NEW c \in Callers, InitLock(c) PROVE ChainMutex'
  <2>1. mu = NoCaller /\ mu' = ByCaller(c) /\ InChain(c)'
    BY <1>0, <1>5 DEF InitLock, ByCaller
  <2>2. /\ \A d \in Callers : d # c => (InChain(d)' <=> InChain(d))
        /\ \A d \in Callers : InTick(d)' <=> InTick(d)
    BY <1>0, <1>5 DEF InitLock
  <2>. QED
    BY <2>1, <2>2, CallerTakes
<1>6. ASSUME NEW c \in Callers, LockStore(c) PROVE ChainAlone
  BY <1>0, <1>6 DEF LockStore, ChainAlone
<1>7. ASSUME NEW c \in Callers, LockChain(c) PROVE ChainMutex'
  <2>1. mu = NoCaller /\ mu' = ByCaller(c) /\ InChain(c)'
    BY <1>0, <1>7 DEF LockChain, ByCaller
  <2>2. /\ \A d \in Callers : d # c => (InChain(d)' <=> InChain(d))
        /\ \A d \in Callers : InTick(d)' <=> InTick(d)
    BY <1>0, <1>7 DEF LockChain
  <2>. QED
    BY <2>1, <2>2, CallerTakes
<1>8. ASSUME NEW c \in Callers, LockKV(c) PROVE ChainAlone
  BY <1>0, <1>8 DEF LockKV, ChainAlone
<1>9. ASSUME NEW c \in Callers, StartNode(c) PROVE ChainAlone
  BY <1>0, <1>9 DEF StartNode, ChainAlone
<1>10. ASSUME NEW c \in Callers, InitChain(c) PROVE ChainMutex'
  <2>1. InChain(c) /\ mu' = NoCaller /\ ~InChain(c)'
    BY <1>0, <1>10 DEF InitChain
  <2>2. /\ \A d \in Callers : d # c => (InChain(d)' <=> InChain(d))
        /\ \A d \in Callers : InTick(d)' <=> InTick(d)
    BY <1>0, <1>10 DEF InitChain
  <2>. QED
    BY <2>1, <2>2, CallerGives
<1>11. ASSUME NEW c \in Callers, SpawnLoop(c) PROVE ChainAlone
  <2>1. loop[c] = "none"
    BY <1>11 DEF SpawnLoop, IInv, Places, Place, NoLoop
  <2>. QED
    BY <1>0, <1>11, <2>1 DEF SpawnLoop, ChainAlone
<1>12. ASSUME NEW c \in Callers, Serve(c) PROVE ChainAlone
  BY <1>0, <1>12 DEF Serve, ChainAlone
<1>13. ASSUME NEW c \in Callers, CancelLoop(c) PROVE ChainAlone
  BY <1>0, <1>13 DEF CancelLoop, ChainAlone
<1>14. ASSUME NEW c \in Callers, WaitLoop(c) PROVE ChainAlone
  BY <1>0, <1>14 DEF WaitLoop, ChainAlone
<1>15. ASSUME NEW c \in Callers, CloseStore(c) PROVE ChainAlone
  BY <1>0, <1>15 DEF CloseStore, ChainAlone
<1>16. ASSUME NEW c \in Callers, UnlockStore(c) PROVE ChainAlone
  BY <1>0, <1>16 DEF UnlockStore, ChainAlone
<1>17. ASSUME NEW c \in Callers, StopBeacon(c) PROVE ChainAlone
  BY <1>0, <1>17 DEF StopBeacon, ChainAlone
<1>18. ASSUME NEW c \in Callers, CloseNode(c) PROVE ChainAlone
  BY <1>0, <1>18 DEF CloseNode, ChainAlone
<1>19. ASSUME NEW c \in Callers, EndStop(c) PROVE ChainAlone
  BY <1>0, <1>19 DEF EndStop, ChainAlone
<1>20. ASSUME NEW c \in Callers, UseChain(c) PROVE ChainMutex'
  <2>1. InChain(c) /\ mu' = NoCaller /\ ~InChain(c)'
    BY <1>0, <1>20 DEF UseChain
  <2>2. /\ \A d \in Callers : d # c => (InChain(d)' <=> InChain(d))
        /\ \A d \in Callers : InTick(d)' <=> InTick(d)
    BY <1>0, <1>20 DEF UseChain
  <2>. QED
    BY <2>1, <2>2, CallerGives
<1>21. ASSUME NEW c \in Callers, CheckKV(c) PROVE ChainAlone
  BY <1>0, <1>21 DEF CheckKV, ChainAlone
<1>22. ASSUME NEW c \in Callers, UseKV(c) PROVE ChainAlone
  BY <1>0, <1>22 DEF UseKV, ChainAlone
<1>23. ASSUME NEW c \in Callers, CheckEndpoint(c) PROVE ChainAlone
  BY <1>0, <1>23 DEF CheckEndpoint, ChainAlone
<1>24. ASSUME NEW c \in Callers, UseEndpoint(c) PROVE ChainAlone
  BY <1>0, <1>24 DEF UseEndpoint, ChainAlone
<1>25. ASSUME NEW c \in Callers, LoopTick(c) PROVE ChainAlone
  BY <1>0, <1>25 DEF LoopTick, ChainAlone
<1>26. ASSUME NEW c \in Callers, LoopLock(c) PROVE ChainMutex'
  <2>1. mu = NoCaller /\ mu' = ByLoop(c) /\ InTick(c)'
    BY <1>0, <1>26 DEF LoopLock, ByLoop
  <2>2. /\ \A d \in Callers : d # c => (InTick(d)' <=> InTick(d))
        /\ \A d \in Callers : InChain(d)' <=> InChain(d)
    BY <1>0, <1>26 DEF LoopLock
  <2>. QED
    BY <2>1, <2>2, LoopTakes
<1>27. ASSUME NEW c \in Callers, LoopUnlock(c) PROVE ChainMutex'
  <2>1. InTick(c) /\ mu' = NoCaller /\ ~InTick(c)'
    BY <1>0, <1>27 DEF LoopUnlock
  <2>2. /\ \A d \in Callers : d # c => (InTick(d)' <=> InTick(d))
        /\ \A d \in Callers : InChain(d)' <=> InChain(d)
    BY <1>0, <1>27 DEF LoopUnlock
  <2>. QED
    BY <2>1, <2>2, LoopGives
<1>28. ASSUME NEW c \in Callers, LoopReturn(c) PROVE ChainAlone
  BY <1>0, <1>28 DEF LoopReturn, ChainAlone
<1>29. ASSUME NEW c \in Callers, Cancel(c) PROVE ChainAlone
  BY <1>0, <1>29 DEF Cancel, ChainAlone
<1>30. CASE UNCHANGED vars
  BY <1>30, <1>c DEF vars, ChainAlone
<1>. QED
  BY <1>c, <1>1, <1>2, <1>3, <1>4, <1>5, <1>6, <1>7, <1>8, <1>9, <1>10, <1>11,
     <1>12, <1>13, <1>14, <1>15, <1>16, <1>17, <1>18, <1>19, <1>20, <1>21,
     <1>22, <1>23, <1>24, <1>25, <1>26, <1>27, <1>28, <1>29, <1>30
     DEF Next, Call, Acquire, Step, LoopStep, Dead

\* Where a call, and a main loop, can be.
Labels == {"idle", "panic"} \cup StartLabels \cup StopLabels \cup UseLabels
LoopLabels == {"none", "idle", "lock", "tick", "gone"}

\* A step that makes no loop, cancels none and brings nobody to wait for one.
LoopAlone ==
  /\ \A c \in Callers : loop'[c] # "none" <=> loop[c] # "none"
  /\ cancelFunc' = cancelFunc /\ cancelled \subseteq cancelled'
  /\ LoopDue' => LoopDue
  /\ \A c \in Callers : pc'[c] = "wait" => pc[c] = "wait"

LEMMA LoopAloneKeeps == Reached /\ LoopAlone => Reached'
  BY DEF Reached, LoopAlone

\* Only SpawnLoop makes a loop, when there is none, and only a Stop, of which
\* there is one at a time, forgets how to cancel it.
LEMMA ReachedStep ==
  ASSUME IInv, Reached, [Next]_vars
  PROVE  Reached'
<1>. USE DEF Goto, Return, In, LoopIn, MayFail, server, locks
<1>0. pc \in [Callers -> Labels] /\ loop \in [Callers -> LoopLabels]
  BY DEF IInv, TypeOK, Labels, LoopLabels
<1>1. ASSUME NEW c \in Callers, CallRun(c) PROVE LoopAlone
  BY <1>0, <1>1 DEF LoopAlone, LoopDue, CallRun
<1>2. ASSUME NEW c \in Callers, CallStop(c) PROVE LoopAlone
  BY <1>0, <1>2 DEF LoopAlone, LoopDue, CallStop
<1>3. ASSUME NEW c \in Callers, CallGenerateBlocks(c) PROVE LoopAlone
  BY <1>0, <1>3 DEF LoopAlone, LoopDue, CallGenerateBlocks
<1>4. ASSUME NEW c \in Callers, NEW label \in UserLabels, CallUser(c, label)
      PROVE LoopAlone
  BY <1>0, <1>4 DEF LoopAlone, LoopDue, CallUser, UserLabels
<1>5. ASSUME NEW c \in Callers, InitLock(c) PROVE LoopAlone
  BY <1>0, <1>5 DEF LoopAlone, LoopDue, InitLock
<1>6. ASSUME NEW c \in Callers, LockStore(c) PROVE LoopAlone
  BY <1>0, <1>6 DEF LoopAlone, LoopDue, LockStore
<1>7. ASSUME NEW c \in Callers, LockChain(c) PROVE LoopAlone
  BY <1>0, <1>7 DEF LoopAlone, LoopDue, LockChain
<1>8. ASSUME NEW c \in Callers, LockKV(c) PROVE LoopAlone
  BY <1>0, <1>8 DEF LoopAlone, LoopDue, LockKV
<1>9. ASSUME NEW c \in Callers, StartNode(c) PROVE LoopAlone
  BY <1>0, <1>9 DEF LoopAlone, LoopDue, StartNode
<1>10. ASSUME NEW c \in Callers, InitChain(c) PROVE LoopAlone
  BY <1>0, <1>10 DEF LoopAlone, LoopDue, InitChain
<1>11. ASSUME NEW c \in Callers, SpawnLoop(c) PROVE Reached'
  <2>1. NoLoop /\ pc[c] = "spawn" /\ running = FALSE
    BY <1>11 DEF SpawnLoop, IInv, Places, Place, Active, StartLabels, StopLabels
  <2>2. \A d \in Callers : pc[d] \in Active => d = c
    BY <2>1 DEF IInv, Exclusive, Active, StartLabels, StopLabels
  <2>3. cancelFunc' = c /\ loop'[c] # "none" /\ \A d \in Callers : d # c => loop'[d] = "none"
    BY <1>0, <1>11, <2>1 DEF SpawnLoop, NoLoop
  <2>4. \A d \in Callers : pc'[d] # "wait"
    BY <1>0, <1>11, <2>2 DEF SpawnLoop, Active, StartLabels, StopLabels
  <2>5. c \in Callers /\ loop'[cancelFunc'] # "none"
    BY <2>3
  <2>. QED
    BY <2>3, <2>4, <2>5 DEF Reached
<1>12. ASSUME NEW c \in Callers, Serve(c) PROVE LoopAlone
  BY <1>0, <1>12 DEF LoopAlone, LoopDue, Serve
<1>13. ASSUME NEW c \in Callers, CancelLoop(c) PROVE Reached'
  <2>1. pc[c] = "cancel" /\ running = FALSE
    BY <1>13 DEF CancelLoop, IInv, Places, Place, Active, StartLabels, StopLabels
  <2>2. \A d \in Callers : pc[d] \in Active => d = c
    BY <2>1 DEF IInv, Exclusive, Active, StartLabels, StopLabels
  <2>3. \A d \in Callers : pc'[d] \notin {"serve", "cancel"}
    BY <1>0, <1>13, <2>2 DEF CancelLoop, Active, StartLabels, StopLabels
  <2>4. cancelFunc \in Callers /\ loop[cancelFunc] # "none"
    BY <2>1 DEF Reached, LoopDue
  <2>5. \A d \in Callers : loop[d] # "none" => d = cancelFunc
    BY <2>4 DEF Reached
  <2>6. running' = running /\ loop' = loop /\ cancelFunc \in cancelled'
    BY <1>13, <2>4, CallerAssumption DEF CancelLoop
  <2>7. ~LoopDue'
    BY <2>1, <2>3, <2>6 DEF LoopDue
  <2>. QED
    BY <2>5, <2>6, <2>7 DEF Reached
<1>14. ASSUME NEW c \in Callers, WaitLoop(c) PROVE LoopAlone
  BY <1>0, <1>14 DEF LoopAlone, LoopDue, WaitLoop
<1>15. ASSUME NEW c \in Callers, CloseStore(c) PROVE LoopAlone
  BY <1>0, <1>15 DEF LoopAlone, LoopDue, CloseStore
<1>16. ASSUME NEW c \in Callers, UnlockStore(c) PROVE LoopAlone
  BY <1>0, <1>16 DEF LoopAlone, LoopDue, UnlockStore
<1>17. ASSUME NEW c \in Callers, StopBeacon(c) PROVE LoopAlone
  BY <1>0, <1>17 DEF LoopAlone, LoopDue, StopBeacon
<1>18. ASSUME NEW c \in Callers, CloseNode(c) PROVE LoopAlone
  BY <1>0, <1>18 DEF LoopAlone, LoopDue, CloseNode
<1>19. ASSUME NEW c \in Callers, EndStop(c) PROVE LoopAlone
  BY <1>0, <1>19 DEF LoopAlone, LoopDue, EndStop
<1>20. ASSUME NEW c \in Callers, UseChain(c) PROVE LoopAlone
  BY <1>0, <1>20 DEF LoopAlone, LoopDue, UseChain
<1>21. ASSUME NEW c \in Callers, CheckKV(c) PROVE LoopAlone
  BY <1>0, <1>21 DEF LoopAlone, LoopDue, CheckKV
<1>22. ASSUME NEW c \in Callers, UseKV(c) PROVE LoopAlone
  BY <1>0, <1>22 DEF LoopAlone, LoopDue, UseKV
<1>23. ASSUME NEW c \in Callers, CheckEndpoint(c) PROVE LoopAlone
  BY <1>0, <1>23 DEF LoopAlone, LoopDue, CheckEndpoint
<1>24. ASSUME NEW c \in Callers, UseEndpoint(c) PROVE LoopAlone
  BY <1>0, <1>24 DEF LoopAlone, LoopDue, UseEndpoint
<1>25. ASSUME NEW c \in Callers, LoopTick(c) PROVE LoopAlone
  BY <1>0, <1>25 DEF LoopAlone, LoopDue, LoopTick
<1>26. ASSUME NEW c \in Callers, LoopLock(c) PROVE LoopAlone
  BY <1>0, <1>26 DEF LoopAlone, LoopDue, LoopLock
<1>27. ASSUME NEW c \in Callers, LoopUnlock(c) PROVE LoopAlone
  BY <1>0, <1>27 DEF LoopAlone, LoopDue, LoopUnlock
<1>28. ASSUME NEW c \in Callers, LoopReturn(c) PROVE LoopAlone
  BY <1>0, <1>28 DEF LoopAlone, LoopDue, LoopReturn
<1>29. ASSUME NEW c \in Callers, Cancel(c) PROVE LoopAlone
  BY <1>0, <1>29 DEF LoopAlone, LoopDue, Cancel
<1>30. ASSUME UNCHANGED vars PROVE LoopAlone
  BY <1>30 DEF vars, LoopAlone, LoopDue
<1>31. LoopAlone \/ Reached'
  BY <1>1, <1>2, <1>3, <1>4, <1>5, <1>6, <1>7, <1>8, <1>9, <1>10, <1>11,
     <1>12, <1>13, <1>14, <1>15, <1>16, <1>17, <1>18, <1>19, <1>20, <1>21,
     <1>22, <1>23, <1>24, <1>25, <1>26, <1>27, <1>28, <1>29, <1>30
     DEF Next, Call, Acquire, Step, LoopStep, Dead
<1>. QED
  BY <1>31, LoopAloneKeeps

\* Waiting for s.mu, s.stateDBMu or the main loop is never circular.
THEOREM NobodyWaitsInVain == Spec => []WaitsEnd
<1>1. Init => ChainMutex /\ Reached
  BY CallerAssumption, Holders DEF Init, ChainMutex, InChain, InTick, Reached, LoopDue
<1>2. IInv /\ ChainMutex /\ Reached /\ [Next]_vars => ChainMutex' /\ Reached'
  BY ChainMutexStep, ReachedStep
<1>3. IInv /\ ChainMutex /\ Reached => WaitsEnd
  <2>. SUFFICES ASSUME IInv, ChainMutex, Reached
                PROVE  WaitsEnd
    OBVIOUS
  <2>1. ASSUME mu # NoCaller
        PROVE  \E c \in Callers : \/ mu = <<c, "caller">> /\ pc[c] \in {"init", "chain"}
                                  \/ mu = <<c, "loop">> /\ loop[c] = "tick"
    <3>1. PICK c \in Callers, w \in {"caller", "loop"} : mu = <<c, w>>
      BY <2>1 DEF IInv, TypeOK
    <3>. QED
      BY <3>1 DEF ChainMutex, ByCaller, ByLoop, InChain, InTick
  <2>2. dbMu # NoCaller => pc[dbMu] \in {"store close", "store nil", "kv check", "kv"}
    BY DEF IInv, TypeOK, StoreMutex
  <2>3. \A c, d \in Callers :
          pc[c] = "wait" /\ loop[d] \in {"idle", "lock", "tick"} => d \in cancelled
    BY DEF Reached
  <2>. QED
    BY <2>1, <2>2, <2>3 DEF WaitsEnd
<1>. QED
  BY <1>1, <1>2, <1>3, Invariant, PTL DEF Spec

\* Whatever is closed is closed while no main loop works and the server does not
\* run: OneShotServer's order of releases, in the code's fields.
THEOREM ReleasesLast == Spec => [](Open # Resources => LoopsGone /\ ~running)
<1>1. ASSUME IInv, Open # Resources PROVE LoopsGone /\ ~running
  <2>1. ~running
    BY <1>1, Settled DEF IInv, TypeOK, Ready, Prepared, Open, Resources
  <2>2. LoopsGone
    <3>1. CASE \A d \in Callers : pc[d] \notin Active
      BY <1>1, <3>1 DEF IInv, Rest, Prepared, Open, Resources, NoLoop, LoopsGone
    <3>2. ASSUME NEW d \in Callers, pc[d] \in Active PROVE LoopsGone
      <4>1. Place(d)
        BY <1>1 DEF IInv, Places
      <4>. QED
        BY <1>1, <3>2, <4>1
           DEF Place, Active, StartLabels, StopLabels, Ready, Prepared, Open, Resources,
               LoopsGone, NoLoop, IInv, Rest
    <3>. QED
      BY <3>1, <3>2
  <2>. QED
    BY <2>1, <2>2
<1>. QED
  BY <1>1, Invariant, PTL

================================================================================
