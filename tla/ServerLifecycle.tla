---------------------------- MODULE ServerLifecycle ----------------------------
(***************************************************************************)
(* Starting and stopping an ETHTestServer: Run, the main loop as a         *)
(* goroutine that lives and dies, Stop, and the calls that use what Stop   *)
(* takes away: the state store (StoreValue, RetrieveValue, DeleteValue),   *)
(* the node's endpoints and the chain.                                     *)
(*                                                                         *)
(* Nothing in the program orders these calls: any goroutine may make any   *)
(* of them at any time.  running is atomic; cancelFunc, node, beacon and   *)
(* ethereum are plain fields, so a check and a use of one are two steps.   *)
(* What is produced under s.mu is ChainMining's subject; here a chain      *)
(* operation only takes the mutex and uses the node.                       *)
(***************************************************************************)
EXTENDS Naturals

CONSTANTS
  Callers,      \* goroutines that call the exported API
  NoCaller,     \* no goroutine
  AutoMining,   \* config.AutoMining
  Initialized,  \* s.initialized
  Env           \* what the environment may do, a subset of EnvEvents

EnvEvents ==
  { "startFails",   \* the node cannot start: a port is taken, a service fails
    "initFails",    \* the initial block cannot be generated
    "cancel",       \* the context given to Run is cancelled
    "expire",       \* config.MaxDuration elapses
    "stopExpires",  \* the context given to Stop is done before the loop is
    "closeFails" }  \* closing the store, the beacon or the node reports an error

ASSUME CallerAssumption ==
  /\ NoCaller \notin Callers \cup (Callers \X {"caller", "loop"})
  /\ AutoMining \in BOOLEAN
  /\ Initialized \in BOOLEAN
  /\ Env \subseteq EnvEvents

VARIABLES
  running,     \* s.running
  cancelFunc,  \* the caller whose Run set s.cancelFunc, or NoCaller for nil
  cancelled,   \* the callers whose Run context is done
  loop,        \* the main loop each caller's Run spawned, s.wg counts them
  node,        \* the Geth node, and whether s.node still points to it
  beacon,      \* s.beacon is not nil
  store,       \* the pebble store, and whether s.stateDB still points to it
  mu,          \* the holder of s.mu: a caller, or the loop a caller spawned
  dbMu,        \* the holder of s.stateDBMu
  pc,          \* where each caller is
  failed       \* the call in progress, or the last one, returned an error

vars == <<running, cancelFunc, cancelled, loop, node, beacon, store, mu, dbMu,
          pc, failed>>

StartLabels == {"init lock", "init", "spawn", "serve"}
StopLabels  == {"cancel", "wait", "store lock", "store close", "store nil",
                "beacon stop", "node close", "node nil"}
UseLabels   == {"start", "chain lock", "chain", "kv lock", "kv check", "kv",
                "endpoint check", "endpoint"}

TypeOK ==
  /\ running \in BOOLEAN
  /\ cancelFunc \in Callers \cup {NoCaller}
  /\ cancelled \subseteq Callers
  /\ loop \in [Callers -> {"none", "idle", "lock", "tick", "gone"}]
  /\ node \in {"new", "started", "closed", "nil"}
  /\ beacon \in BOOLEAN
  /\ store \in {"open", "closed", "nil"}
  /\ mu \in {NoCaller} \cup (Callers \X {"caller", "loop"})
  /\ dbMu \in Callers \cup {NoCaller}
  /\ pc \in [Callers -> {"idle", "panic"} \cup StartLabels \cup StopLabels \cup UseLabels]
  /\ failed \in [Callers -> BOOLEAN]

Init ==
  /\ running = FALSE
  /\ cancelFunc = NoCaller
  /\ cancelled = {}
  /\ loop = [c \in Callers |-> "none"]
  /\ node = "new"
  /\ beacon = TRUE
  /\ store = "open"
  /\ mu = NoCaller
  /\ dbMu = NoCaller
  /\ pc = [c \in Callers |-> "idle"]
  /\ failed = [c \in Callers |-> FALSE]

\* A nil dereference in any goroutine ends the process.
Alive == \A c \in Callers : pc[c] # "panic"

\* Where a caller, and the loop it spawned, may take their next step.
In(c, label) == Alive /\ pc[c] = label
LoopIn(c, label) == Alive /\ loop[c] = label

Goto(c, label) == pc' = [pc EXCEPT ![c] = label]

\* The call returns; Run's and Stop's errors are what failed is about.
Return(c, err) ==
  /\ Goto(c, "idle")
  /\ failed' = [failed EXCEPT ![c] = err]

server == <<running, cancelFunc, cancelled, loop, node, beacon, store>>
locks  == <<mu, dbMu>>

--------------------------------------------------------------------------------
(***************************************************************************)
(* Run.                                                                    *)
(***************************************************************************)

\* validateRunPreconditions.
CallRun(c) ==
  /\ In(c, "idle")
  /\ IF ~running /\ node # "nil"
     THEN Goto(c, "start") /\ failed' = [failed EXCEPT ![c] = FALSE]
     ELSE Return(c, TRUE)
  /\ UNCHANGED <<server, locks>>

\* Mutant: the error of node.Start is ignored.
StartNodeAgain(c) ==
  /\ In(c, "start")
  /\ node' = "started"
  /\ Goto(c, IF Initialized THEN "spawn" ELSE "init lock")
  /\ UNCHANGED <<running, cancelFunc, cancelled, loop, beacon, store, locks, failed>>

\* Mutant: running is stored as soon as the node has started.
StartNodeRunning(c) ==
  /\ In(c, "start")
  /\ node = "new"
  /\ node' = "started"
  /\ running' = TRUE
  /\ Goto(c, IF Initialized THEN "spawn" ELSE "init lock")
  /\ UNCHANGED <<cancelFunc, cancelled, loop, beacon, store, locks, failed>>

\* s.node.Start: geth closes a node that cannot start, and refuses one that is
\* running or closed; s.node may have become nil since it was validated.
StartNode(c) ==
  /\ In(c, "start")
  /\ \/ /\ node = "new"
        /\ node' = "started"
        /\ Goto(c, IF Initialized THEN "spawn" ELSE "init lock")
        /\ UNCHANGED failed
     \/ /\ node = "new"
        /\ "startFails" \in Env
        /\ node' = "closed"
        /\ Return(c, TRUE)
     \/ /\ node \in {"started", "closed"}
        /\ Return(c, TRUE)
        /\ UNCHANGED node
     \/ /\ node = "nil"
        /\ Goto(c, "panic")
        /\ UNCHANGED <<node, failed>>
  /\ UNCHANGED <<running, cancelFunc, cancelled, loop, beacon, store, locks>>

\* ensureChainInitialized waits for s.mu in GenerateBlocks ...
InitLock(c) ==
  /\ In(c, "init lock")
  /\ mu = NoCaller
  /\ mu' = <<c, "caller">>
  /\ Goto(c, "init")
  /\ UNCHANGED <<server, dbMu, failed>>

\* ... and generates the initial block, or makes Run fail as it is.
InitChain(c) ==
  /\ In(c, "init")
  /\ mu' = NoCaller
  /\ \/ Goto(c, "spawn") /\ UNCHANGED failed
     \/ "initFails" \in Env /\ Return(c, TRUE)
  /\ UNCHANGED <<server, dbMu>>

\* The context, the clock, s.wg.Add(1) and the goroutine.
SpawnLoop(c) ==
  /\ In(c, "spawn")
  /\ cancelFunc' = c
  /\ loop' = [loop EXCEPT ![c] = "idle"]
  /\ Goto(c, "serve")
  /\ UNCHANGED <<running, cancelled, node, beacon, store, locks, failed>>

Serve(c) ==
  /\ In(c, "serve")
  /\ running' = TRUE
  /\ Return(c, FALSE)
  /\ UNCHANGED <<cancelFunc, cancelled, loop, node, beacon, store, locks>>

--------------------------------------------------------------------------------
(***************************************************************************)
(* The main loop c's Run spawned.                                          *)
(***************************************************************************)

\* The ticker: nextTick waits for s.mu ...
LoopTick(c) ==
  /\ LoopIn(c, "idle")
  /\ AutoMining
  /\ loop' = [loop EXCEPT ![c] = "lock"]
  /\ UNCHANGED <<running, cancelFunc, cancelled, node, beacon, store, locks, pc, failed>>

LoopLock(c) ==
  /\ LoopIn(c, "lock")
  /\ mu = NoCaller
  /\ mu' = <<c, "loop">>
  /\ loop' = [loop EXCEPT ![c] = "tick"]
  /\ UNCHANGED <<running, cancelFunc, cancelled, node, beacon, store, dbMu, pc, failed>>

\* ... and uses the chain and the beacon until it gives it back.
LoopUnlock(c) ==
  /\ LoopIn(c, "tick")
  /\ mu' = NoCaller
  /\ loop' = [loop EXCEPT ![c] = "idle"]
  /\ UNCHANGED <<running, cancelFunc, cancelled, node, beacon, store, dbMu, pc, failed>>

\* Mutant: the loop ranges over its ticker, without a select.
LoopReturnDeaf(c) ==
  /\ LoopIn(c, "idle")
  /\ ~AutoMining
  /\ loop' = [loop EXCEPT ![c] = "gone"]
  /\ UNCHANGED <<running, cancelFunc, cancelled, node, beacon, store, locks, pc, failed>>

\* runMainLoop returns: nothing to do, cancelled, or MaxDuration is over; its
\* deferred s.wg.Done() is what Stop waits for.
LoopReturn(c) ==
  /\ LoopIn(c, "idle")
  /\ ~AutoMining \/ c \in cancelled \/ "expire" \in Env
  /\ loop' = [loop EXCEPT ![c] = "gone"]
  /\ UNCHANGED <<running, cancelFunc, cancelled, node, beacon, store, locks, pc, failed>>

\* Whoever passed the context to Run cancels it.
Cancel(c) ==
  /\ "cancel" \in Env
  /\ Alive
  /\ loop[c] # "none"
  /\ c \notin cancelled
  /\ cancelled' = cancelled \cup {c}
  /\ UNCHANGED <<running, cancelFunc, loop, node, beacon, store, locks, pc, failed>>

--------------------------------------------------------------------------------
(***************************************************************************)
(* Stop.                                                                   *)
(***************************************************************************)

\* running.CompareAndSwap(true, false).
CallStop(c) ==
  /\ In(c, "idle")
  /\ IF running
     THEN Goto(c, "cancel") /\ failed' = [failed EXCEPT ![c] = FALSE]
     ELSE Return(c, TRUE)
  /\ running' = FALSE
  /\ UNCHANGED <<cancelFunc, cancelled, loop, node, beacon, store, locks>>

\* Mutant: cancelFunc is dropped without being called.
CancelLoopNot(c) ==
  /\ In(c, "cancel")
  /\ cancelFunc' = NoCaller
  /\ Goto(c, "wait")
  /\ UNCHANGED <<running, cancelled, loop, node, beacon, store, locks, failed>>

CancelLoop(c) ==
  /\ In(c, "cancel")
  /\ cancelled' = cancelled \cup ({cancelFunc} \ {NoCaller})
  /\ cancelFunc' = NoCaller
  /\ Goto(c, "wait")
  /\ UNCHANGED <<running, loop, node, beacon, store, locks, failed>>

\* s.wg.Wait() returns.
LoopsGone == \A c \in Callers : loop[c] \in {"none", "gone"}

\* Mutant: Stop does not wait for the loop.
WaitLoopNot(c) ==
  /\ In(c, "wait")
  /\ Goto(c, "store lock")
  /\ UNCHANGED <<server, locks, failed>>

\* Mutant: an expired context is not reported.
WaitLoopSilently(c) ==
  /\ In(c, "wait")
  /\ \/ LoopsGone /\ Goto(c, "store lock") /\ UNCHANGED failed
     \/ "stopExpires" \in Env /\ Return(c, FALSE)
  /\ UNCHANGED <<server, locks>>

\* select: the loop is gone, or the caller's context is done first and Stop
\* leaves everything as it is.
WaitLoop(c) ==
  /\ In(c, "wait")
  /\ \/ /\ LoopsGone
        /\ Goto(c, "store lock")
        /\ UNCHANGED failed
     \/ /\ "stopExpires" \in Env
        /\ Return(c, TRUE)
  /\ UNCHANGED <<server, locks>>

\* Mutant: the store is closed without its mutex.
LockStoreNot(c) ==
  /\ In(c, "store lock")
  /\ Goto(c, IF store = "nil" THEN "store nil" ELSE "store close")
  /\ UNCHANGED <<server, locks, failed>>

LockStore(c) ==
  /\ In(c, "store lock")
  /\ dbMu = NoCaller
  /\ dbMu' = c
  /\ Goto(c, IF store = "nil" THEN "store nil" ELSE "store close")
  /\ UNCHANGED <<server, mu, failed>>

\* An error of a close is kept for the end and stops nothing.
MayFail(c) ==
  \/ UNCHANGED failed
  \/ "closeFails" \in Env /\ failed' = [failed EXCEPT ![c] = TRUE]

CloseStore(c) ==
  /\ In(c, "store close")
  /\ store' = "closed"
  /\ MayFail(c)
  /\ Goto(c, "store nil")
  /\ UNCHANGED <<running, cancelFunc, cancelled, loop, node, beacon, locks>>

UnlockStore(c) ==
  /\ In(c, "store nil")
  /\ store' = "nil"
  /\ dbMu' = NoCaller
  /\ Goto(c, "beacon stop")
  /\ UNCHANGED <<running, cancelFunc, cancelled, loop, node, beacon, mu, failed>>

\* Mutant: an error of beacon.Stop makes Stop return.
StopBeaconOrReturn(c) ==
  /\ In(c, "beacon stop")
  /\ beacon' = FALSE
  /\ \/ Goto(c, "node close") /\ UNCHANGED failed
     \/ "closeFails" \in Env /\ Return(c, TRUE)
  /\ UNCHANGED <<running, cancelFunc, cancelled, loop, node, store, locks>>

StopBeacon(c) ==
  /\ In(c, "beacon stop")
  /\ beacon' = FALSE
  /\ MayFail(c)
  /\ Goto(c, IF node = "nil" THEN "node nil" ELSE "node close")
  /\ UNCHANGED <<running, cancelFunc, cancelled, loop, node, store, locks>>

CloseNode(c) ==
  /\ In(c, "node close")
  /\ node' = "closed"
  /\ MayFail(c)
  /\ Goto(c, "node nil")
  /\ UNCHANGED <<running, cancelFunc, cancelled, loop, beacon, store, locks>>

\* s.node = nil, and Stop returns the collected errors.
EndStop(c) ==
  /\ In(c, "node nil")
  /\ node' = "nil"
  /\ Return(c, failed[c])
  /\ UNCHANGED <<running, cancelFunc, cancelled, loop, beacon, store, locks>>

--------------------------------------------------------------------------------
(***************************************************************************)
(* The calls that use what Stop takes away.                                *)
(***************************************************************************)

\* GenerateBlocks does not ask whether the server is running.
CallGenerateBlocks(c) ==
  /\ In(c, "idle")
  /\ Goto(c, "chain lock")
  /\ UNCHANGED <<server, locks, failed>>

\* Mine, PrintStatus, DeployContract and ContractTransact ask first, StoreValue,
\* RetrieveValue and DeleteValue too, and HTTPEndpoint and WSEndpoint.
CallUser(c, label) ==
  /\ In(c, "idle")
  /\ running
  /\ Goto(c, label)
  /\ UNCHANGED <<server, locks, failed>>

UserLabels == {"chain lock", "kv lock", "endpoint check"}

LockChain(c) ==
  /\ In(c, "chain lock")
  /\ mu = NoCaller
  /\ mu' = <<c, "caller">>
  /\ Goto(c, "chain")
  /\ UNCHANGED <<server, dbMu, failed>>

\* The blocks are generated, or refused by a chain that was closed meanwhile.
UseChain(c) ==
  /\ In(c, "chain")
  /\ mu' = NoCaller
  /\ Goto(c, "idle")
  /\ UNCHANGED <<server, dbMu, failed>>

LockKV(c) ==
  /\ In(c, "kv lock")
  /\ dbMu = NoCaller
  /\ dbMu' = c
  /\ Goto(c, "kv check")
  /\ UNCHANGED <<server, mu, failed>>

\* Mutant: the return for a store that is gone forgets the mutex.
CheckKVLocked(c) ==
  /\ In(c, "kv check")
  /\ Goto(c, IF store = "nil" THEN "idle" ELSE "kv")
  /\ UNCHANGED <<server, locks, failed>>

\* Under s.stateDBMu: is there a store, then Get, Set or Delete on it.
CheckKV(c) ==
  /\ In(c, "kv check")
  /\ \/ /\ store # "nil"
        /\ Goto(c, "kv")
        /\ UNCHANGED dbMu
     \/ /\ store = "nil"
        /\ Goto(c, "idle")
        /\ dbMu' = NoCaller
  /\ UNCHANGED <<server, mu, failed>>

UseKV(c) ==
  /\ In(c, "kv")
  /\ dbMu' = NoCaller
  /\ Goto(c, "idle")
  /\ UNCHANGED <<server, mu, failed>>

\* The second half of the endpoints' check ...
CheckEndpoint(c) ==
  /\ In(c, "endpoint check")
  /\ Goto(c, IF node = "nil" THEN "idle" ELSE "endpoint")
  /\ UNCHANGED <<server, locks, failed>>

\* ... and the method call on what s.node is by then.
UseEndpoint(c) ==
  /\ In(c, "endpoint")
  /\ Goto(c, IF node = "nil" THEN "panic" ELSE "idle")
  /\ UNCHANGED <<server, locks, failed>>

--------------------------------------------------------------------------------

Call(c) ==
  \/ CallRun(c) \/ CallStop(c) \/ CallGenerateBlocks(c)
  \/ \E label \in UserLabels : CallUser(c, label)

Acquire(c) == InitLock(c) \/ LockStore(c) \/ LockChain(c) \/ LockKV(c)

Step(c) ==
  \/ StartNode(c) \/ InitChain(c) \/ SpawnLoop(c) \/ Serve(c)
  \/ CancelLoop(c) \/ WaitLoop(c) \/ CloseStore(c) \/ UnlockStore(c)
  \/ StopBeacon(c) \/ CloseNode(c) \/ EndStop(c)
  \/ UseChain(c) \/ CheckKV(c) \/ UseKV(c) \/ CheckEndpoint(c) \/ UseEndpoint(c)

LoopStep(c) == LoopTick(c) \/ LoopLock(c) \/ LoopUnlock(c) \/ LoopReturn(c)

\* The process is gone.
Dead == ~Alive /\ UNCHANGED vars

Next ==
  \/ \E c \in Callers : Call(c) \/ Acquire(c) \/ Step(c) \/ LoopStep(c) \/ Cancel(c)
  \/ Dead

Spec == Init /\ [][Next]_vars

\* c's Stop leaves the loop to itself: its context is done.
GivesUp(c) == pc[c] = "wait" /\ failed'[c]

\* A goroutine inside a call runs on; a mutex is handed to a waiter that
\* starved; a select whose ctx.Done() stays ready takes it sooner or later,
\* even when its ticker is ready every time.  Contexts and timers need not end.
Fairness ==
  \A c \in Callers :
    /\ WF_vars(Step(c) /\ ~GivesUp(c))
    /\ SF_vars(Acquire(c))
    /\ SF_vars(LoopLock(c))
    /\ WF_vars(LoopUnlock(c))
    /\ SF_vars((c \in cancelled \/ ~AutoMining) /\ LoopReturn(c))

FairSpec == Spec /\ Fairness

--------------------------------------------------------------------------------
(***************************************************************************)
(* Properties that hold.                                                   *)
(***************************************************************************)

Resources == {"store", "beacon", "node"}

\* What is not closed yet.
Open ==
  {r \in Resources : \/ r = "store" /\ store = "open"
                     \/ r = "beacon" /\ beacon
                     \/ r = "node" /\ node \in {"new", "started"}}

Work ==
  IF \A c \in Callers : loop[c] = "none" THEN "never"
  ELSE IF LoopsGone THEN "over" ELSE "working"

At(labels) == \E c \in Callers : pc[c] \in labels

\* The life of the server, read off its fields and callers.
Phase ==
  IF node = "new" THEN "created"
  ELSE IF running THEN "serving"
  ELSE IF At(StopLabels) THEN "draining"
  ELSE IF At(StartLabels) THEN "starting"
  ELSE IF node = "nil" THEN "stopped"
  ELSE IF Work = "never" THEN "failed" ELSE "abandoned"

Abs == INSTANCE OneShotServer WITH phase <- Phase, work <- Work, open <- Open

\* However Run, Stop and the rest are called concurrently, the server lives
\* once: one start that succeeds or is never tried again, one main loop, one Stop
\* that releases every resource exactly once, errors of a close notwithstanding,
\* and only after the loop is gone.  The one resource that is released outside a
\* Stop is a node that cannot start; what is open then no Stop releases.
ImplementsOneShotServer == Abs!Spec

\* A caller that saw running may count on everything Run set up, and so may the
\* Stop that wins the compare-and-swap.
RunningIsUsable ==
  running => Open = Resources /\ node = "started" /\ cancelFunc # NoCaller

\* A tick never works on a node or a beacon that Stop has closed (Stop waits for
\* s.wg before it closes anything).
LoopHasItsNode ==
  (\E c \in Callers : loop[c] \in {"lock", "tick"}) => node = "started" /\ beacon

\* StoreValue, RetrieveValue and DeleteValue never touch a closed store, although
\* they test running long before they use it (s.stateDBMu and the nil test).
StoreUsedOpen == \A c \in Callers : pc[c] = "kv" => store = "open"

\* Whom a goroutine inside a call may have to wait for: the holder of a mutex,
\* who is using the chain, the store or the beacon and takes no other mutex, or
\* the main loop, which has then been told to end.  So no two goroutines wait for
\* each other, a mutex that was taken is on its way back on every path out of a
\* call, and Stop never waits for a loop that nobody cancelled.
WaitsEnd ==
  /\ mu # NoCaller =>
       \E c \in Callers : \/ mu = <<c, "caller">> /\ pc[c] \in {"init", "chain"}
                          \/ mu = <<c, "loop">> /\ loop[c] = "tick"
  /\ dbMu # NoCaller => pc[dbMu] \in {"store close", "store nil", "kv check", "kv"}
  /\ \A c, d \in Callers :
       pc[c] = "wait" /\ loop[d] \in {"idle", "lock", "tick"} => d \in cancelled

\* A Stop that reports success has released everything after the loop was gone:
\* neither an expired context nor a failed close passes for success.
SuccessMeansReleased ==
  [][ \A c \in Callers :
        pc[c] \in StopLabels /\ pc'[c] = "idle" /\ ~failed'[c] =>
          Open' = {} /\ LoopsGone' ]_vars

\* Every Stop returns, even one that waits for the loop without a deadline while
\* other callers compete for the mutexes the loop and Stop need, and by then it
\* has either released everything or abandoned everything.
StopReturns ==
  \A c \in Callers :
    pc[c] \in StopLabels ~> (pc[c] = "idle" /\ Open \in {{}, Resources}) \/ ~Alive

\* The main loop ends once its context is done, whoever cancelled it, although
\* its ticker stays ready ("Stopping mining due to context cancellation").
CancelledLoopEnds == \A c \in Callers : c \in cancelled ~> loop[c] = "gone" \/ ~Alive

--------------------------------------------------------------------------------
(***************************************************************************)
(* What the code says of itself and does not do.                           *)
(***************************************************************************)

\* "ETHTestServer: node not initialized" (ethtestserver.go:455) is what a call
\* that finds no node reports; it never dereferences nil.
NoNilNode == Alive

================================================================================
