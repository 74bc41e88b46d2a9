------------------------------ MODULE ChainMining ------------------------------
(***************************************************************************)
(* Block production in ETHTestServer: GenerateBlocks, Mine and the main    *)
(* loop's nextTick, run by goroutines that share the geth blockchain and   *)
(* the statistics under the mutex s.mu.                                    *)
(*                                                                         *)
(* The actors are the goroutine that calls Run (it generates the initial   *)
(* block and starts the loop), the main loop, and the clients: tests,      *)
(* DeployContract / ContractTransact callers and monkey operators, all of  *)
(* which reach the chain through GenerateBlocks or Mine.  The window is    *)
(* from NewETHTestServer to Stop; shutting down is another module's.       *)
(*                                                                         *)
(* Calls into geth are separate steps, so that an actor that did not hold  *)
(* the mutex would be seen by the others between any two of them.          *)
(***************************************************************************)
EXTENDS ChainConfig

CONSTANTS
  Clients,      \* goroutines that call the exported API
  Runner,       \* the goroutine that calls Run
  Loop,         \* the goroutine of runMainLoop
  NoActor,      \* the mutex is free
  AutoMining,   \* config.AutoMining
  Initialized,  \* s.initialized: genesis.json existed when the server was opened
  Word,         \* number of values of a uint64 counter
  Env           \* what the environment may do, a subset of EnvEvents

EnvEvents ==
  { "callbackFails",  \* the caller's blockGenFn returns an error
    "insertFails",    \* bc.InsertChain stops in the middle of the batch
    "indexTimesOut",  \* the transaction index is not ready within 5 seconds
    "forkRefused",    \* beacon.Fork returns an error
    "sealFails",      \* beacon.Commit seals nothing, which it does not report
    "cancel",         \* the context passed to Run is cancelled
    "expire" }        \* config.MaxDuration > 0, and that much time can pass

ASSUME ActorAssumption ==
  /\ Runner # Loop
  /\ Runner \notin Clients
  /\ Loop \notin Clients
  /\ NoActor \notin Clients \cup {Runner, Loop}
  /\ AutoMining \in BOOLEAN
  /\ Initialized \in BOOLEAN
  /\ Word \in Nat \ {0}
  /\ Env \subseteq EnvEvents

Actors == Clients \cup {Runner, Loop}

VARIABLES
  chain,    \* the canonical chain of s.ethereum.BlockChain()
  mu,       \* the holder of s.mu, or NoActor
  pc,       \* where each actor is
  op,       \* the operation an actor is performing
  batch,    \* its argument n
  base,     \* latestBlock: the canonical chain when the actor read the head
  blocks,   \* the blocks GenerateChain returned to the actor
  result,   \* how the actor's operation is about to return
  target,   \* blockNumber argument of simulateForkUnlocked
  running,  \* s.running
  expired,  \* time.Since(s.startTime) >= config.MaxDuration
  stats,    \* s.stats: BlocksMined, TxCount, and the block that CurrentBlock
            \* and CurrentBlockHash name (the rates need a clock and are left out)
  counted   \* history: every block that came or went was put into stats

vars == <<chain, mu, pc, op, batch, base, blocks, result, target, running,
          expired, stats, counted>>
locals == <<op, batch, base, blocks, result, target>>

PC == {"boot", "off", "idle", "lock", "check", "generate", "insert", "index",
       "fork", "rewind", "seal", "unlock", "spawn", "spawned", "failed", "exited"}

Results == {"none", "ok", "limit", "error"}

\* Types.  The target of a fork is a block number (maybeSimulateFork subtracts
\* the drawn depth from the height, as ints).
TypeOK ==
  /\ chain \in Chain
  /\ mu \in Actors \cup {NoActor}
  /\ pc \in [Actors -> PC]
  /\ op \in [Actors -> {"generate", "mine", "tick"}]
  /\ batch \in [Actors -> 0..MaxBatch]
  /\ base \in [Actors -> Chain]
  /\ blocks \in [Actors -> Chain]
  /\ result \in [Actors -> Results]
  /\ target \in Nat
  /\ running \in BOOLEAN
  /\ expired \in BOOLEAN
  /\ stats \in [mined : 0..Word-1, txs : 0..Word-1, latest : Chain]
  /\ counted \in BOOLEAN

\* What op holds between operations; the loop and the runner have only this one.
IdleOp(a) == IF a = Loop THEN "tick" ELSE "generate"

Init ==
  /\ chain = StartChain
  /\ mu = NoActor
  /\ pc = [a \in Actors |-> IF a = Runner THEN "boot"
                            ELSE IF a = Loop THEN "off" ELSE "idle"]
  /\ op = [a \in Actors |-> IdleOp(a)]
  /\ batch = [a \in Actors |-> 1]
  /\ base = [a \in Actors |-> << >>]
  /\ blocks = [a \in Actors |-> << >>]
  /\ result = [a \in Actors |-> "none"]
  /\ target = 0
  /\ running = FALSE
  /\ expired = FALSE
  /\ stats = [mined |-> 0, txs |-> 0, latest |-> << >>]
  /\ counted = TRUE

Goto(a, label) == pc' = [pc EXCEPT ![a] = label]

--------------------------------------------------------------------------------
(***************************************************************************)
(* Calls.                                                                  *)
(***************************************************************************)

\* A client calls GenerateBlocks(n, fn); it does not need a running server.
CallGenerateBlocks(c, n) ==
  /\ pc[c] = "idle"
  /\ Goto(c, "lock")
  /\ op' = [op EXCEPT ![c] = "generate"]
  /\ batch' = [batch EXCEPT ![c] = n]
  /\ UNCHANGED <<chain, mu, base, blocks, result, target, running, expired, stats, counted>>

\* A client calls Mine, which refuses before the mutex unless running.
CallMine(c) ==
  /\ pc[c] = "idle"
  /\ running
  /\ Goto(c, "lock")
  /\ op' = [op EXCEPT ![c] = "mine"]
  /\ batch' = [batch EXCEPT ![c] = 1]
  /\ UNCHANGED <<chain, mu, base, blocks, result, target, running, expired, stats, counted>>

\* The ticker fires and the loop calls nextTick.
Tick ==
  /\ pc[Loop] = "idle"
  /\ Goto(Loop, "lock")
  /\ UNCHANGED <<chain, mu, locals, running, expired, stats, counted>>

\* ensureChainInitialized: GenerateBlocks(1, nil), only on a new data directory.
EnsureChainInitialized ==
  /\ pc[Runner] = "boot"
  /\ Goto(Runner, IF Initialized THEN "spawn" ELSE "lock")
  /\ UNCHANGED <<chain, mu, locals, running, expired, stats, counted>>

\* Run starts the clock and the main loop; without AutoMining the loop returns.
Spawn ==
  /\ pc[Runner] = "spawn"
  /\ pc' = [pc EXCEPT ![Runner] = "spawned",
                      ![Loop] = IF AutoMining THEN "idle" ELSE "exited"]
  /\ UNCHANGED <<chain, mu, locals, running, expired, stats, counted>>

\* The last statement of Run; the loop may have ticked before it.
SetRunning ==
  /\ pc[Runner] = "spawned"
  /\ running' = TRUE
  /\ Goto(Runner, "idle")
  /\ UNCHANGED <<chain, mu, locals, expired, stats, counted>>

\* select takes ctx.Done(), at any time when Run's context may be cancelled.
LoopCancelled ==
  /\ pc[Loop] = "idle"
  /\ "cancel" \in Env
  /\ Goto(Loop, "exited")
  /\ UNCHANGED <<chain, mu, locals, running, expired, stats, counted>>

\* Mutant: the timer is armed only when the data directory was not new.
LoopTimedOutIfOld ==
  /\ pc[Loop] = "idle"
  /\ expired /\ Initialized
  /\ Goto(Loop, "exited")
  /\ UNCHANGED <<chain, mu, locals, running, expired, stats, counted>>

\* select takes the MaxDuration timer.
LoopTimedOut ==
  /\ pc[Loop] = "idle"
  /\ expired
  /\ Goto(Loop, "exited")
  /\ UNCHANGED <<chain, mu, locals, running, expired, stats, counted>>

\* MaxDuration elapses after Run set startTime.
Expire ==
  /\ "expire" \in Env
  /\ pc[Runner] \in {"spawned", "idle"}
  /\ ~expired
  /\ expired' = TRUE
  /\ UNCHANGED <<chain, mu, pc, locals, running, stats, counted>>

--------------------------------------------------------------------------------
(***************************************************************************)
(* Under the mutex: the limit, GenerateChain, InsertChain, the index.      *)
(***************************************************************************)

\* Mutant: a read lock, which does not exclude the other holders.
LockShared(a) ==
  /\ pc[a] = "lock"
  /\ mu' = a
  /\ Goto(a, "check")
  /\ UNCHANGED <<chain, locals, running, expired, stats, counted>>

\* s.mu.Lock() at the head of GenerateBlocks, Mine and nextTick.
Lock(a) ==
  /\ pc[a] = "lock"
  /\ mu = NoActor
  /\ mu' = a
  /\ Goto(a, "check")
  /\ UNCHANGED <<chain, locals, running, expired, stats, counted>>

\* Where an operation goes once its generation part is over.
AfterGeneration(a) == IF op[a] = "tick" THEN "fork" ELSE "unlock"

Finish(a, r) ==
  /\ Goto(a, AfterGeneration(a))
  /\ result' = [result EXCEPT ![a] = r]

\* The guards: GenerateBlocks reports the limit and refuses n <= 0, while
\* maybeGenerateBlock treats both limits as success without a block.
Check(a) ==
  /\ pc[a] = "check"
  /\ LET limited == LimitReached(Len(chain))
         skipped == limited \/ expired
     IN \/ /\ op[a] = "generate"
           /\ limited
           /\ Finish(a, "limit")
        \/ /\ op[a] = "generate"
           /\ ~limited
           /\ batch[a] = 0
           /\ Finish(a, "error")
        \/ /\ op[a] # "generate"
           /\ skipped
           /\ Finish(a, "ok")
        \/ /\ op[a] = "generate" => ~limited /\ batch[a] > 0
           /\ op[a] # "generate" => ~skipped
           /\ Goto(a, "generate")
           /\ UNCHANGED result
  /\ UNCHANGED <<chain, mu, op, batch, base, blocks, target, running, expired, stats, counted>>

\* Run passes no callback; the others fill the blocks as they like.
Contents(a) == IF a = Runner THEN {Empty} ELSE Payloads

\* generateBlocksUnlocked reads the head and builds the batch on it; an error
\* from the callback drops the whole batch.  Only a client's own callback can
\* return one: the one of maybeGenerateBlock returns nil.
Generate(a) ==
  /\ pc[a] = "generate"
  /\ \/ /\ \E bs \in [1..batch[a] -> Contents(a)] : blocks' = [blocks EXCEPT ![a] = bs]
        /\ base' = [base EXCEPT ![a] = chain]
        /\ Goto(a, "insert")
        /\ UNCHANGED result
     \/ /\ a \in Clients /\ op[a] = "generate"
        /\ "callbackFails" \in Env
        /\ Finish(a, "error")
        /\ UNCHANGED <<base, blocks>>
  /\ UNCHANGED <<chain, mu, op, batch, target, running, expired, stats, counted>>

\* Mutant: the mutex is released before waiting for the transaction index.
InsertUnlocked(a) ==
  /\ pc[a] = "insert"
  /\ chain' = base[a] \o blocks[a]
  /\ mu' = NoActor
  /\ Goto(a, "index")
  /\ UNCHANGED <<op, batch, base, blocks, result, target, running, expired, stats, counted>>

\* bc.InsertChain makes the batch canonical on top of its own parent; when it
\* fails, the blocks before the failing one stay (the index is discarded).
Insert(a) ==
  /\ pc[a] = "insert"
  /\ \/ /\ chain' = base[a] \o blocks[a]
        /\ Goto(a, "index")
        /\ UNCHANGED <<result, counted>>
     \/ /\ "insertFails" \in Env
        /\ \E k \in 0..(batch[a] - 1) :
             /\ chain' = IF k = 0 THEN chain ELSE base[a] \o SubSeq(blocks[a], 1, k)
             /\ counted' = (counted /\ k = 0)
        /\ Finish(a, "error")
  /\ UNCHANGED <<mu, op, batch, base, blocks, target, running, expired, stats>>

\* Mutant: one block is counted per batch, the latest.
UpdateStatsOncePerBatch(a) ==
  stats' = [mined  |-> (stats.mined + 1) % Word,
            txs    |-> (stats.txs + TxsIn[blocks[a][Len(blocks[a])]]) % Word,
            latest |-> base[a] \o blocks[a]]

\* Mutant: the transactions of the latest block only are counted.
UpdateStatsLatestTxs(a) ==
  stats' = [mined  |-> (stats.mined + Len(blocks[a])) % Word,
            txs    |-> (stats.txs + TxsIn[blocks[a][Len(blocks[a])]]) % Word,
            latest |-> base[a] \o blocks[a]]

\* updateStatsAfterBlockGen.
UpdateStats(a) ==
  stats' = [mined  |-> (stats.mined + Len(blocks[a])) % Word,
            txs    |-> (stats.txs + Cardinality(TxsOf(blocks[a]))) % Word,
            latest |-> base[a] \o blocks[a]]

\* waitForTxIndexing, then the statistics; a timeout skips them and returns an
\* error although the blocks are canonical.
Index(a) ==
  /\ pc[a] = "index"
  /\ \/ /\ UpdateStats(a)
        /\ Finish(a, "ok")
        /\ UNCHANGED counted
     \/ /\ "indexTimesOut" \in Env
        /\ Finish(a, "error")
        /\ counted' = FALSE
        /\ UNCHANGED stats
  /\ UNCHANGED <<chain, mu, op, batch, base, blocks, target, running, expired>>

--------------------------------------------------------------------------------
(***************************************************************************)
(* The simulated fork of a tick, reached whether or not a block was made.  *)
(***************************************************************************)

\* Mutant: a fork of depth 0 is simulated too.
MaybeSimulateForkAtHead ==
  /\ pc[Loop] = "fork"
  /\ \/ Goto(Loop, "unlock") /\ UNCHANGED target
     \/ /\ ReorgEnabled
        /\ \E d \in ReorgDepthMin..ReorgDepthMax :
             /\ Clamp(d, Len(chain)) >= 0
             /\ target' = ForkPoint(d, Len(chain))
             /\ Goto(Loop, "rewind")
  /\ UNCHANGED <<chain, mu, op, batch, base, blocks, result, running, expired, stats, counted>>

\* maybeSimulateFork: draw, read the height, clamp the depth.
MaybeSimulateFork ==
  /\ pc[Loop] = "fork"
  /\ \/ /\ Goto(Loop, "unlock")   \* disabled, or not drawn this time
        /\ UNCHANGED target
     \/ /\ ReorgEnabled
        /\ \E d \in ReorgDepthMin..ReorgDepthMax :
             IF Clamp(d, Len(chain)) > 0
             THEN /\ target' = ForkPoint(d, Len(chain))
                  /\ Goto(Loop, "rewind")
             ELSE /\ Goto(Loop, "unlock")
                  /\ UNCHANGED target
  /\ UNCHANGED <<chain, mu, op, batch, base, blocks, result, running, expired, stats, counted>>

\* simulateForkUnlocked: beacon.Fork makes the block at target canonical.
Rewind ==
  /\ pc[Loop] = "rewind"
  /\ \/ /\ target \in 0..Len(chain)
        /\ chain' = SubSeq(chain, 1, target)
        /\ counted' = FALSE
        /\ Goto(Loop, "seal")
        /\ UNCHANGED result
     \/ /\ "forkRefused" \in Env \/ target \notin 0..Len(chain)
        /\ Goto(Loop, "unlock")
        /\ result' = [result EXCEPT ![Loop] = "error"]
        /\ UNCHANGED <<chain, counted>>
  /\ UNCHANGED <<mu, op, batch, base, blocks, target, running, expired, stats>>

\* beacon.Rollback empties the pool; beacon.Commit seals on the current head.
\* The hash Commit returns is dropped, so its failure goes unnoticed.
Seal ==
  /\ pc[Loop] = "seal"
  /\ \/ \E p \in Payloads : chain' = Append(chain, p)
     \/ "sealFails" \in Env /\ UNCHANGED chain
  /\ Goto(Loop, "unlock")
  /\ UNCHANGED <<mu, locals, running, expired, stats, counted>>

\* The locals of an operation die with it.
DropLocals(a) ==
  /\ op' = [op EXCEPT ![a] = IdleOp(a)]
  /\ batch' = [batch EXCEPT ![a] = 1]
  /\ base' = [base EXCEPT ![a] = << >>]
  /\ blocks' = [blocks EXCEPT ![a] = << >>]
  /\ result' = [result EXCEPT ![a] = "none"]
  /\ target' = IF a = Loop THEN 0 ELSE target

\* Where an actor goes on when its operation has returned.
AfterReturn(a) ==
  IF a # Runner THEN "idle" ELSE IF result[a] = "ok" THEN "spawn" ELSE "failed"

\* Mutant: the loop keeps the mutex from one tick to the next.
UnlockNever(a) ==
  /\ pc[a] = "unlock"
  /\ mu' = IF a = Loop THEN mu ELSE NoActor
  /\ Goto(a, IF a = Loop THEN "check" ELSE AfterReturn(a))
  /\ DropLocals(a)
  /\ UNCHANGED <<chain, running, expired, stats, counted>>

\* Mutant: Run tries the initial block again until it succeeds.
UnlockRetry(a) ==
  /\ pc[a] = "unlock"
  /\ mu' = NoActor
  /\ Goto(a, IF a = Runner /\ result[a] # "ok" THEN "lock" ELSE AfterReturn(a))
  /\ DropLocals(a)
  /\ UNCHANGED <<chain, running, expired, stats, counted>>

\* The deferred s.mu.Unlock().
Unlock(a) ==
  /\ pc[a] = "unlock"
  /\ mu' = NoActor
  /\ Goto(a, AfterReturn(a))
  /\ DropLocals(a)
  /\ UNCHANGED <<chain, running, expired, stats, counted>>

--------------------------------------------------------------------------------

\* The steps an actor takes inside an operation once it holds the mutex.
Work(a) == Check(a) \/ Generate(a) \/ Insert(a) \/ Index(a) \/ Unlock(a)

Fork == MaybeSimulateFork \/ Rewind \/ Seal

LoopExit == LoopCancelled \/ LoopTimedOut

Next ==
  \/ \E c \in Clients : CallMine(c) \/ \E n \in 0..MaxBatch : CallGenerateBlocks(c, n)
  \/ \E a \in Actors : Lock(a) \/ Work(a)
  \/ Fork
  \/ EnsureChainInitialized \/ Spawn \/ SetRunning
  \/ Tick \/ LoopExit \/ Expire

Spec == Init /\ [][Next]_vars

\* A goroutine that can run does run; sync.Mutex hands the lock to a waiter
\* that starved (starvation mode); select picks uniformly among ready cases,
\* so a case that is ready again and again is taken.
Fairness ==
  /\ \A a \in Actors : SF_vars(Lock(a)) /\ WF_vars(Work(a))
  /\ WF_vars(Fork)
  /\ WF_vars(EnsureChainInitialized) /\ WF_vars(Spawn) /\ WF_vars(SetRunning)
  /\ WF_vars(Tick)
  /\ SF_vars(LoopTimedOut)

FairSpec == Spec /\ Fairness

--------------------------------------------------------------------------------
(***************************************************************************)
(* Properties that hold.                                                   *)
(***************************************************************************)

\* What a client of the chain may rely on, whoever calls what.
Abs == INSTANCE LimitedChain WITH forking <- pc[Loop] = "seal"

\* The mining side implements LimitedChain: the many steps of concurrent
\* operations look, on the canonical chain, like one operation at a time.
ImplementsLimitedChain == Abs!Spec

\* However callers interleave, the block limit is exceeded by less than one
\* batch: no two of them pass the limit check on the same head (GenerateBlocks
\* and maybeGenerateBlock check, build and insert under one hold of s.mu).
HeightWithinLimit == Abs!HeightBound

\* A fork removes between ReorgDepthMin and ReorgDepthMax blocks, fewer only to
\* stop at block 1; block 1 and genesis survive every fork of a run.
ReorgInRange == [][Abs!ReorgStep]_chain

\* Generating blocks never orphans one: a batch is inserted on the head it was
\* built on, and only the main loop's simulated fork drops canonical blocks.
OnlyForksOrphan ==
  [][ \/ IsPrefix(chain, chain')
      \/ mu = Loop /\ pc[Loop] = "rewind" ]_chain

\* When GenerateBlocks or Mine returns blocks without an error, the last of them
\* is the head and is what Stats reports, so the receipts DeployContract and
\* ContractTransact read belong to canonical blocks.
ReturnedBlocksCanonical ==
  \A a \in Actors \ {Loop} :
    pc[a] = "unlock" /\ result[a] = "ok" /\ blocks[a] # << >> =>
      /\ chain = base[a] \o blocks[a]
      /\ stats.latest = chain

\* As long as no fork, no failed insertion and no index timeout has moved the
\* chain behind their back, the statistics account for every block above the one
\* the server opened and for every transaction in them, and name the head as soon
\* as a block was generated, however many callers generated them.
StatsExact ==
  counted /\ mu = NoActor =>
    /\ (StartHeight + stats.mined) % Word = Len(chain) % Word
    /\ stats.txs = Cardinality(TxsOf(chain)) % Word
    /\ stats.latest = IF Len(chain) > StartHeight THEN chain ELSE << >>

\* Every call returns, Run's initial block included: an operation that waits for
\* s.mu gets it and gives it back, whatever fails inside, even though the loop
\* and the clients keep competing for it, and Run then serves or fails.
CallsReturn ==
  \A a \in Actors : pc[a] = "lock" ~> pc[a] \in {"idle", "exited", "failed"}

\* An insertion of the loop's that fails, or a fork that seals nothing.
Setback ==
  \/ pc[Loop] = "insert" /\ pc'[Loop] = "fork"
  \/ pc[Loop] = "seal" /\ chain' = chain

\* Automatic mining fills the chain up to MaxBlockNum, and fills it again after
\* every fork of one block, whatever clients do to it, if the loop lives and its
\* insertions and forks stop failing ("Set mining limits by block count",
\* README.md:20).
MinesUpToLimit ==
  (MaxBlockNum > 0 /\ (ReorgEnabled => ReorgDepthMax <= 1)) =>
    ( <>[](pc[Loop] \notin {"off", "exited"} /\ ~expired) /\ <>[][~Setback]_vars
        => []<>(Len(chain) >= MaxBlockNum) )

\* The main loop stops after MaxDuration although its ticker stays ready and
\* clients hold the mutex ("or duration", README.md:20).
LoopStopsAfterMaxDuration == expired ~> pc[Loop] = "exited"

================================================================================
