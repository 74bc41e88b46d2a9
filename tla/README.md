# A TLA+ model of ethtestserver

`ethtestserver` is a Go library that runs a private Ethereum chain inside a test
process: go-ethereum's node, transaction pool and blockchain, blocks produced
locally with `core.GenerateChain`, and chain reorganisations simulated on
purpose. Programs under test talk to it over RPC; "operators" keep it busy with
random transactions. This directory is a verification development of it: TLA+
modules translated from the source, TLC runs over small instances, and theorems
that TLAPS proves for every value of the constants.

## 1. The system

| component | source | state | operations |
|---|---|---|---|
| bootstrap | `ethtestserver.go` `NewETHTestServer` | `genesis.json`, chain database and state store on disk; `initialized` | validate, open the state store, read or write genesis, commit genesis, build node and beacon |
| mining | `ethtestserver.go` `GenerateBlocks`, `generateBlocksUnlocked`, `Mine`, `nextTick`, `maybeGenerateBlock`, `maybeSimulateFork`, `simulateForkUnlocked`, `updateStatsAfterBlockGen` | the canonical chain, `s.mu`, statistics, `startTime`, limits | produce blocks, simulate forks, count |
| lifecycle | `ethtestserver.go` `Run`, `runMainLoop`, `Stop`, `IsRunning`, endpoints | `running`, `cancelFunc`, `wg`, `node`, `beacon`, `stateDB` | start, loop, stop and release |
| state store | `ethtestserver.go` `StoreValue`, `RetrieveValue`, `DeleteValue` | `stateDB` under `stateDBMu` | put, get, delete |
| contracts | `ethtestserver.go` `DeployContract`, `ContractTransact` | none of their own | one block with one transaction, through `GenerateBlocks` |
| transaction selection | `ethtestserver.go` callback of `maybeGenerateBlock` | pending lists of the pool, gas budget | choose the transactions of an automatic block |
| monkey operator | `operator/monkey/monkey.go` | `running`, `stopCh`, `doneCh`, `stopOnce`, ticks | `Run`, ticks, `Stop`, `IsRunning` |
| transaction generators | `cmd/ethtestserver/operators.go` (a copy in `examples/monkeyops`) | deployed contracts, minted amounts, token owners; all but the owners' changes persisted | `Initialize`, `GenerateTransaction` |
| command line | `cmd/ethtestserver/main.go`, `examples/monkeyops/main.go` | an errgroup, contexts | start server and operators, wait, shut down |
| signers, tools, artifacts | `signer.go`, `tools.go`, `artifacts.go` | key caches, an artifact registry | pure helpers and file reading |

### How they interact

* `NewETHTestServer` prepares the disk, the node and the beacon; nothing runs yet,
  but `GenerateBlocks` already works.
* `Run` starts the node, generates an initial block on a new directory and spawns
  the main loop, which at every tick takes `s.mu`, makes a block and perhaps
  simulates a fork.
* Tests, `DeployContract`, `ContractTransact` and every monkey operator call
  `GenerateBlocks` from their own goroutines, under the same `s.mu`.
* Generators keep what they deployed in the state store and expect to find it on
  the chain after a restart.
* `Stop` cancels the loop, waits for it, and closes store, beacon and node. It
  waits for nobody else.

### What is hard about it

* **Concurrency.** Every exported method may be called by any goroutine at any
  time. Some fields are atomic, some under a mutex, some plain; several tests and
  uses of one field are two steps (`Run` and `s.node`, the endpoints, the monkey
  operator's `running`, the state store's users against `Stop`).
* **A chain that goes backwards.** Simulated forks drop blocks that callers,
  statistics and stored values refer to.
* **Half failures.** A batch can fail in the middle of its insertion, or after it
  when the transaction index is late; a fork can fail to seal its replacement;
  `Stop` can give up, or fail to close one of three things.
* **Crashes.** `genesis.json`, the chain database and the state store are three
  files without a transaction around them.
* **Waiting.** `Stop` waits for a loop that waits for a mutex that others hold,
  and selects compete with tickers that are always ready.

PROJECT.json lists these hazards one by one, at their lines, with the properties
that would see them go wrong.

### What makes each component correct

* *mining*: concurrent operations look like one at a time; the height stays within
  a batch of the limit; only forks drop blocks, by a depth that was configured;
  returned blocks are canonical; statistics add up; every call returns.
* *lifecycle*: one start, one loop, one release of each resource, never under a
  working loop; success means released; `Stop` returns.
* *state store*: never used closed; what is stored stays true after a
  restart, unless a fork or a crash took its block.
* *bootstrap*: a restart never replaces or shortens a chain and is never refused
  on what an earlier process left (the code keeps this except where a server in
  disk mode follows one in memory mode).
* *monkey operator*: no more blocks than ticks, `IsRunning` tells the truth, and
  after a successful `Stop` nothing generates any more.
* *transaction selection*: geth panics, and with it the process, on a transaction
  that cannot be applied; that may happen only for a pool that lags behind the
  chain, for a skipped predecessor, for an underpriced transaction, or for an
  operator's configuration, and the pool drains as long as it does not.
* *transaction generators*: a generator that is ready has its tokens on the
  chain, tokens are minted once, and the owner map agrees with the contract.
* *command line*: whatever fails first, or a signal at any time, everything ends;
  nobody closes the server before that; when main stops waiting no operator
  or generator works on the chain any more, and the main loop only if `server.Stop`
  gave up waiting for it; the exit status tells how it ended.

## 2. The plan

| | modules | what | state |
|---|---|---|---|
| 1 | `ChainConfig`, `LimitedChain`, `ChainMining` | mining and its abstract specification | done, proved |
| 2 | `OneShotServer`, `ServerLifecycle` | lifecycle and store, and the abstract life of a server | done, proved |
| 3 | `MonkeyOperator` | the monkey operator | done, proved |
| 4 | `Bootstrap` | crashes and restarts | done, proved |
| 5 | `TokenInit` | the generators' stored contracts, minting and owners over a chain that crashes and forks | done, proved |
| 6 | `TxSelection` | what goes into a block: the pool's transactions for an automatic one, an operator's own for its tick | done, proved |
| 7 | `Shutdown` | the command line program: errgroup, operators and generators composed with `OneShotServer` | done, proved |
| 8 | `OperatorOnChain` | `MonkeyOperator` over `LimitedChain`, so that `ErrLimitReached` and forks come from the chain | left: `MonkeyOperator` already allows every answer at every tick |

Every invariant and every action property that a run checks is now stated by a
theorem as well; what is left to TLC alone is liveness.

## 3. The modules

Proof modules have the name of what they are about with `Proofs` appended
(`ChainMiningProofs` is about `LimitedChain` and `ChainConfig` too);
`CommonLemmas` has the lemmas that are about no component. `MC` modules only define the sets the `.cfg` files choose. Definitions whose comment
begins with "Mutant:" are wrong on purpose: each one is what a plausible bug would
make of the definition after it, and some property refutes it.

### ChainConfig, LimitedChain, ChainMining

A chain is a sequence of payloads; a block is identified by the prefix it ends, as
a hash identifies all ancestors. `ChainConfig` has the settings with what
`NewETHTestServer` validates about them, and the two pure decisions: is the limit
reached, and where does a fork of a drawn depth rewind to.

`LimitedChain` is what a node watching the chain may rely on: growth by at most a
batch while below the limit, and forks of two steps, a rewind by a configured
depth and at most one replacement.

`ChainMining` is the code: actors (clients, the goroutine of `Run`, the main loop)
walk through `GenerateBlocks`, `Mine` and `nextTick` with one step per lock, guard,
call into geth and unlock. `pc` is the place, `op` the operation, `base` and
`blocks` the locals of `generateBlocksUnlocked`, `target` the argument of
`simulateForkUnlocked`. A step reads only what the code reads there, so without
the mutex the interleavings are all there: a `Lock` that does not exclude
others breaks two properties. `counted` is history: every block that came or went
so far was put into the statistics, which a fork, a half insertion or a late index
ends. `TxsIn` says how many transactions a payload is, so that `stats` counts blocks
and transactions as the code does; `ElapsedTime` and `BlocksPerSecond`, which need a
clock, are left out. Failures are events of the constant `Env`: the callback, the
insertion in the middle of a batch, the transaction index, the fork, the sealing,
cancellation, and the expiry of `MaxDuration`. `Word` is the number of values of a
`uint64` counter.

### OneShotServer, ServerLifecycle

`OneShotServer` is the life of a server: created, starting, serving, draining,
stopped, or stuck in failed or abandoned; resources are released only in draining
and only when the loop is over. The exception is a node that cannot be started (its
port is taken, say): geth closes it by itself, `Run` fails, and nobody closes the
rest (`FailStart`; in `ServerLifecycle` the outcome "startFails" of `StartNode`). `ServerLifecycle` has the fields of the struct, a
step for every test and use, and every caller in any place of `Run`, `Stop`, the
store's methods, the endpoints or a chain operation. A nil dereference sends a
caller to "panic", which stops the process. The refinement mapping (`Phase`,
`Work`, `Open`) reads the abstract state off the fields and the callers' places.

### MonkeyOperator

Callers run `Run` and `Stop`; each successful `Run` has a goroutine `r` with its
own `ticks`. The two channels belong to the operator, so a second goroutine that
ends closes `doneCh` again and panics. `GenerateBlocks` has three outcomes, with a
failure before or after the insertion. `made` and `again` are history: the blocks
on the chain, and that a `Run` passed its test beside or after another one, which
is what most promises of the operator do not survive.

### Bootstrap

One directory, any number of servers one after the other, each with its own
genesis and its own database mode. `file` has the states a crash can leave
`os.WriteFile` in; `durable` is how far the chain's state is on disk and `head` how
far the process has got. A process may die in any phase; the chain grows and forks
(`Fork`). geth's part is external and taken from how the code relies on it: it
flushes when it likes and on close, restarts from the last durable block, commits a
genesis into an empty database and refuses a different one, while `MustCommit` of a
server in disk mode makes genesis the head whatever it finds. `origin` and `gone` are
history: in which mode the chain was made, and whether a server in disk mode
opened one that was made in memory mode ("crossed"), which wrote no `genesis.json`;
and whether the block that the stored value refers to was taken away, by a fork, by
a crash before it was durable or by that mixture of modes. What the code promises
about the directory stops at "crossed", and what it promises about stored values at
`gone`; the properties say so.

### TokenInit

One generator of the command line on a chain whose blocks are one transaction
each: a deployment, a mint, a transfer ("move") or somebody else's. `kind` tells
the ERC721 generator ("unique"), which picks who deploys and stores an owner map,
from the ERC20 and ERC1155 ones ("fungible"), which store a flag. `pc` walks through
`Initialize`, which every process calls twice (`again`): once in `runMonkey...`
and once in the operator's `Run`. `caller`, `minted` and `mapping` are the stored
values, `contract` and `owners` the generator's fields. `OwnerOf` is external: what
the contract on the chain says, by who deployed it. Blocks may fail before or
after their insertion, the store may fail, the server stops, dies and forks.
`broken`, `undone` and `fresh` are history: how many initialisations did not come
to their end, whether a block was taken away, whether this process minted. A
crash may take any suffix of the chain, more than it really can (`Bootstrap` is
exact about that); this only adds behaviours.

### TxSelection

`next` is the chain's nonce of each account, `base` the one the pool knows, and
`pending` the pool's transactions from there on, each with a gas limit and a fee
cap. Clients add transactions behind those pending (`Submit`), and the pool
catches up with the chain some time after it has changed (`Reset`), so that an
automatic block may be made from a pool that still has what the block before
mined. A simulated fork, refused while anything is pending, takes nonces back;
a transaction that comes back with it is one more `Submit`. `AutomaticBlock` is the
callback of `maybeGenerateBlock`: accounts in the order of a Go map, every
transaction that still fits. `OperatorBlock` is the callback of an operator's tick:
a number of transactions from the configuration, each with the nonce the block
itself reports, and no look at the gas. Both end in `Generate`, which is geth's
`AddTx` one transaction after the other: a wrong nonce, a fee cap below the base
fee or too little gas left makes it panic (`status`). `block` is what the last
automatic block was asked to hold. Automatic transactions use all the gas they
may, operators' some of it. Accounts can pay.

### Shutdown

`cmd/ethtestserver/main.go` and the tail of the `runMonkey...` functions. The
server is only what `OneShotServer` promises, and changes by that module's actions
(`Server!Start`, `Server!BeginStop`, ...); `ServerLifecycle` implements it. `task` has
a place for every task of the errgroup: the one that waits for a signal, the one
that runs the server, the one that stops it, and one for each operator asked for.
`err` is the first error, with which errgroup cancels `ctx`. `operator` is the
goroutine of each monkey operator, which is `MonkeyOperator` cut down to what the
tasks see: at its select, in a tick, gone. The generators that deploy and mint
(`Tokens`) make any number of calls before their operator starts, each of which
tests `running` first and may meet a closed chain after it. The task of the server
asks for its endpoint as soon as `Run` has returned (`CheckEndpoint`, `UseEndpoint`):
a `Stop` between the two is the nil node of the finding, and a panic here too. `main`
polls the server, exits at once when that takes too long, or waits for the tasks. What geth
does when a block is generated on a closed chain is external: an error, or a
panic. The model begins when the program listens to signals. `unclean` is
history: `server.Stop` failed.

`examples/monkeyops/main.go` is a simpler relative that is not modelled: it has no
errgroup, its operators and generators are plain goroutines nobody waits for, and
it passes `ctx`, which is then already cancelled, to `server.Stop` and to the
operators' `Stop`.

## 4. The runs

| run | what it shows | bounds and why they are enough |
|---|---|---|
| `chain_safety` | mining, everything enabled, is `LimitedChain`; height, forks, returned blocks, exact statistics, of blocks and of transactions | two clients, `Run` and the loop are four actors for one mutex; batches of 2 and a limit of 3 let a batch overshoot; depths 2..3 on chains of up to 4 blocks are clamped, exact and refused; a counter of 2 values wraps; two payloads, one of them a transaction, tell blocks of equal height apart; clients are symmetric |
| `chain_liveness` | calls and `Run` return, the loop fills the chain up to its limit and ends after `MaxDuration` | one payload and batches of 1 keep the graph small; two clients and the loop still compete, every failure can happen, and forks of one block set the loop back |
| `lifecycle` | the server is a `OneShotServer`; running, loop and store use what is open; success means released; nobody waits in a circle; `Stop` returns, the loop ends when cancelled | two callers, each of which calls anything any number of times: a `Run` or a `Stop` between the steps of another one; every failure enabled |
| `nil_node` | finding: a `Run` or an endpoint that tested `s.node` before a `Stop` dereferences nil | |
| `monkey` | blocks, `IsRunning` and `Stop` of an operator, with and without a second `Run`; `Stop` returns, an operator with a tick limit ends | two callers and two runs, with the panic of the second; 2 ticks and a counter to 3, so a refused tick passes the limit |
| `monkey_restart` | finding: the `Stop` of a second run does not wait | |
| `bootstrap_safety` | no restart replaces or shortens a chain, or is refused on one, unless disk mode follows memory mode; stored values stay true until a fork or a crash takes their block | two geneses, so that a configuration can differ from the file; both modes in every order; 4 blocks, so that a fork can leave durable blocks below, at and above its base; restarts are not bounded; geneses are symmetric |
| `token_safety` | a ready generator's tokens exist; a mint is repeated only after a broken initialisation; the owner map agrees with the contract | two senders, so that deployer and minter can differ; 2 tokens; 4 blocks hold a deployment, a repeated mint and one block of somebody else, and forks and crashes make room again; 2 broken initialisations; blocks of others are sent by one sender (`Others`) |
| `token_mint` | finding: with no failure at all, no ERC721 token exists after `Initialize` | nothing fails and nobody else sends; processes end cleanly and others follow, so that every state has a next one |
| `shutdown` | every way down ends; no operator or generator works on the chain after main's wait, and no main loop unless `server.Stop` gave up; nobody closes it before a failure or a signal; the status is truthful | an operator without an initialisation and one with: its generator can mint while the other operator ticks and the server closes; every failure enabled; operators of a kind differ in their names only |
| `exit_clean` | finding: a server that fails to close leaves status 0 after a signal | |
| `tx_selection` | the only ways in which a block makes the process panic; the pool drains otherwise | two accounts with two transactions each, that take a quarter of a block or all of it; a transaction pays the base fee or does not; an operator whose blocks always have room, one that may need too much, one whose minimum is above its maximum |

`MaxHeight` of `Bootstrap`, `Others` and `MaxBroken` of `TokenInit` (whose
`MaxHeight` is the code's `MaxBlockNum`), `MaxTicks` and `MaxRuns` of
`MonkeyOperator`, `MaxNonce` of `TxSelection` and `MaxBatch` of `ChainConfig` are
bounds of the models, not of the code; the heights of `ChainMining` are bounded by
the limit itself.

`CHECK_DEADLOCK FALSE` stands only in `MonkeyRestart.cfg`: with no failure enabled,
a `Stop` without a deadline on an operator that was never run waits for a `doneCh`
that nobody closes, which is what the code does.

### Fairness

* Weak fairness on the steps inside a call and of the goroutines: the Go scheduler
  runs every goroutine that can run.
* Strong fairness on taking `s.mu` (and `s.stateDBMu`): `sync.Mutex` hands the lock
  to a waiter that starved for a millisecond, so competition cannot last for ever.
* Strong fairness on a select's `ctx.Done()`, `stopCh` or timer when a ticker
  competes: `select` chooses uniformly among ready cases. In `Shutdown` this is
  main's look at `ctx` while it polls, and an operator's while it ticks.
* A generator makes finitely many calls (`StartOperator` of `Shutdown`): the loops
  over tokens are bounded by the command line's numbers.
* In `TxSelection` the pool catches up, the main loop goes on ticking, and every
  order of the accounts comes up: geth's pool is told of each head, and Go begins
  to range over a map at a random place.
* None on what callers and the environment may do: calls, signals, cancellation,
  failures, deadlines and crashes may never happen, and a step in which a call
  gives up is not the one that fairness is about.

## 5. The proofs

Every theorem is for all values of the constants that satisfy the modules'
assumptions: `ConfigAssumption` (the ranges New validates), `ActorAssumption`,
`CallerAssumption` (the name for "no caller" is neither a caller's nor that of a
holder of `s.mu`), `OperatorAssumption`
(finitely many callers), `BootstrapAssumption` (geneses are not the markers of a
missing or torn file), `TokenAssumption` (there is a sender and something to mint),
`SelectionAssumption` (finitely many accounts, no transaction that exceeds a block)
and `ProgramAssumption` (the operators have names other than the three tasks').

* **ChainMining.** `IInv` says that the actor inside an operation holds the mutex
  (`MutexInv`) and what it therefore still knows of the chain at each place
  (`WorkInv`: below the limit after the check, on the head before the insertion,
  the head itself after it; `ForkInv`: the fork point fits the height). None of
  these is inductive without the mutex part. From it: `Implements`, every step is
  a step of `LimitedChain` or leaves it alone, then `HeightSafe` and `ReorgsSafe`
  through what holds of `LimitedChain`, and `NoOrphans`, `ReturnedCanonical`.
  `StatsCorrect` adds to it, in `CountInv` and `Accounts`, what the statistics still
  miss between an insertion and the update under the same hold of the mutex; the
  equations are modulo the width of the counters. That transactions add up rests on
  `TxsExtend`: those of a chain and those of the batch put on it are disjoint finite
  sets. `HolderWorks` is what mutual exclusion comes to: the one actor past Lock is the holder.
* **LimitedChain.** `LimitedHeight` and `LimitedReorgs` hold of the abstract
  specification alone, instantiated as `ChainMining` does, and `ChainMining` has
  them by `Implements`. `HeightBound` needs `ForkBound`: between rewind and
  replacement there is room for one more block.
* **ServerLifecycle.** `IInv` says that at most one caller is past the tests of
  `Run` or `Stop` (`Exclusive`), what the fields are at each of its places
  (`Places`) and between such calls (`Rest`). It is what makes the plain fields
  safe: geth refuses a second start, and `running` is compared and swapped.
  `LivesOnce` is the refinement of `OneShotServer`, an action at a time.
  `NobodyWaitsInVain` is about the three things a goroutine can wait for here,
  `s.mu`, `s.stateDBMu` and the main loop: `ChainMutex` says who is between Lock and
  Unlock, a caller or a loop, `Reached` that a `Stop` waits for a loop only
  after it cancelled it, and together they leave no circle (`WaitsEnd`).
  `ReleasesLast` is the order of releases in terms of the code's own fields.
* **MonkeyOperator.** `RoomForBlocks` keeps blocks behind ticks; `OneRun` locates
  `Run` and its goroutine from `running`, `started` and `doneCh` when the operator
  is run once. The findings show why that restriction is there. Without it
  `StopIsHeard` still holds: by `Signalled` a `Stop` that waits has closed `stopCh`,
  and `doneCh` is open until the one goroutine that closes it is gone, so that all
  that were started still have to look at `stopCh` or are on their way out. `OneRunLives` is the other half of the finding:
  it takes a second `Run` to close `doneCh` twice.
* **Bootstrap.** `FileFirst` and `PhaseOK`: the file is complete before genesis is
  committed, so whoever writes the file finds no chain, unless it was made in memory
  mode, and `MemoryMade` says that then only servers in memory mode have seen it until
  `origin` tells otherwise. `ChainSurvives`, `Reopens` and `StoreMatchesChain` follow,
  each with that exception in its statement.
* **TokenInit.** `MintsOnce`: `Allowed` says how often a token may
  have been minted at each place of `Initialize`, given how many initialisations
  were broken; a step that leaves the loop without storing is counted as broken,
  one that stores makes sure (`Place`) that nobody enters the loop again. Counting is
  by lemmas about appended and cut chains. `ReadyTokensExist` and `MappingAgrees` are
  about what the contract says, which is a recursive function over the chain: its
  lemmas (`OwnerHistory`, `OwnerAfter`) say what one more block makes of the owner of
  a token, given the owner before it. `Stages` ties the contract in the generator to
  the stored one, place by place; `Grounded` keeps its deployment on the chain as long
  as nothing was undone; `Untouched` says that nobody moves tokens before an
  initialisation has come to its end, without which a token might not be with its
  first recipient when the map is stored; `Present` has the tokens the loop is past, and
  `Current` the owner map, in the store until the generator is ready and in its
  field from then on. `ForeignContractEmpty` is the finding for every configuration:
  by `AllProper` only the first sender mints, and by `KnownOwners` nobody transfers to
  no one, so a contract of another deployer stays empty, and a generator that
  uses it has nothing to transfer for as long as the chain lives.
* **TxSelection.** `QueueOrdered`: in whatever order the accounts come,
  the transactions of each account follow by nonce. `ChosenFrom` is the invariant of the
  loop over the queue: what is taken is in that order, and its gas is the sum kept,
  within the limit at every position. So a transaction of an automatic block that
  geth refuses has a wrong nonce or a low fee (`GasFits`, `NoncesCount`), and a wrong
  nonce with an up-to-date pool means that a predecessor was left out.
  `PanicsExplained` is inductive with `TypeOK` alone, but what the panicking step
  computed is the whole of the proof. `FirstIsServed` follows one transaction, the
  first of the account an order begins with, through the queue (`QueueBegins`) and the
  selection (`TakenBegins`): it always fits, since none asks for more gas than a block has.
* **Shutdown.** `Told`: nothing is taken down before `ctx` is done. `Cause`: the first
  error is `Canceled` only after a signal. `Waiting`, `Attended`, `Stopped`: the tasks
  start after the server, a goroutine that works has a task that will wait for it,
  and a task that is done has left its operator, or the server, in its last state.
  `WaitIsFinal`, `ClosesLast` and `StatusTruthful` follow. When main's wait is over no
  operator and no generator works, and the main loop is over too, unless the server was
  abandoned: the deadline of `server.Stop` leaves a loop that may be in a tick. That
  the server moves only as `OneShotServer` does is how the module is written and no
  theorem; that the code's server does is `LivesOnce`.

What a recursive function computes is proved here although the library's induction
theorems, which take the property as an operator, cannot be instantiated by the
provers. `Induct` of `CommonLemmas` takes it as a set of numbers instead and is proved
by a least counterexample (`WFMin` and `NatLessThanWellFounded` of the library).
`Recurse` has from it that a function given at 0 and from each number to the next
exists, so that `Sums`, `FlattenSeq`, `Taken` and `Owner`, which TLA+ defines by
a choice, satisfy the equations they are written with. Everything else about them
is one more `Induct`.

Only model-checked: everything temporal (`CallsReturn`, `MinesUpToLimit`,
`LoopStopsAfterMaxDuration`, the two `StopReturns`, `CancelledLoopEnds`, `TicksEnd`,
`ShutdownEnds`, `PoolDrains`), because liveness under fairness and `ENABLED` are out
of the prover's reach. The safety half of some is proved: that a `Stop` which waits,
waits for somebody who was told and is not waiting himself (`NobodyWaitsInVain`,
`HolderWorks`, `StopIsHeard`), and that an account whose turn it is gets on
(`FirstIsServed`). That these steps are then taken is what fairness adds, and TLC checks.

## 6. Findings

* `Run` and the endpoints can dereference a node that `Stop` took away (`nil_node`).
* A monkey operator that is run again is not waited for, and panics (`monkey_restart`).
* `Initialize` of the ERC721 generator lets a random sender deploy and own the
  contract but mints as the first one, and nobody looks at the receipts: unless the
  first was picked, no token exists and every transfer fails (`token_mint`, and
  `ForeignContractEmpty` for any senders and tokens).
* The command line loses the error of `server.Stop`: errgroup already has the
  error that made `ctx` done, so after a signal the status is 0 although the server
  did not close, and "failed to stop server cleanly" is never seen (`exit_clean`).

Smaller disagreements the models contain but no run is spent on: `MaxBlockNum` is
exceeded by up to a batch less one (`HeightWithinLimit` is exact about it);
`GenerateBlocks` does not look at `MaxDuration`; a fork on a short chain is
shallower than `ReorgDepthMin` (`ReorgInRange`); two concurrent `Run`s of an
operator both pass the test of `running`; a tick refused with `ErrLimitReached`
does not compare `Ticks`; in memory mode the chain is on disk all the same, because
only a database that is thrown away is kept in memory; `InitialBlockNum` is never
read; after a fork `Stats` names a block that is no longer canonical, until the next
one is generated; a crash, or a failed `Run`, between `genesis.json` and block 1
leaves a directory that passes for initialised, and no later `Run` makes the initial
block; a stored contract or owner map is used as it is even when a fork or a crash
took its blocks, and transfers of an earlier process are missing in the stored
owner map; a chain made in memory mode has no `genesis.json`, so a server in disk mode
takes the directory for a new one, and its `MustCommit` makes genesis the head, or,
after a crash in `WriteFile`, the next one is refused although there is a chain (all in
`Bootstrap`); a node that cannot be started leaves the store and the beacon open, and
no `Stop` is accepted (`ServerLifecycle`). A signal before the server is seen running makes main leave with
status 1 without a `Stop` of a server that may be serving, and a task whose
generator meets the block limit ends without an error, so that an operator is
silently missing (both in `Shutdown`). The pool's transactions are asked for without
a fee filter, and a transaction that does not fit is skipped without its successors
(both in `TxSelection`). Read but not modelled: `PrintStatus` subtracts the height
from `MaxBlockNum` in unsigned numbers, which wraps once a batch has passed the
limit; the example's `Stop` with a cancelled context usually gives up at once, and
the program then ends with status 0.

## 7. Not modelled

* Amounts, balances and prices beyond the test of the base fee; blocks of several
  transactions in `TokenInit`.
* Keys, values and encoding of the state store; the read of a value after its
  buffer was released (`RetrieveValue`).
* The torn read of `startTime`, which `Run` writes without `s.mu`.
* What geth does inside: the pool's own rules, what a closed blockchain answers,
  recovery from disk appear as the choices the code has to cope with.
* `examples/monkeyops/main.go` (see `Shutdown`); its `operators.go` is a copy of the
  generators that `TokenInit` models.
* Signers, random helpers, artifacts, flags, `PrintStatus` and logging: pure, or
  without an effect on the state of the rest.
