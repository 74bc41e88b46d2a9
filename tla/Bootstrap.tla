------------------------------- MODULE Bootstrap -------------------------------
(***************************************************************************)
(* What a test server keeps in config.DataDir and how NewETHTestServer and *)
(* Run take it up again: genesis.json, the chain database of geth, and the *)
(* state store.  A process may die between any two steps or stop           *)
(* gracefully, and the next one may be given another genesis and another   *)
(* database mode.                                                          *)
(*                                                                         *)
(* geth makes the state of a block durable when it likes, and at the       *)
(* latest when the node is closed; after a crash the chain goes back to    *)
(* the last block whose state is there.  A value is stored synchronously.  *)
(* The chain is its height; how it grows and forks is ChainMining's        *)
(* subject, here a fork takes the blocks above its base away.              *)
(***************************************************************************)
EXTENDS Integers

CONSTANTS
  Geneses,    \* the genesis blocks that configurations describe
  NoGenesis,  \* no genesis is committed
  Modes,      \* the values of config.DBMode
  MaxHeight,  \* bound: blocks are generated up to this height
  Env         \* what the environment may do, a subset of EnvEvents

EnvEvents ==
  { "crash",       \* the process dies, or ends without a Stop that succeeded
    "writeFails",  \* genesis.json cannot be written
    "openFails",   \* genesis.json or a database cannot be read or opened
    "initFails" }  \* GenerateBlocks fails for the initial block

ASSUME BootstrapAssumption ==
  /\ NoGenesis \notin Geneses
  /\ Geneses \cap {"none", "empty", "torn"} = {}
  /\ Modes \subseteq {"memory", "disk"}
  /\ MaxHeight \in Nat
  /\ Env \subseteq EnvEvents

VARIABLES
  \* on disk
  file,         \* genesis.json: missing, empty, torn, or the genesis it holds
  genesis,      \* the genesis of the chain database, or NoGenesis
  durable,      \* height of the last block whose state is on disk
  stored,       \* height of the last block that a stored value refers to
  \* in the process
  phase,        \* where NewETHTestServer, Run or Stop is
  mode,         \* config.DBMode
  config,       \* config.Genesis
  initialized,  \* s.initialized
  head,         \* height of the chain
  \* history
  origin,       \* the mode of the server that made the chain, or "crossed" once
                \* one in disk mode has opened a chain made in memory mode
  gone          \* the block that the stored value refers to was taken away

disk    == <<file, genesis, durable, stored>>
memory  == <<mode, config, initialized, head>>
history == <<origin, gone>>
vars == <<disk, phase, memory, history>>

TypeOK ==
  /\ mode \in Modes
  /\ file \in {"none", "empty", "torn"} \cup Geneses
  /\ genesis \in Geneses \cup {NoGenesis}
  /\ durable \in 0..MaxHeight
  /\ stored \in 0..MaxHeight
  /\ phase \in {"down", "stat", "create", "write", "finish", "commit", "eth",
                "built", "init", "running", "refused", "failed"}
  /\ config \in Geneses \cup {NoGenesis}
  /\ initialized \in BOOLEAN
  /\ head \in 0..MaxHeight
  /\ origin \in {"none", "memory", "disk", "crossed"}
  /\ gone \in BOOLEAN

Init ==
  /\ mode \in Modes
  /\ file = "none"
  /\ genesis = NoGenesis
  /\ durable = 0
  /\ stored = 0
  /\ phase = "down"
  /\ config = NoGenesis
  /\ initialized = FALSE
  /\ head = 0
  /\ origin = "none"
  /\ gone = FALSE

At(p) == phase = p
Goto(p) == phase' = p

--------------------------------------------------------------------------------
(***************************************************************************)
(* NewETHTestServer.                                                       *)
(***************************************************************************)

\* The configuration, and the state store: its lock keeps other servers away.
OpenStore(g, m) ==
  /\ At("down")
  /\ config' = g
  /\ mode' = m
  /\ initialized' = FALSE
  /\ Goto("stat")
  /\ origin' = IF m = "disk" /\ origin = "memory" THEN "crossed" ELSE origin
  /\ UNCHANGED <<disk, head, gone>>

\* os.Stat found the file, and something in it.
GenesisFileFound == mode = "disk" /\ file \notin {"none", "empty"}

\* Mutant: the configuration wins over the file.
StatGenesisOwn ==
  /\ At("stat")
  /\ initialized' = GenesisFileFound
  /\ Goto(IF GenesisFileFound THEN "eth" ELSE IF mode = "disk" THEN "create" ELSE "commit")
  /\ UNCHANGED <<disk, mode, config, head, history>>

\* Mutant: the file is written anew by every server.
StatGenesisAnew ==
  /\ At("stat")
  /\ Goto(IF mode = "disk" THEN "create" ELSE "commit")
  /\ UNCHANGED <<disk, memory, history>>

\* Mutant: what a file holds is not looked at.
StatGenesisUnparsed ==
  /\ At("stat")
  /\ \/ GenesisFileFound /\ initialized' = TRUE /\ config' = file /\ Goto("eth")
     \/ /\ ~GenesisFileFound
        /\ Goto(IF mode = "disk" THEN "create" ELSE "commit")
        /\ UNCHANGED <<initialized, config>>
  /\ UNCHANGED <<disk, mode, head, history>>

\* A genesis.json with any contents is taken for an initialisation: it replaces
\* the configuration, or makes New fail when it cannot be parsed.
StatGenesis ==
  /\ At("stat")
  /\ \/ /\ GenesisFileFound
        /\ initialized' = TRUE
        /\ \/ file \in Geneses /\ config' = file /\ Goto("eth")
           \/ file = "torn" /\ Goto("refused") /\ UNCHANGED config
     \/ /\ ~GenesisFileFound
        /\ Goto(IF mode = "disk" THEN "create" ELSE "commit")
        /\ UNCHANGED <<initialized, config>>
  /\ UNCHANGED <<disk, mode, head, history>>

\* os.WriteFile creates or truncates the file, writes a part of the text, and
\* the rest: three states of the disk that a crash can leave.
WriteFile(at, contents, next) ==
  /\ At(at)
  /\ \/ file' = contents /\ Goto(next)
     \/ "writeFails" \in Env /\ Goto("failed") /\ UNCHANGED file
  /\ UNCHANGED <<genesis, durable, stored, memory, history>>

WriteGenesis ==
  \/ WriteFile("create", "empty", "write")
  \/ WriteFile("write", "torn", "finish")
  \/ WriteFile("finish", config, "commit")

\* MustCommit makes genesis the head of the database that openDatabase opened,
\* whatever was there; in memory mode it is not the server's database and is
\* thrown away.
CommitGenesis ==
  /\ At("commit")
  /\ \/ /\ mode = "disk"
        /\ genesis' = config
        /\ durable' = 0
        /\ head' = 0
        /\ origin' = "disk"
        /\ gone' = (gone \/ origin = "crossed")
     \/ /\ mode = "memory"
        /\ UNCHANGED <<genesis, durable, head, history>>
  /\ Goto("eth")
  /\ UNCHANGED <<file, stored, mode, config, initialized>>

\* eth.New opens the database in NodeConfig.DataDir, in both modes: it commits
\* genesis there when there is none and refuses a different one.
EthNew ==
  /\ At("eth")
  /\ \/ genesis = NoGenesis /\ genesis' = config /\ origin' = mode /\ Goto("built")
     \/ genesis = config /\ Goto("built") /\ UNCHANGED <<genesis, origin>>
     \/ genesis \notin {NoGenesis, config} /\ Goto("refused") /\ UNCHANGED <<genesis, origin>>
  /\ UNCHANGED <<file, durable, stored, memory, gone>>

\* The other errors of New; what it opened stays open.
NewFails ==
  /\ "openFails" \in Env
  /\ phase \in {"stat", "commit", "eth"}
  /\ Goto("failed")
  /\ UNCHANGED <<disk, memory, history>>

--------------------------------------------------------------------------------
(***************************************************************************)
(* Run, the life of the server, and its end.                               *)
(***************************************************************************)

\* Run, up to the test of s.initialized.
Run ==
  /\ At("built")
  /\ Goto(IF initialized THEN "running" ELSE "init")
  /\ UNCHANGED <<disk, memory, history>>

\* GenerateBlocks(1, nil); it may fail after the block was inserted.
EnsureChainInitialized ==
  /\ At("init")
  /\ \/ head < MaxHeight /\ head' = head + 1 /\ Goto("running")
     \/ /\ "initFails" \in Env
        /\ \/ UNCHANGED head
           \/ head < MaxHeight /\ head' = head + 1
        /\ Goto("failed")
  /\ UNCHANGED <<disk, mode, config, initialized, history>>

\* GenerateBlocks needs no running server.
GenerateBlock ==
  /\ phase \in {"built", "running"}
  /\ head < MaxHeight
  /\ head' = head + 1
  /\ UNCHANGED <<disk, phase, mode, config, initialized, history>>

\* The main loop simulates a fork: the blocks above its base go, and one that
\* replaces them may fail to be sealed.  Of the blocks that stay, any may be the
\* last one whose state is on disk if it was one of those that went.
Fork ==
  /\ At("running")
  /\ \E base \in 1..(head - 1) :
       /\ head' \in {base, base + 1}
       /\ \/ durable <= base /\ UNCHANGED durable
          \/ durable > base /\ durable' \in 0..base
       /\ gone' = (gone \/ stored > base)
  /\ UNCHANGED <<file, genesis, stored, phase, mode, config, initialized, origin>>

\* A caller stores something it found in the head block, a contract say.
StoreValue ==
  /\ At("running")
  /\ stored' = head
  /\ gone' = FALSE
  /\ UNCHANGED <<file, genesis, durable, phase, memory, origin>>

\* geth writes the state of a block.
Flush ==
  /\ phase \in {"built", "init", "running"}
  /\ \E h \in durable..head : durable' = h
  /\ UNCHANGED <<file, genesis, stored, phase, memory, history>>

\* Mutant: the node is not closed.
StopOpen ==
  /\ At("running")
  /\ head' = durable
  /\ Goto("down")
  /\ UNCHANGED <<disk, mode, config, initialized, history>>

\* Stop closes the state store, then the node with its chain, which writes the
\* state of the head.
Stop ==
  /\ At("running")
  /\ durable' = head
  /\ Goto("down")
  /\ UNCHANGED <<file, genesis, stored, memory, history>>

\* The process dies; so does one whose New or Run returned an error, because it
\* holds the locks of the databases and nothing closes them.
Die ==
  /\ ~At("down")
  /\ phase \in {"refused", "failed"} \/ "crash" \in Env
  /\ head' = durable
  /\ gone' = (gone \/ stored > durable)
  /\ Goto("down")
  /\ UNCHANGED <<disk, mode, config, initialized, origin>>

Next ==
  \/ \E g \in Geneses, m \in Modes : OpenStore(g, m)
  \/ StatGenesis \/ WriteGenesis \/ CommitGenesis \/ EthNew \/ NewFails
  \/ Run \/ EnsureChainInitialized \/ GenerateBlock \/ Fork \/ StoreValue
  \/ Flush \/ Stop \/ Die

Spec == Init /\ [][Next]_vars

--------------------------------------------------------------------------------
(***************************************************************************)
(* Properties that hold.                                                   *)
(***************************************************************************)

\* Whatever step the processes before died in and whatever genesis they were
\* configured with, no start replaces the genesis of a chain, and only a fork takes
\* blocks away that were on disk: MustCommit never meets a chain.  The one mixture
\* of modes that breaks this is a server in disk mode on a chain that was made in
\* memory mode, which wrote no genesis.json.
ChainKept ==
  [][ origin # "crossed" =>
        /\ genesis # NoGenesis => genesis' = genesis
        /\ durable' >= durable \/ At("running") ]_vars

\* A directory that holds a chain can always be opened again in disk mode, also
\* after servers in memory mode have used it, unless the chain was made in that
\* mode: New refuses a torn genesis.json, or one of another chain, only where no
\* chain is.
CreatedForGood ==
  origin # "crossed" /\ mode = "disk" /\ At("refused") => genesis = NoGenesis

\* What callers stored last about the chain is on it after every stop and restart,
\* however many servers came and went ("Maintain test state across server
\* restarts", README.md:19), unless a fork removed its block, a process died before
\* the block was durable, or disk mode met a chain made in memory mode.
StoredOnChain == ~gone => stored <= head

================================================================================
