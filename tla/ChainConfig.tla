------------------------------ MODULE ChainConfig ------------------------------
(***************************************************************************)
(* The configuration of a test server that mining depends on               *)
(* (ETHTestServerConfig), and the two pure decisions taken from it: is the *)
(* block limit reached, and where does a simulated fork rewind the chain.  *)
(*                                                                         *)
(* A canonical chain is a sequence of payloads: element i is what block    *)
(* number i contains, block 0 (genesis) is left implicit.  The hash of a   *)
(* block commits to all its ancestors, so block i of chain c is identified *)
(* by SubSeq(c, 1, i), and the hash of the head by c itself.  Two blocks   *)
(* built on the same parent with the same payload are the same block, as   *)
(* they are in the program, where core.GenerateChain is deterministic.     *)
(***************************************************************************)
EXTENDS Integers, Sequences, SequencesExt, FiniteSets

CONSTANTS
  Payloads,       \* what a block may contain, besides its ancestors
  Empty,          \* the payload of a block generated without transactions
  TxsIn,          \* how many transactions a block with a payload contains
  MaxBatch,       \* largest n a caller passes to GenerateBlocks
  MaxBlockNum,    \* config.MaxBlockNum, 0 when there is no limit
  StartHeight,    \* height of the chain that NewETHTestServer opens
  ReorgEnabled,   \* config.ReorgProbability > 0
  ReorgDepthMin,  \* config.ReorgDepthMin
  ReorgDepthMax   \* config.ReorgDepthMax

\* What NewETHTestServer has validated (0 < ReorgDepthMin <= ReorgDepthMax
\* when forks are enabled), and the types of the other settings.
ASSUME ConfigAssumption ==
  /\ Empty \in Payloads
  /\ TxsIn \in [Payloads -> Nat]
  /\ TxsIn[Empty] = 0
  /\ MaxBatch \in Nat \ {0}
  /\ MaxBlockNum \in Nat
  /\ StartHeight \in Nat
  /\ ReorgEnabled \in BOOLEAN
  /\ ReorgDepthMin \in Nat
  /\ ReorgDepthMax \in Nat
  /\ ReorgEnabled => 0 < ReorgDepthMin /\ ReorgDepthMin <= ReorgDepthMax

Chain == Seq(Payloads)

StartChain == [i \in 1..StartHeight |-> Empty]

\* The transactions in the blocks of a chain: the j-th of block i is <<i, j>>.
TxsOf(c) == UNION {{i} \X (1..TxsIn[c[i]]) : i \in 1..Len(c)}

\* Mutant: the limit is reached one block early.
LimitReachedEarly(height) == MaxBlockNum > 0 /\ height + 1 >= MaxBlockNum

\* The test both GenerateBlocks and maybeGenerateBlock make on the head number.
LimitReached(height) == MaxBlockNum > 0 /\ height >= MaxBlockNum

\* Mutant: a fork may go back to genesis.
ClampToGenesis(depth, height) == IF depth > height THEN height - 1 ELSE depth

\* Mutant: the drawn depth is not clamped.
ClampNot(depth, height) == depth

\* maybeSimulateFork: the drawn depth is clamped so that block 1 survives.
Clamp(depth, height) == IF depth >= height THEN height - 1 ELSE depth

\* The block number at which a fork of the drawn depth happens.
ForkPoint(depth, height) == height - Clamp(depth, height)

================================================================================
