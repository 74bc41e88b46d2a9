----------------------------- MODULE LimitedChain ------------------------------
(***************************************************************************)
(* What the mining side of the test server promises a node that watches    *)
(* the canonical chain through RPC, with no locks, callers or statistics:  *)
(* the chain grows by at most one batch at a time and only below the       *)
(* limit, and a simulated fork rewinds it by a configured depth and seals  *)
(* at most one replacement block before anything else happens.             *)
(***************************************************************************)
EXTENDS ChainConfig

VARIABLES
  chain,    \* the canonical chain
  forking   \* TRUE between the rewind of a simulated fork and its replacement

vars == <<chain, forking>>

TypeOK ==
  /\ chain \in Chain
  /\ forking \in BOOLEAN

Init ==
  /\ chain = StartChain
  /\ forking = FALSE

\* A batch, or the part of it that could be inserted, extends the head.
Extend ==
  /\ ~forking
  /\ ~LimitReached(Len(chain))
  /\ \E n \in 1..MaxBatch : \E bs \in [1..n -> Payloads] : chain' = chain \o bs
  /\ UNCHANGED forking

\* A simulated fork makes an ancestor of the head canonical.
Rewind ==
  /\ ~forking
  /\ ReorgEnabled
  /\ \E d \in ReorgDepthMin..ReorgDepthMax :
       /\ Clamp(d, Len(chain)) > 0
       /\ chain' = SubSeq(chain, 1, ForkPoint(d, Len(chain)))
  /\ forking' = TRUE

\* The replacement block is sealed, or sealing fails and is only logged.
Seal ==
  /\ forking
  /\ \/ \E p \in Payloads : chain' = Append(chain, p)
     \/ UNCHANGED chain
  /\ forking' = FALSE

Next == Extend \/ Rewind \/ Seal

Spec == Init /\ [][Next]_vars

--------------------------------------------------------------------------------
(***************************************************************************)
(* Properties of the canonical chain alone.                                *)
(***************************************************************************)

\* The height a server may reach: a batch begun just below MaxBlockNum is
\* generated whole, so the limit is exceeded by less than one batch
\* (GenerateBlocks compares the head with the limit once, before the batch).
HeightBound ==
  \/ MaxBlockNum = 0
  \/ Len(chain) <= StartHeight
  \/ Len(chain) < MaxBlockNum + MaxBatch

\* Between the rewind and the replacement there is room for the replacement.
ForkBound ==
  forking => \/ MaxBlockNum = 0
             \/ Len(chain) < StartHeight
             \/ Len(chain) + 1 < MaxBlockNum + MaxBatch

\* One step of the canonical chain: it grows, or it is cut back to a prefix by
\* a depth between ReorgDepthMin and ReorgDepthMax, or all the way to block 1
\* when the chain is shorter than that.
ReorgStep ==
  \/ IsPrefix(chain, chain')
  \/ /\ IsStrictPrefix(chain', chain)
     /\ 0 < Len(chain')
     /\ Len(chain) - Len(chain') <= ReorgDepthMax
     /\ Len(chain) - Len(chain') >= ReorgDepthMin \/ Len(chain') = 1

================================================================================
