--------------------------- MODULE ChainMiningProofs ---------------------------
(***************************************************************************)
(* Proofs about ChainMining, for any clients, configuration and failures.  *)
(*                                                                         *)
(* Everything rests on one inductive invariant, IInv: the actor inside an  *)
(* operation holds the mutex, so that what it has read of the chain is     *)
(* still true when it acts on it.  From it follow the refinement of        *)
(* LimitedChain and, through it, the bounds on height and reorganisations. *)
(***************************************************************************)
EXTENDS ChainMining, CommonLemmas

\* The places between s.mu.Lock() and the deferred s.mu.Unlock().
Holding == {"check", "generate", "insert", "index", "fork", "rewind", "seal", "unlock"}

\* The mutex is held by the actor that is inside an operation, and by no other.
MutexInv == \A a \in Actors : mu = a <=> pc[a] \in Holding

\* Only the loop ticks and simulates forks; Mine and ticks ask for one block.
OpInv ==
  \A a \in Actors :
    /\ op[a] = "tick" <=> a = Loop
    /\ op[a] # "generate" => batch[a] = 1
    /\ pc[a] \in {"fork", "rewind", "seal"} => a = Loop

\* The loop does nothing before Run spawns it.
BootInv == pc[Loop] = "off" \/ pc[Runner] \in {"spawned", "idle"}

\* What an actor knows at each place: below the limit once it has checked it,
\* a batch on the current head, and after the insertion the head itself.
Knows(a) ==
  /\ pc[a] \in {"generate", "insert"} => ~LimitReached(Len(chain)) /\ batch[a] > 0
  /\ pc[a] = "insert" => base[a] = chain /\ Len(blocks[a]) = batch[a]
  /\ pc[a] = "index" => chain = base[a] \o blocks[a] /\ Len(blocks[a]) > 0
  /\ pc[a] \notin {"insert", "index", "fork", "rewind", "seal", "unlock"} => blocks[a] = << >>

WorkInv == \A a \in Actors : Knows(a)

\* The block a fork goes back to was chosen for the present head.
ForkInv ==
  pc[Loop] = "rewind" =>
    /\ ReorgEnabled
    /\ \E d \in ReorgDepthMin..ReorgDepthMax :
         Clamp(d, Len(chain)) > 0 /\ target = ForkPoint(d, Len(chain))

\* The statistics account for chain c.
Accounts(c) ==
  /\ Len(c) >= StartHeight
  /\ (StartHeight + stats.mined) % Word = Len(c) % Word
  /\ stats.txs = Cardinality(TxsOf(c)) % Word
  /\ stats.latest = IF Len(c) > StartHeight THEN c ELSE << >>

\* Between an insertion and its index they lag by the batch.
CountInv ==
  counted =>
    /\ pc[Loop] # "seal"
    /\ \A a \in Actors : pc[a] = "index" => Accounts(base[a])
    /\ (\A a \in Actors : pc[a] # "index") => Accounts(chain)

IInv ==
  /\ TypeOK
  /\ MutexInv
  /\ OpInv
  /\ BootInv
  /\ WorkInv
  /\ ForkInv
  /\ ReturnedBlocksCanonical
  /\ CountInv

--------------------------------------------------------------------------------
(***************************************************************************)
(* Chains: what appending a batch to a chain and cutting it back to an     *)
(* ancestor do to its length and prefixes, and where a fork may happen.    *)
(***************************************************************************)

\* The start chain is a chain of the configured height.
LEMMA StartChainIsChain == StartChain \in Chain /\ Len(StartChain) = StartHeight
<1>1. StartHeight \in Nat /\ Empty \in Payloads
  BY ConfigAssumption
<1>. QED
  BY <1>1 DEF StartChain, Chain

\* A batch put on a chain leaves the chain below it as it was (bc.InsertChain).
LEMMA ExtendChain ==
  ASSUME NEW c \in Chain, NEW bs \in Chain
  PROVE  /\ c \o bs \in Chain
         /\ Len(c \o bs) = Len(c) + Len(bs)
         /\ IsPrefix(c, c \o bs)
<1>1. /\ c \o bs \in Chain
      /\ Len(c \o bs) = Len(c) + Len(bs)
      /\ \A i \in 1..Len(c) : (c \o bs)[i] = c[i]
  BY ConcatProperties DEF Chain
<1>2. SubSeq(c, 1, Len(c)) = SubSeq(c \o bs, 1, Len(c))
  BY <1>1, SubSeqProperties, LenProperties DEF Chain
<1>. QED
  BY <1>1, <1>2, LenProperties DEF IsPrefix, Chain

\* One block put on a chain, as a batch of its own (beacon.Commit).
LEMMA AppendChain ==
  ASSUME NEW c \in Chain, NEW p \in Payloads
  PROVE  /\ Append(c, p) \in Chain
         /\ Len(Append(c, p)) = Len(c) + 1
         /\ IsPrefix(c, Append(c, p))
<1>1. Append(c, p) = c \o <<p>>
  BY AppendIsConcat DEF Chain
<1>2. <<p>> \in Chain /\ Len(<<p>>) = 1
  BY DEF Chain
<1>. QED
  BY <1>1, <1>2, ExtendChain

\* A batch is a chain of its own.
LEMMA BatchIsChain ==
  ASSUME NEW n \in Nat, NEW bs \in [1..n -> Payloads]
  PROVE  bs \in Chain /\ Len(bs) = n
BY DEF Chain

\* Making an ancestor canonical yields a strict prefix (beacon.Fork).
LEMMA CutChain ==
  ASSUME NEW c \in Chain, NEW n \in 0..(Len(c) - 1)
  PROVE  /\ SubSeq(c, 1, n) \in Chain
         /\ Len(SubSeq(c, 1, n)) = n
         /\ IsStrictPrefix(SubSeq(c, 1, n), c)
<1>1. Len(c) \in Nat
  BY LenProperties DEF Chain
<1>2. SubSeq(c, 1, n) \in Chain /\ Len(SubSeq(c, 1, n)) = n
  BY <1>1, SubSeqProperties DEF Chain
<1>3. SubSeq(SubSeq(c, 1, n), 1, n) = SubSeq(c, 1, n)
  BY <1>2, SubSeqFull DEF Chain
<1>4. SubSeq(c, 1, n) # c
  BY <1>1, <1>2
<1>. QED
  BY <1>1, <1>2, <1>3, <1>4 DEF IsStrictPrefix, IsPrefix

\* A fork that is simulated at all keeps block 1 and drops at least one block,
\* at most ReorgDepthMax, at least ReorgDepthMin unless it stops at block 1.
LEMMA ForkPointInRange ==
  ASSUME NEW h \in Nat, ReorgEnabled, NEW d \in ReorgDepthMin..ReorgDepthMax,
         Clamp(d, h) > 0
  PROVE  /\ ForkPoint(d, h) \in 1..(h - 1)
         /\ h - ForkPoint(d, h) <= ReorgDepthMax
         /\ h - ForkPoint(d, h) >= ReorgDepthMin \/ ForkPoint(d, h) = 1
BY ConfigAssumption DEF ForkPoint, Clamp

--------------------------------------------------------------------------------
(***************************************************************************)
(* The transactions of chains.                                             *)
(***************************************************************************)

\* What a block of chain c holds.
LEMMA TxsMember ==
  ASSUME NEW c \in Chain, NEW t
  PROVE  t \in TxsOf(c) <=> \E i \in 1..Len(c) : \E j \in 1..TxsIn[c[i]] : t = <<i, j>>
BY DEF TxsOf

\* A chain holds finitely many transactions.
LEMMA TxsFinite ==
  ASSUME NEW c \in Chain
  PROVE  IsFiniteSet(TxsOf(c)) /\ Cardinality(TxsOf(c)) \in Nat
<1> DEFINE n == Len(c)
           f == [i \in 1..n |-> {i} \X (1..TxsIn[c[i]])]
           S == {{i} \X (1..TxsIn[c[i]]) : i \in 1..n}
<1>1. n \in Nat /\ \A i \in 1..n : TxsIn[c[i]] \in Nat
  BY LenProperties, ElementInSet, ConfigAssumption DEF Chain
<1>2. f \in Surjection(1..n, S)
  BY DEF Surjection
<1>3. IsFiniteSet(1..n)
  BY <1>1, IntervalCount
<1>4. IsFiniteSet(S)
  <2> HIDE DEF f, S, n
  <2> QED
    BY <1>2, <1>3, FS_Surjection
<1>5. \A i \in 1..n : IsFiniteSet({i} \X (1..TxsIn[c[i]]))
  <2> SUFFICES ASSUME NEW i \in 1..n PROVE IsFiniteSet({i} \X (1..TxsIn[c[i]]))
    OBVIOUS
  <2>1. IsFiniteSet({i}) /\ IsFiniteSet(1..TxsIn[c[i]])
    BY <1>1, FS_Singleton, IntervalCount
  <2> QED
    BY <2>1, FS_Product
<1>6. IsFiniteSet(UNION S)
  <2>1. \A T \in S : IsFiniteSet(T)
    BY <1>5
  <2> HIDE DEF S
  <2> QED
    BY <1>4, <2>1, FS_UNION
<1> QED
  BY <1>6, FS_CardinalityType DEF TxsOf

\* A batch adds its own transactions to those of the chain it is put on.
LEMMA TxsExtend ==
  ASSUME NEW c \in Chain, NEW d \in Chain
  PROVE  Cardinality(TxsOf(c \o d)) = Cardinality(TxsOf(c)) + Cardinality(TxsOf(d))
<1> DEFINE m == Len(c)
           n == Len(d)
           g == [t \in TxsOf(d) |-> <<t[1] + m, t[2]>>]
           S == {<<t[1] + m, t[2]>> : t \in TxsOf(d)}
<1>1. m \in Nat /\ n \in Nat
  BY LenProperties DEF Chain
<1>2. /\ c \o d \in Chain /\ Len(c \o d) = m + n
      /\ \A i \in 1..m : (c \o d)[i] = c[i]
      /\ \A i \in 1..n : (c \o d)[m + i] = d[i]
  BY DEF Chain
<1>3. g \in Bijection(TxsOf(d), S)
  <2>1. \A t \in TxsOf(d) : t[1] \in Int /\ t = <<t[1], t[2]>>
    BY <1>1, TxsMember
  <2>2. \A t, u \in TxsOf(d) : t[1] + m = u[1] + m /\ t[2] = u[2] => t = u
    <3> SUFFICES ASSUME NEW t \in TxsOf(d), NEW u \in TxsOf(d), t[1] + m = u[1] + m, t[2] = u[2]
                 PROVE  t = u
      OBVIOUS
    <3>1. t[1] = u[1]
      BY <1>1, <2>1
    <3> QED
      BY <2>1, <3>1
  <2>3. \A t, u \in TxsOf(d) : g[t] = g[u] => t = u
    BY <2>2
  <2> QED
    BY <2>3 DEF Bijection, Injection, IsInjective, Surjection
<1>4. IsFiniteSet(S) /\ Cardinality(S) = Cardinality(TxsOf(d))
  <2>1. ExistsBijection(TxsOf(d), S)
    BY <1>3 DEF ExistsBijection
  <2> HIDE DEF S
  <2> QED
    BY <2>1, TxsFinite, FS_Bijection
<1>5. TxsOf(c \o d) = TxsOf(c) \cup S
  <2>1. ASSUME NEW t \in TxsOf(c \o d) PROVE t \in TxsOf(c) \cup S
    <3>1. PICK i \in 1..Len(c \o d) : \E j \in 1..TxsIn[(c \o d)[i]] : t = <<i, j>>
      <4>1. PICK e \in Chain : e = c \o d
        BY <1>2
      <4>2. t \in TxsOf(e)
        BY <4>1
      <4>3. \E i \in 1..Len(e) : \E j \in 1..TxsIn[e[i]] : t = <<i, j>>
        BY <4>2 DEF TxsOf
      <4> QED
        BY <4>1, <4>3
    <3>1a. PICK j \in 1..TxsIn[(c \o d)[i]] : t = <<i, j>>
      BY <3>1
    <3>2. CASE i <= m
      BY <1>1, <1>2, <3>1a, <3>2, TxsMember
    <3>3. CASE i > m
      <4>1. i - m \in 1..n /\ i = m + (i - m)
        BY <1>1, <3>3
      <4>2. (c \o d)[i] = d[i - m]
        BY <1>2, <4>1
      <4>3. <<i - m, j>> \in TxsOf(d)
        BY <3>1a, <4>1, <4>2, TxsMember
      <4>4. t = <<(i - m) + m, j>>
        BY <1>1, <3>1a, <4>1
      <4> QED
        BY <4>3, <4>4
    <3> QED
      BY <1>1, <3>2, <3>3
  <2>2. ASSUME NEW t \in TxsOf(c) PROVE t \in TxsOf(c \o d)
    <3>1. PICK i \in 1..m : \E j \in 1..TxsIn[c[i]] : t = <<i, j>>
      BY TxsMember
    <3>1a. PICK j \in 1..TxsIn[c[i]] : t = <<i, j>>
      BY <3>1
    <3>2. i \in 1..Len(c \o d) /\ (c \o d)[i] = c[i]
      BY <1>1, <1>2
    <3> QED
      BY <1>2, <3>1a, <3>2, TxsMember
  <2>3. ASSUME NEW s \in S PROVE s \in TxsOf(c \o d)
    <3>1. PICK t \in TxsOf(d) : s = <<t[1] + m, t[2]>>
      OBVIOUS
    <3>2. PICK i \in 1..n : \E j \in 1..TxsIn[d[i]] : t = <<i, j>>
      BY TxsMember
    <3>2a. PICK j \in 1..TxsIn[d[i]] : t = <<i, j>>
      BY <3>2
    <3>3. m + i \in 1..Len(c \o d) /\ (c \o d)[m + i] = d[i] /\ s = <<m + i, j>>
      BY <1>1, <1>2, <3>1, <3>2a
    <3> QED
      BY <1>2, <3>2a, <3>3, TxsMember
  <2> QED
    BY <2>1, <2>2, <2>3
<1>6. TxsOf(c) \cap S = {}
  <2> SUFFICES ASSUME NEW s \in TxsOf(c), s \in S PROVE FALSE
    OBVIOUS
  <2>1. PICK i \in 1..m : \E j \in 1..TxsIn[c[i]] : s = <<i, j>>
    BY TxsMember
  <2>1a. PICK j \in 1..TxsIn[c[i]] : s = <<i, j>>
    BY <2>1
  <2>2. PICK t \in TxsOf(d) : s = <<t[1] + m, t[2]>>
    OBVIOUS
  <2>3. PICK k \in 1..n : \E l \in 1..TxsIn[d[k]] : t = <<k, l>>
    BY TxsMember
  <2>3a. PICK l \in 1..TxsIn[d[k]] : t = <<k, l>>
    BY <2>3
  <2>4. i = k + m
    BY <2>1a, <2>2, <2>3a
  <2> QED
    BY <1>1, <2>4
<1> QED
  <2>1. IsFiniteSet(TxsOf(c)) /\ Cardinality(TxsOf(c)) \in Nat /\ Cardinality(TxsOf(d)) \in Nat
    BY TxsFinite
  <2>2. Cardinality(TxsOf(c) \cap S) = 0
    BY <1>6, FS_EmptySet
  <2>3. Cardinality(TxsOf(c) \cup S)
          = Cardinality(TxsOf(c)) + Cardinality(S) - Cardinality(TxsOf(c) \cap S)
    <3> HIDE DEF S
    <3> QED
      BY <1>4, <2>1, FS_Union
  <2> HIDE DEF S
  <2> QED
    BY <1>4, <1>5, <2>1, <2>2, <2>3

\* The blocks a new chain is opened with hold none.
LEMMA StartTxs == Cardinality(TxsOf(StartChain)) = 0
<1>1. \A i \in 1..Len(StartChain) : TxsIn[StartChain[i]] = 0
  BY ConfigAssumption DEF StartChain
<1>2. TxsOf(StartChain) = {}
  <2> SUFFICES ASSUME NEW t \in TxsOf(StartChain) PROVE FALSE
    OBVIOUS
  <2> QED
    BY <1>1, StartChainIsChain, TxsMember
<1> QED
  BY <1>2, FS_EmptySet

--------------------------------------------------------------------------------
(***************************************************************************)
(* Preparations.                                                           *)
(***************************************************************************)

\* Two actors are never inside an operation at once (s.mu is a mutex).
LEMMA OthersWait ==
  ASSUME MutexInv, NEW a \in Actors, NEW b \in Actors, a # b, pc[a] \in Holding
  PROVE  pc[b] \notin Holding
BY DEF MutexInv

\* A batch that is inserted extends the head: whole, or up to the failing block.
LEMMA InsertExtends ==
  ASSUME IInv, NEW a \in Actors, Insert(a)
  PROVE  /\ chain' \in Chain
         /\ \/ chain' = chain
            \/ \E n \in 1..MaxBatch : \E bs \in [1..n -> Payloads] : chain' = chain \o bs
<1>1. /\ chain \in Chain /\ blocks[a] \in Chain /\ batch[a] \in 1..MaxBatch
      /\ base[a] = chain /\ Len(blocks[a]) = batch[a]
  BY ConfigAssumption DEF IInv, TypeOK, WorkInv, Knows, Insert
<1>2. CASE chain' = base[a] \o blocks[a]
  <2>1. blocks[a] \in [1..batch[a] -> Payloads]
    BY <1>1, LenProperties DEF Chain
  <2>. QED
    BY <1>1, <1>2, <2>1, ExtendChain
<1>3. CASE \E k \in 0..(batch[a] - 1) :
             chain' = IF k = 0 THEN chain ELSE base[a] \o SubSeq(blocks[a], 1, k)
  <2>1. PICK k \in 0..(batch[a] - 1) :
          chain' = IF k = 0 THEN chain ELSE base[a] \o SubSeq(blocks[a], 1, k)
    BY <1>3
  <2>2. CASE k = 0
    BY <1>1, <2>1, <2>2
  <2>3. CASE k # 0
    <3>1. SubSeq(blocks[a], 1, k) \in Chain /\ Len(SubSeq(blocks[a], 1, k)) = k
      BY <1>1, CutChain
    <3>2. SubSeq(blocks[a], 1, k) \in [1..k -> Payloads]
      BY <3>1, LenProperties DEF Chain
    <3>3. k \in 1..MaxBatch
      BY <1>1, <2>3, ConfigAssumption
    <3>4. chain' = chain \o SubSeq(blocks[a], 1, k)
      BY <1>1, <2>1, <2>3
    <3>. QED
      BY <1>1, <3>1, <3>2, <3>3, <3>4, ExtendChain
  <2>. QED
    BY <2>2, <2>3
<1>. QED
  BY <1>2, <1>3 DEF Insert

\* A fork goes back to a block below the head and above genesis.
LEMMA TargetInRange ==
  ASSUME IInv, pc[Loop] = "rewind"
  PROVE  target \in 1..(Len(chain) - 1)
<1>1. chain \in Chain /\ Len(chain) \in Nat
  BY LenProperties DEF IInv, TypeOK, Chain
<1>. QED
  BY <1>1, ForkPointInRange DEF IInv, ForkInv

--------------------------------------------------------------------------------
(***************************************************************************)
(* Each part of the invariant is preserved by every action.                *)
(***************************************************************************)

LEMMA TypeStep ==
  ASSUME IInv, [Next]_vars
  PROVE  TypeOK'
<1>. USE ActorAssumption, ConfigAssumption DEF TypeOK, PC, Results, Goto
<1>0. TypeOK
  BY DEF IInv
<1>1. ASSUME NEW c \in Clients, CallMine(c) PROVE TypeOK'
  BY <1>0, <1>1 DEF CallMine, Actors
<1>2. ASSUME NEW c \in Clients, NEW n \in 0..MaxBatch, CallGenerateBlocks(c, n)
      PROVE TypeOK'
  BY <1>0, <1>2 DEF CallGenerateBlocks, Actors
<1>3. ASSUME NEW a \in Actors, Lock(a) PROVE TypeOK'
  BY <1>0, <1>3 DEF Lock, locals
<1>4. ASSUME NEW a \in Actors, Check(a) PROVE TypeOK'
  BY <1>0, <1>4 DEF Check, Finish, AfterGeneration
<1>5. ASSUME NEW a \in Actors, Generate(a) PROVE TypeOK'
  <2>1. CASE \E bs \in [1..batch[a] -> Contents(a)] : blocks' = [blocks EXCEPT ![a] = bs]
    <3>1. PICK bs \in [1..batch[a] -> Contents(a)] : blocks' = [blocks EXCEPT ![a] = bs]
      BY <2>1
    <3>2. bs \in [1..batch[a] -> Payloads] /\ batch[a] \in Nat
      BY <1>0 DEF Contents
    <3>3. bs \in Chain
      BY <3>2, BatchIsChain
    <3>4. blocks' \in [Actors -> Chain]
      BY <1>0, <3>1, <3>3
    <3>5. base' \in [Actors -> Chain]
      <4>1. base' = [base EXCEPT ![a] = chain] \/ base' = base
        BY <1>5 DEF Generate
      <4>. QED
        BY <1>0, <4>1
    <3>6. pc' \in [Actors -> PC] /\ result' \in [Actors -> Results]
      BY <1>0, <1>5 DEF Generate, Finish, AfterGeneration
    <3>. QED
      BY <1>0, <1>5, <3>4, <3>5, <3>6 DEF Generate
  <2>2. CASE UNCHANGED <<base, blocks>>
    BY <1>0, <1>5, <2>2 DEF Generate, Finish, AfterGeneration
  <2>. QED
    BY <1>5, <2>1, <2>2 DEF Generate
<1>6. ASSUME NEW a \in Actors, Insert(a) PROVE TypeOK'
  <2>1. chain' \in Chain
    BY <1>6, InsertExtends
  <2>. QED
    BY <1>0, <1>6, <2>1 DEF Insert, Finish, AfterGeneration
<1>7. ASSUME NEW a \in Actors, Index(a) PROVE TypeOK'
  <2>1. base[a] \o blocks[a] \in Chain /\ Len(blocks[a]) \in Nat
    BY <1>0, ExtendChain, LenProperties DEF Chain
  <2>2. /\ (stats.mined + Len(blocks[a])) % Word \in 0..(Word - 1)
        /\ (stats.txs + Cardinality(TxsOf(blocks[a]))) % Word \in 0..(Word - 1)
    <3>1. Cardinality(TxsOf(blocks[a])) \in Nat
      BY <1>0, TxsFinite
    <3>. QED
      BY <1>0, <2>1, <3>1
  <2>3. stats' \in [mined : 0..Word-1, txs : 0..Word-1, latest : Chain]
    <3>1. CASE UpdateStats(a)
      BY <2>1, <2>2, <3>1 DEF UpdateStats
    <3>2. CASE UNCHANGED stats
      BY <1>0, <3>2
    <3>. QED
      BY <1>7, <3>1, <3>2 DEF Index
  <2>4. pc' \in [Actors -> PC] /\ result' \in [Actors -> Results]
    BY <1>0, <1>7 DEF Index, Finish, AfterGeneration
  <2>. QED
    BY <1>0, <1>7, <2>3, <2>4 DEF Index
<1>8. ASSUME NEW a \in Actors, Unlock(a) PROVE TypeOK'
  <2>1. << >> \in Chain
    BY DEF Chain
  <2>. QED
    BY <1>0, <1>8, <2>1 DEF Unlock, AfterReturn, DropLocals, IdleOp
<1>9. CASE MaybeSimulateFork
  <2>1. Len(chain) \in Nat
    BY <1>0, LenProperties DEF Chain
  <2>2. ASSUME ReorgEnabled, NEW d \in ReorgDepthMin..ReorgDepthMax, Clamp(d, Len(chain)) > 0
        PROVE  ForkPoint(d, Len(chain)) \in Nat
    BY <2>1, <2>2, ForkPointInRange
  <2>. QED
    BY <1>0, <1>9, <2>2 DEF MaybeSimulateFork, Actors
<1>10. CASE Rewind
  <2>1. target \in 0..(Len(chain) - 1)
    BY <1>10, TargetInRange DEF Rewind
  <2>2. SubSeq(chain, 1, target) \in Chain
    BY <1>0, <2>1, CutChain
  <2>. QED
    BY <1>0, <1>10, <2>2 DEF Rewind, Actors
<1>11. CASE Seal
  <2>1. \A p \in Payloads : Append(chain, p) \in Chain
    BY <1>0, AppendChain
  <2>2. chain' \in Chain
    <3>1. chain \in Chain
      BY <1>0
    <3>2. (\E p \in Payloads : chain' = Append(chain, p)) \/ chain' = chain
      BY <1>11 DEF Seal
    <3> HIDE DEF TypeOK, PC, Results
    <3>. QED
      BY <2>1, <3>1, <3>2
  <2>3. pc' \in [Actors -> PC]
    BY <1>0, <1>11 DEF Seal, Actors
  <2>. QED
    BY <1>0, <1>11, <2>2, <2>3 DEF Seal, locals
<1>12. CASE EnsureChainInitialized
  BY <1>0, <1>12 DEF EnsureChainInitialized, Actors, locals
<1>13. CASE Spawn
  BY <1>0, <1>13 DEF Spawn, Actors, locals
<1>14. CASE SetRunning
  BY <1>0, <1>14 DEF SetRunning, Actors, locals
<1>15. CASE Tick
  BY <1>0, <1>15 DEF Tick, Actors, locals
<1>16. CASE LoopExit
  BY <1>0, <1>16 DEF LoopExit, LoopCancelled, LoopTimedOut, Actors, locals
<1>17. CASE Expire
  BY <1>0, <1>17 DEF Expire, locals
<1>18. CASE UNCHANGED vars
  BY <1>0, <1>18 DEF vars
<1>. QED
  BY <1>1, <1>2, <1>3, <1>4, <1>5, <1>6, <1>7, <1>8, <1>9, <1>10, <1>11, <1>12,
     <1>13, <1>14, <1>15, <1>16, <1>17, <1>18 DEF Next, Work, Fork

\* An actor enters and leaves the critical section with the mutex.
LEMMA MutexStep ==
  ASSUME IInv, [Next]_vars
  PROVE  MutexInv'
<1>. USE ActorAssumption DEF MutexInv, Holding, Goto
<1>0. /\ MutexInv /\ BootInv /\ OpInv
      /\ mu \in Actors \cup {NoActor} /\ pc \in [Actors -> PC]
  BY DEF IInv, TypeOK
<1>1. ASSUME NEW c \in Clients, CallMine(c) PROVE MutexInv'
  BY <1>0, <1>1 DEF CallMine, Actors
<1>2. ASSUME NEW c \in Clients, NEW n \in 0..MaxBatch, CallGenerateBlocks(c, n)
      PROVE MutexInv'
  BY <1>0, <1>2 DEF CallGenerateBlocks, Actors
<1>3. ASSUME NEW a \in Actors, Lock(a) PROVE MutexInv'
  <2>1. NoActor \notin Actors
    BY DEF Actors
  <2>2. \A b \in Actors : pc[b] \notin Holding
    BY <1>0, <1>3, <2>1 DEF Lock
  <2>. QED
    BY <1>0, <1>3, <2>1, <2>2 DEF Lock
<1>4. ASSUME NEW a \in Actors, Check(a) PROVE MutexInv'
  BY <1>0, <1>4 DEF Check, Finish, AfterGeneration
<1>5. ASSUME NEW a \in Actors, Generate(a) PROVE MutexInv'
  BY <1>0, <1>5 DEF Generate, Finish, AfterGeneration
<1>6. ASSUME NEW a \in Actors, Insert(a) PROVE MutexInv'
  <2>1. /\ mu' = mu /\ pc[a] = "insert"
        /\ \/ pc' = [pc EXCEPT ![a] = "index"]
           \/ pc' = [pc EXCEPT ![a] = AfterGeneration(a)]
    BY <1>6 DEF Insert, Finish
  <2>. QED
    BY <1>0, <2>1 DEF AfterGeneration
<1>7. ASSUME NEW a \in Actors, Index(a) PROVE MutexInv'
  BY <1>0, <1>7 DEF Index, UpdateStats, Finish, AfterGeneration
<1>8. ASSUME NEW a \in Actors, Unlock(a) PROVE MutexInv'
  <2>1. NoActor \notin Actors
    BY DEF Actors
  <2>2. PICK l \in {"idle", "spawn", "failed"} : pc' = [pc EXCEPT ![a] = l]
    BY <1>8 DEF Unlock, AfterReturn
  <2>3. mu' = NoActor /\ mu = a
    BY <1>0, <1>8 DEF Unlock
  <2>. QED
    BY <1>0, <2>1, <2>2, <2>3
<1>9. CASE MaybeSimulateFork
  BY <1>0, <1>9 DEF MaybeSimulateFork, Actors
<1>10. CASE Rewind
  <2>1. /\ mu' = mu /\ pc[Loop] = "rewind"
        /\ pc' = [pc EXCEPT ![Loop] = "seal"] \/ pc' = [pc EXCEPT ![Loop] = "unlock"]
    BY <1>10 DEF Rewind
  <2>. QED
    BY <1>0, <2>1 DEF Actors
<1>11. CASE Seal
  BY <1>0, <1>11 DEF Seal, Actors, locals
<1>12. CASE EnsureChainInitialized
  BY <1>0, <1>12 DEF EnsureChainInitialized, Actors, locals
<1>13. CASE Spawn
  BY <1>0, <1>13 DEF Spawn, BootInv, Actors
<1>14. CASE SetRunning
  BY <1>0, <1>14 DEF SetRunning, Actors, locals
<1>15. CASE Tick
  BY <1>0, <1>15 DEF Tick, Actors, locals
<1>16. CASE LoopExit
  BY <1>0, <1>16 DEF LoopExit, LoopCancelled, LoopTimedOut, Actors, locals
<1>17. CASE Expire
  BY <1>0, <1>17 DEF Expire, locals
<1>18. CASE UNCHANGED vars
  BY <1>0, <1>18 DEF vars
<1>. QED
  BY <1>1, <1>2, <1>3, <1>4, <1>5, <1>6, <1>7, <1>8, <1>9, <1>10, <1>11, <1>12,
     <1>13, <1>14, <1>15, <1>16, <1>17, <1>18 DEF Next, Work, Fork


\* Ticks and forks belong to the loop, whatever the others do.
LEMMA OpStep ==
  ASSUME IInv, [Next]_vars
  PROVE  OpInv'
<1>. USE ActorAssumption DEF OpInv, Goto
<1>0. /\ OpInv
      /\ pc \in [Actors -> PC] /\ op \in [Actors -> {"generate", "mine", "tick"}]
      /\ batch \in [Actors -> 0..MaxBatch]
  BY DEF IInv, TypeOK
<1>1. ASSUME NEW c \in Clients, CallMine(c) PROVE OpInv'
  BY <1>0, <1>1 DEF CallMine, Actors
<1>2. ASSUME NEW c \in Clients, NEW n \in 0..MaxBatch, CallGenerateBlocks(c, n)
      PROVE OpInv'
  BY <1>0, <1>2 DEF CallGenerateBlocks, Actors
<1>3. ASSUME NEW a \in Actors, Lock(a) PROVE OpInv'
  BY <1>0, <1>3 DEF Lock, locals
<1>4. ASSUME NEW a \in Actors, Check(a) PROVE OpInv'
  BY <1>0, <1>4 DEF Check, Finish, AfterGeneration
<1>5. ASSUME NEW a \in Actors, Generate(a) PROVE OpInv'
  BY <1>0, <1>5 DEF Generate, Finish, AfterGeneration
<1>6. ASSUME NEW a \in Actors, Insert(a) PROVE OpInv'
  BY <1>0, <1>6 DEF Insert, Finish, AfterGeneration
<1>7. ASSUME NEW a \in Actors, Index(a) PROVE OpInv'
  BY <1>0, <1>7 DEF Index, UpdateStats, Finish, AfterGeneration
<1>8. ASSUME NEW a \in Actors, Unlock(a) PROVE OpInv'
  BY <1>0, <1>8 DEF Unlock, AfterReturn, DropLocals, IdleOp
<1>9. CASE MaybeSimulateFork
  BY <1>0, <1>9 DEF MaybeSimulateFork, Actors
<1>10. CASE Rewind
  BY <1>0, <1>10 DEF Rewind, Actors
<1>11. CASE Seal
  BY <1>0, <1>11 DEF Seal, Actors, locals
<1>12. CASE EnsureChainInitialized
  BY <1>0, <1>12 DEF EnsureChainInitialized, Actors, locals
<1>13. CASE Spawn
  BY <1>0, <1>13 DEF Spawn, Actors, locals
<1>14. CASE SetRunning
  BY <1>0, <1>14 DEF SetRunning, Actors, locals
<1>15. CASE Tick
  BY <1>0, <1>15 DEF Tick, Actors, locals
<1>16. CASE LoopExit
  BY <1>0, <1>16 DEF LoopExit, LoopCancelled, LoopTimedOut, Actors, locals
<1>17. CASE Expire
  BY <1>0, <1>17 DEF Expire, locals
<1>18. CASE UNCHANGED vars
  BY <1>0, <1>18 DEF vars
<1>. QED
  BY <1>1, <1>2, <1>3, <1>4, <1>5, <1>6, <1>7, <1>8, <1>9, <1>10, <1>11, <1>12,
     <1>13, <1>14, <1>15, <1>16, <1>17, <1>18 DEF Next, Work, Fork


\* Run spawns the loop and never goes back.
LEMMA BootStep ==
  ASSUME IInv, [Next]_vars
  PROVE  BootInv'
<1>. USE ActorAssumption DEF BootInv, Goto
<1>0. BootInv /\ pc \in [Actors -> PC]
  BY DEF IInv, TypeOK
<1>1. ASSUME NEW c \in Clients, CallMine(c) PROVE BootInv'
  BY <1>0, <1>1 DEF CallMine, Actors
<1>2. ASSUME NEW c \in Clients, NEW n \in 0..MaxBatch, CallGenerateBlocks(c, n)
      PROVE BootInv'
  BY <1>0, <1>2 DEF CallGenerateBlocks, Actors
<1>3. ASSUME NEW a \in Actors, Lock(a) PROVE BootInv'
  BY <1>0, <1>3 DEF Lock, locals, Actors
<1>4. ASSUME NEW a \in Actors, Check(a) PROVE BootInv'
  BY <1>0, <1>4 DEF Check, Finish, AfterGeneration, Actors
<1>5. ASSUME NEW a \in Actors, Generate(a) PROVE BootInv'
  BY <1>0, <1>5 DEF Generate, Finish, AfterGeneration, Actors
<1>6. ASSUME NEW a \in Actors, Insert(a) PROVE BootInv'
  BY <1>0, <1>6 DEF Insert, Finish, AfterGeneration, Actors
<1>7. ASSUME NEW a \in Actors, Index(a) PROVE BootInv'
  BY <1>0, <1>7 DEF Index, Finish, AfterGeneration, Actors
<1>8. ASSUME NEW a \in Actors, Unlock(a) PROVE BootInv'
  BY <1>0, <1>8 DEF Unlock, AfterReturn, DropLocals, IdleOp, Actors
<1>9. CASE MaybeSimulateFork
  BY <1>0, <1>9 DEF MaybeSimulateFork, Actors
<1>10. CASE Rewind
  BY <1>0, <1>10 DEF Rewind, Actors
<1>11. CASE Seal
  BY <1>0, <1>11 DEF Seal, Actors, locals
<1>12. CASE EnsureChainInitialized
  BY <1>0, <1>12 DEF EnsureChainInitialized, Actors, locals
<1>13. CASE Spawn
  BY <1>0, <1>13 DEF Spawn, Actors, locals
<1>14. CASE SetRunning
  BY <1>0, <1>14 DEF SetRunning, Actors, locals
<1>15. CASE Tick
  BY <1>0, <1>15 DEF Tick, Actors, locals
<1>16. CASE LoopExit
  BY <1>0, <1>16 DEF LoopExit, LoopCancelled, LoopTimedOut, Actors, locals
<1>17. CASE Expire
  BY <1>0, <1>17 DEF Expire, locals
<1>18. CASE UNCHANGED vars
  BY <1>0, <1>18 DEF vars
<1>. QED
  BY <1>1, <1>2, <1>3, <1>4, <1>5, <1>6, <1>7, <1>8, <1>9, <1>10, <1>11, <1>12,
     <1>13, <1>14, <1>15, <1>16, <1>17, <1>18 DEF Next, Work, Fork

\* What an actor has read of the chain stays true while it holds the mutex.
LEMMA WorkStep ==
  ASSUME IInv, [Next]_vars
  PROVE  WorkInv'
<1>. USE ActorAssumption DEF WorkInv, Knows, Goto
<1>0. /\ WorkInv /\ OpInv
      /\ pc \in [Actors -> PC] /\ op \in [Actors -> {"generate", "mine", "tick"}]
      /\ batch \in [Actors -> 0..MaxBatch] /\ base \in [Actors -> Chain]
      /\ blocks \in [Actors -> Chain] /\ result \in [Actors -> Results]
  BY DEF IInv, TypeOK
<1>1. ASSUME NEW c \in Clients, CallMine(c) PROVE WorkInv'
  BY <1>0, <1>1 DEF CallMine, Actors
<1>2. ASSUME NEW c \in Clients, NEW n \in 0..MaxBatch, CallGenerateBlocks(c, n)
      PROVE WorkInv'
  BY <1>0, <1>2 DEF CallGenerateBlocks, Actors
<1>3. ASSUME NEW a \in Actors, Lock(a) PROVE WorkInv'
  BY <1>0, <1>3 DEF Lock, locals
<1>4. ASSUME NEW a \in Actors, Check(a) PROVE WorkInv'
  <2>1. op[a] # "generate" => batch[a] = 1
    BY <1>0 DEF OpInv
  <2>. QED
    BY <1>0, <1>4, <2>1 DEF Check, Finish, AfterGeneration
<1>5. ASSUME NEW a \in Actors, Generate(a) PROVE WorkInv'
  <2>. SUFFICES ASSUME NEW b \in Actors PROVE Knows(b)'
    BY DEF WorkInv
  <2>1. CASE b # a
    BY <1>0, <1>5, <2>1 DEF Generate, Finish, Knows
  <2>2. CASE b = a
    <3>1. CASE pc' = [pc EXCEPT ![a] = "insert"]
      <4>1. PICK bs \in [1..batch[a] -> Contents(a)] : blocks' = [blocks EXCEPT ![a] = bs]
        BY <1>0, <1>5, <3>1 DEF Generate, Finish, AfterGeneration
      <4>2. bs \in [1..batch[a] -> Payloads] /\ batch[a] \in Nat
        BY <1>0, ConfigAssumption DEF Contents
      <4>3. Len(blocks'[a]) = batch[a]
        BY <1>0, <4>1, <4>2, BatchIsChain
      <4>4. base'[a] = chain
        BY <1>0, <1>5, <3>1 DEF Generate, Finish, AfterGeneration
      <4>. QED
        BY <1>0, <1>5, <2>2, <3>1, <4>3, <4>4 DEF Generate, Knows
    <3>2. CASE pc' = [pc EXCEPT ![a] = AfterGeneration(a)]
      BY <1>0, <1>5, <2>2, <3>2 DEF Knows, AfterGeneration
    <3>. QED
      BY <1>5, <3>1, <3>2 DEF Generate, Finish
  <2>. QED
    BY <2>1, <2>2
<1>6. ASSUME NEW a \in Actors, Insert(a) PROVE WorkInv'
  <2>. SUFFICES ASSUME NEW b \in Actors PROVE Knows(b)'
    BY DEF WorkInv
  <2>1. CASE b # a
    <3>1. pc[b] \notin Holding
      BY <2>1, <1>6, OthersWait DEF Insert, IInv, Holding
    <3>2. pc'[b] = pc[b] /\ blocks'[b] = blocks[b]
      BY <1>0, <1>6, <2>1 DEF Insert, Finish
    <3>. QED
      BY <1>0, <3>1, <3>2 DEF Knows, Holding
  <2>2. CASE b = a
    <3>1. \/ pc'[a] = "index" /\ chain' = base[a] \o blocks[a]
          \/ pc'[a] \in {"fork", "unlock"}
      BY <1>0, <1>6 DEF Insert, Finish, AfterGeneration
    <3>2. base'[a] = base[a] /\ blocks'[a] = blocks[a]
      BY <1>6 DEF Insert
    <3>3. Len(blocks[a]) > 0
      <4>1. Len(blocks[a]) = batch[a] /\ batch[a] > 0
        BY <1>0, <1>6 DEF Insert
      <4>. QED
        BY <4>1
    <3>. QED
      BY <2>2, <3>1, <3>2, <3>3 DEF Knows
  <2>. QED
    BY <2>1, <2>2
<1>7. ASSUME NEW a \in Actors, Index(a) PROVE WorkInv'
  BY <1>0, <1>7 DEF Index, UpdateStats, Finish, AfterGeneration
<1>8. ASSUME NEW a \in Actors, Unlock(a) PROVE WorkInv'
  BY <1>0, <1>8 DEF Unlock, AfterReturn, DropLocals, IdleOp
<1>9. CASE MaybeSimulateFork
  BY <1>0, <1>9 DEF MaybeSimulateFork, Actors
<1>10. CASE Rewind
  <2>. SUFFICES ASSUME NEW b \in Actors PROVE Knows(b)'
    BY DEF WorkInv
  <2>1. CASE b # Loop
    <3>1. pc[b] \notin Holding
      BY <2>1, <1>10, OthersWait DEF Rewind, IInv, Holding, Actors
    <3>2. pc'[b] = pc[b] /\ blocks'[b] = blocks[b]
      BY <1>0, <1>10, <2>1 DEF Rewind
    <3>. QED
      BY <1>0, <3>1, <3>2 DEF Knows, Holding
  <2>2. CASE b = Loop
    BY <1>0, <1>10, <2>2 DEF Rewind, Knows
  <2>. QED
    BY <2>1, <2>2
<1>11. CASE Seal
  <2>. SUFFICES ASSUME NEW b \in Actors PROVE Knows(b)'
    BY DEF WorkInv
  <2>1. CASE b # Loop
    <3>1. pc[b] \notin Holding
      BY <2>1, <1>11, OthersWait DEF Seal, IInv, Holding, Actors
    <3>2. pc'[b] = pc[b] /\ blocks'[b] = blocks[b]
      BY <1>0, <1>11, <2>1 DEF Seal, locals
    <3>. QED
      BY <1>0, <3>1, <3>2 DEF Knows, Holding
  <2>2. CASE b = Loop
    BY <1>0, <1>11, <2>2 DEF Seal, Knows
  <2>. QED
    BY <2>1, <2>2
<1>12. CASE EnsureChainInitialized
  BY <1>0, <1>12 DEF EnsureChainInitialized, Actors, locals
<1>13. CASE Spawn
  BY <1>0, <1>13 DEF Spawn, Actors, locals, IInv, BootInv
<1>14. CASE SetRunning
  BY <1>0, <1>14 DEF SetRunning, Actors, locals
<1>15. CASE Tick
  BY <1>0, <1>15 DEF Tick, Actors, locals
<1>16. CASE LoopExit
  BY <1>0, <1>16 DEF LoopExit, LoopCancelled, LoopTimedOut, Actors, locals
<1>17. CASE Expire
  BY <1>0, <1>17 DEF Expire, locals
<1>18. CASE UNCHANGED vars
  BY <1>0, <1>18 DEF vars
<1>. QED
  BY <1>1, <1>2, <1>3, <1>4, <1>5, <1>6, <1>7, <1>8, <1>9, <1>10, <1>11, <1>12,
     <1>13, <1>14, <1>15, <1>16, <1>17, <1>18 DEF Next, Work, Fork


\* Nobody moves the head between the choice of a fork block and the fork.
LEMMA ForkStep ==
  ASSUME IInv, [Next]_vars
  PROVE  ForkInv'
<1>. USE ActorAssumption DEF ForkInv, Goto
<1>0. /\ ForkInv /\ OpInv
      /\ pc \in [Actors -> PC] /\ op \in [Actors -> {"generate", "mine", "tick"}]
      /\ batch \in [Actors -> 0..MaxBatch] /\ base \in [Actors -> Chain]
      /\ blocks \in [Actors -> Chain] /\ result \in [Actors -> Results]
  BY DEF IInv, TypeOK
<1>1. ASSUME NEW c \in Clients, CallMine(c) PROVE ForkInv'
  BY <1>0, <1>1 DEF CallMine, Actors
<1>2. ASSUME NEW c \in Clients, NEW n \in 0..MaxBatch, CallGenerateBlocks(c, n)
      PROVE ForkInv'
  BY <1>0, <1>2 DEF CallGenerateBlocks, Actors
<1>3. ASSUME NEW a \in Actors, Lock(a) PROVE ForkInv'
  BY <1>0, <1>3 DEF Lock, locals
<1>4. ASSUME NEW a \in Actors, Check(a) PROVE ForkInv'
  <2>1. pc'[Loop] # "rewind"
    <3>1. CASE a = Loop
      BY <1>0, <1>4, <3>1 DEF Check, Finish, AfterGeneration
    <3>2. CASE a # Loop
      BY <1>0, <1>4, <3>2, OthersWait DEF Check, Finish, IInv, Holding, Actors
    <3>. QED
      BY <3>1, <3>2
  <2>. QED
    BY <2>1
<1>5. ASSUME NEW a \in Actors, Generate(a) PROVE ForkInv'
  <2>1. pc'[Loop] # "rewind"
    <3>1. CASE a = Loop
      BY <1>0, <1>5, <3>1 DEF Generate, Finish, AfterGeneration
    <3>2. CASE a # Loop
      BY <1>0, <1>5, <3>2, OthersWait DEF Generate, Finish, IInv, Holding, Actors
    <3>. QED
      BY <3>1, <3>2
  <2>. QED
    BY <2>1
<1>6. ASSUME NEW a \in Actors, Insert(a) PROVE ForkInv'
  <2>1. pc'[Loop] # "rewind"
    <3>1. CASE a = Loop
      BY <1>0, <1>6, <3>1 DEF Insert, Finish, AfterGeneration
    <3>2. CASE a # Loop
      BY <1>0, <1>6, <3>2, OthersWait DEF Insert, Finish, IInv, Holding, Actors
    <3>. QED
      BY <3>1, <3>2
  <2>. QED
    BY <2>1
<1>7. ASSUME NEW a \in Actors, Index(a) PROVE ForkInv'
  <2>1. pc'[Loop] # "rewind"
    <3>1. CASE a = Loop
      BY <1>0, <1>7, <3>1 DEF Index, Finish, AfterGeneration
    <3>2. CASE a # Loop
      BY <1>0, <1>7, <3>2, OthersWait DEF Index, Finish, IInv, Holding, Actors
    <3>. QED
      BY <3>1, <3>2
  <2>. QED
    BY <2>1
<1>8. ASSUME NEW a \in Actors, Unlock(a) PROVE ForkInv'
  BY <1>0, <1>8 DEF Unlock, AfterReturn, DropLocals, IdleOp
<1>9. CASE MaybeSimulateFork
  BY <1>0, <1>9 DEF MaybeSimulateFork, Actors
<1>10. CASE Rewind
  BY <1>0, <1>10 DEF Rewind, Actors
<1>11. CASE Seal
  BY <1>0, <1>11 DEF Seal, Actors, locals
<1>12. CASE EnsureChainInitialized
  BY <1>0, <1>12 DEF EnsureChainInitialized, Actors, locals
<1>13. CASE Spawn
  BY <1>0, <1>13 DEF Spawn, Actors, locals
<1>14. CASE SetRunning
  BY <1>0, <1>14 DEF SetRunning, Actors, locals
<1>15. CASE Tick
  BY <1>0, <1>15 DEF Tick, Actors, locals
<1>16. CASE LoopExit
  BY <1>0, <1>16 DEF LoopExit, LoopCancelled, LoopTimedOut, Actors, locals
<1>17. CASE Expire
  BY <1>0, <1>17 DEF Expire, locals
<1>18. CASE UNCHANGED vars
  BY <1>0, <1>18 DEF vars
<1>. QED
  BY <1>1, <1>2, <1>3, <1>4, <1>5, <1>6, <1>7, <1>8, <1>9, <1>10, <1>11, <1>12,
     <1>13, <1>14, <1>15, <1>16, <1>17, <1>18 DEF Next, Work, Fork


\* Blocks on their way back to the caller are the head of the chain.
LEMMA ReturnedStep ==
  ASSUME IInv, [Next]_vars
  PROVE  ReturnedBlocksCanonical'
<1>. USE ActorAssumption DEF ReturnedBlocksCanonical, Goto
<1>0. /\ ReturnedBlocksCanonical /\ WorkInv /\ OpInv
      /\ pc \in [Actors -> PC] /\ op \in [Actors -> {"generate", "mine", "tick"}]
      /\ batch \in [Actors -> 0..MaxBatch] /\ base \in [Actors -> Chain]
      /\ blocks \in [Actors -> Chain] /\ result \in [Actors -> Results]
  BY DEF IInv, TypeOK
<1>1. ASSUME NEW c \in Clients, CallMine(c) PROVE ReturnedBlocksCanonical'
  BY <1>0, <1>1 DEF CallMine, Actors
<1>2. ASSUME NEW c \in Clients, NEW n \in 0..MaxBatch, CallGenerateBlocks(c, n)
      PROVE ReturnedBlocksCanonical'
  BY <1>0, <1>2 DEF CallGenerateBlocks, Actors
<1>3. ASSUME NEW a \in Actors, Lock(a) PROVE ReturnedBlocksCanonical'
  BY <1>0, <1>3 DEF Lock, locals
<1>4. ASSUME NEW a \in Actors, Check(a) PROVE ReturnedBlocksCanonical'
  <2>. SUFFICES ASSUME NEW b \in Actors \ {Loop}, pc'[b] = "unlock", result'[b] = "ok"
                PROVE  blocks'[b] = << >>
    OBVIOUS
  <2>1. CASE b = a
    BY <1>0, <1>4, <2>1 DEF Check, WorkInv, Knows
  <2>2. CASE b # a
    BY <1>0, <1>4, <2>2, OthersWait DEF Check, Finish, IInv, Holding
  <2>. QED
    BY <2>1, <2>2
<1>5. ASSUME NEW a \in Actors, Generate(a) PROVE ReturnedBlocksCanonical'
  BY <1>0, <1>5 DEF Generate, Finish, AfterGeneration
<1>6. ASSUME NEW a \in Actors, Insert(a) PROVE ReturnedBlocksCanonical'
  <2>. SUFFICES ASSUME NEW b \in Actors \ {Loop}, pc'[b] = "unlock", result'[b] = "ok"
                PROVE  FALSE
    OBVIOUS
  <2>1. CASE b = a
    BY <1>0, <1>6, <2>1 DEF Insert, Finish
  <2>2. CASE b # a
    BY <1>0, <1>6, <2>2, OthersWait DEF Insert, Finish, IInv, Holding
  <2>. QED
    BY <2>1, <2>2
<1>7. ASSUME NEW a \in Actors, Index(a) PROVE ReturnedBlocksCanonical'
  <2>. SUFFICES ASSUME NEW b \in Actors \ {Loop}, pc'[b] = "unlock", result'[b] = "ok"
                PROVE  chain' = base'[b] \o blocks'[b] /\ stats'.latest = chain'
    OBVIOUS
  <2>1. CASE b = a
    <3>1. UpdateStats(a)
      BY <1>0, <1>7, <2>1 DEF Index, Finish
    <3>2. chain = base[a] \o blocks[a]
      BY <1>0, <1>7 DEF Index, WorkInv, Knows
    <3>. QED
      BY <1>7, <2>1, <3>1, <3>2 DEF Index, UpdateStats
  <2>2. CASE b # a
    BY <1>0, <1>7, <2>2, OthersWait DEF Index, Finish, IInv, Holding
  <2>. QED
    BY <2>1, <2>2
<1>8. ASSUME NEW a \in Actors, Unlock(a) PROVE ReturnedBlocksCanonical'
  BY <1>0, <1>8 DEF Unlock, AfterReturn, DropLocals, IdleOp
<1>9. CASE MaybeSimulateFork
  BY <1>0, <1>9 DEF MaybeSimulateFork, Actors
<1>10. CASE Rewind
  <2>. SUFFICES ASSUME NEW b \in Actors \ {Loop}, pc'[b] = "unlock" PROVE FALSE
    OBVIOUS
  <2>. QED
    BY <1>0, <1>10, OthersWait DEF Rewind, IInv, Holding, Actors
<1>11. CASE Seal
  <2>. SUFFICES ASSUME NEW b \in Actors \ {Loop}, pc'[b] = "unlock" PROVE FALSE
    OBVIOUS
  <2>. QED
    BY <1>0, <1>11, OthersWait DEF Seal, IInv, Holding, Actors
<1>12. CASE EnsureChainInitialized
  BY <1>0, <1>12 DEF EnsureChainInitialized, Actors, locals
<1>13. CASE Spawn
  BY <1>0, <1>13 DEF Spawn, Actors, locals
<1>14. CASE SetRunning
  BY <1>0, <1>14 DEF SetRunning, Actors, locals
<1>15. CASE Tick
  BY <1>0, <1>15 DEF Tick, Actors, locals
<1>16. CASE LoopExit
  BY <1>0, <1>16 DEF LoopExit, LoopCancelled, LoopTimedOut, Actors, locals
<1>17. CASE Expire
  BY <1>0, <1>17 DEF Expire, locals
<1>18. CASE UNCHANGED vars
  BY <1>0, <1>18 DEF vars
<1>. QED
  BY <1>1, <1>2, <1>3, <1>4, <1>5, <1>6, <1>7, <1>8, <1>9, <1>10, <1>11, <1>12,
     <1>13, <1>14, <1>15, <1>16, <1>17, <1>18 DEF Next, Work, Fork

\* The statistics keep up with the chain, and never change without it.
LEMMA CountStep ==
  ASSUME IInv, [Next]_vars
  PROVE  CountInv'
<1>. USE ActorAssumption DEF Goto
<1>0. /\ CountInv /\ WorkInv /\ OpInv /\ BootInv
      /\ pc \in [Actors -> PC] /\ op \in [Actors -> {"generate", "mine", "tick"}]
      /\ base \in [Actors -> Chain] /\ blocks \in [Actors -> Chain]
      /\ stats \in [mined : 0..Word-1, txs : 0..Word-1, latest : Chain] /\ Loop \in Actors
  BY DEF IInv, TypeOK, Actors
<1>. SUFFICES ASSUME counted' PROVE CountInv'
  BY DEF CountInv
<1>1. ASSUME NEW a \in Actors, Insert(a) PROVE CountInv'
  <2>1. \A b \in Actors : b # a => pc[b] \notin {"index", "seal"}
    BY <1>1, OthersWait DEF Insert, IInv, Holding
  <2>2. counted /\ Accounts(chain)
    BY <1>0, <1>1, <2>1 DEF Insert, CountInv
  <2>3. base[a] = chain
    BY <1>0, <1>1 DEF Insert, WorkInv, Knows
  <2>4. UNCHANGED <<stats, base>>
    BY <1>1 DEF Insert
  <2>5. CASE Goto(a, "index")
    <3>1. \A b \in Actors : pc'[b] = "index" => Accounts(base[b])
      BY <1>0, <2>1, <2>2, <2>3, <2>5
    <3>2. pc'[Loop] # "seal" /\ pc'[a] = "index"
      BY <1>0, <1>1, <2>1, <2>5 DEF Insert
    <3>. QED
      BY <2>4, <3>1, <3>2 DEF CountInv, Accounts
  <2>6. CASE chain' = chain /\ Finish(a, "error")
    <3>1. \A b \in Actors : pc'[b] \notin {"index", "seal"}
      BY <1>0, <1>1, <2>1, <2>6 DEF Insert, Finish, AfterGeneration
    <3>. QED
      BY <1>0, <2>2, <2>4, <2>6, <3>1 DEF CountInv, Accounts
  <2>. QED
    BY <1>1, <2>2, <2>5, <2>6 DEF Insert
<1>2. ASSUME NEW a \in Actors, Index(a) PROVE CountInv'
  <2>1. UpdateStats(a) /\ UNCHANGED <<counted, chain>> /\ Finish(a, "ok")
    BY <1>2 DEF Index
  <2>2. Accounts(base[a]) /\ chain = base[a] \o blocks[a] /\ Len(blocks[a]) > 0
    BY <1>0, <1>2, <2>1 DEF Index, CountInv, WorkInv, Knows
  <2>3. \A b \in Actors : pc'[b] \notin {"index", "seal"}
    BY <1>0, <1>2, <2>1, OthersWait DEF Index, Finish, AfterGeneration, IInv, Holding
  <2>4. Len(chain) = Len(base[a]) + Len(blocks[a])
    BY <1>0, <2>2, ExtendChain
  <2>5. /\ Len(base[a]) \in Int /\ Len(blocks[a]) \in Int
        /\ StartHeight \in Int /\ stats.mined \in Int /\ stats.txs \in Int
        /\ Cardinality(TxsOf(base[a])) \in Int /\ Cardinality(TxsOf(blocks[a])) \in Int
    BY <1>0, LenProperties, ConfigAssumption, TxsFinite DEF Chain
  <2>6. /\ stats'.mined = (stats.mined + Len(blocks[a])) % Word
        /\ stats'.txs = (stats.txs + Cardinality(TxsOf(blocks[a]))) % Word
        /\ stats'.latest = chain
    BY <2>1, <2>2 DEF UpdateStats
  <2>7. (StartHeight + stats.mined) % Word = Len(base[a]) % Word
    BY <2>2 DEF Accounts
  <2>8. (StartHeight + stats'.mined) % Word = Len(chain) % Word
    <3>1. PICK w \in Nat \ {0}, h \in Int, m \in Int, l \in Int, b \in Int :
            /\ w = Word /\ h = StartHeight
            /\ m = stats.mined /\ l = Len(base[a]) /\ b = Len(blocks[a])
      BY <2>5, ActorAssumption
    <3>2. Agrees(w, h, m, l)
      BY <2>7, <3>1 DEF Agrees
    <3>3. Agrees(w, h, (m + b) % w, l + b)
      BY <3>2, Recount
    <3>. QED
      BY <2>4, <2>6, <3>1, <3>3 DEF Agrees
  <2>9. stats'.txs = Cardinality(TxsOf(chain)) % Word
    <3>1. PICK t \in Int, k \in Int, b \in Int :
            /\ t = stats.txs /\ k = Cardinality(TxsOf(base[a]))
            /\ b = Cardinality(TxsOf(blocks[a]))
      BY <2>5
    <3>2. t = k % Word
      BY <2>2, <3>1 DEF Accounts
    <3>3. (t + b) % Word = (k + b) % Word
      BY <3>2, ActorAssumption, CountModulo
    <3>4. Cardinality(TxsOf(chain)) = k + b
      BY <1>0, <2>2, <3>1, TxsExtend
    <3>. QED
      BY <2>6, <3>1, <3>3, <3>4
  <2>10. Len(chain) > StartHeight
    <3>1. Len(base[a]) >= StartHeight
      BY <2>2 DEF Accounts
    <3>2. \A x, y, z, h \in Int : z = x + y /\ x >= h /\ y > 0 => z > h
      OBVIOUS
    <3>3. Len(chain) \in Int
      BY <2>4, <2>5
    <3>. QED
      BY <2>2, <2>4, <2>5, <3>1, <3>2, <3>3, Zenon
  <2>11. Accounts(chain)'
    BY <2>1, <2>5, <2>6, <2>8, <2>9, <2>10 DEF Accounts
  <2>. QED
    BY <1>0, <2>3, <2>11 DEF CountInv
<1>3. ASSUME Rewind PROVE CountInv'
  <2>1. UNCHANGED <<counted, chain, stats, base>> /\ pc' = [pc EXCEPT ![Loop] = "unlock"]
    BY <1>3 DEF Rewind
  <2>. QED
    BY <1>0, <1>3, <2>1 DEF Rewind, CountInv, Accounts
<1>4. ASSUME Seal PROVE CountInv'
  BY <1>0, <1>4 DEF Seal, CountInv
<1>5. ASSUME UNCHANGED <<counted, chain, stats>>,
             \A a \in Actors : (pc'[a] \in {"index", "seal"}) => pc'[a] = pc[a] /\ base'[a] = base[a],
             \A a \in Actors : pc[a] = "index" => pc'[a] = "index"
      PROVE  CountInv'
  BY <1>0, <1>5 DEF CountInv, Accounts
<1>6. ASSUME NEW a \in Actors, Lock(a) \/ Check(a) \/ Unlock(a) PROVE CountInv'
  <2>1. PICK l \in PC \ {"index", "seal"} : pc' = [pc EXCEPT ![a] = l]
    BY <1>0, <1>6 DEF Lock, Check, Unlock, AfterReturn, Finish, AfterGeneration, PC
  <2>2. pc[a] # "index" /\ UNCHANGED <<counted, chain, stats>>
    BY <1>6 DEF Lock, Check, Unlock
  <2>3. \A b \in Actors : b # a => base'[b] = base[b]
    BY <1>0, <1>6 DEF Lock, Check, Unlock, DropLocals, locals
  <2>. QED
    BY <1>0, <1>5, <2>1, <2>2, <2>3
<1>7. ASSUME NEW a \in Actors, Generate(a) PROVE CountInv'
  <2>1. PICK l \in PC \ {"index", "seal"} : pc' = [pc EXCEPT ![a] = l]
    BY <1>0, <1>7 DEF Generate, Finish, AfterGeneration, PC
  <2>2. pc[a] # "index" /\ UNCHANGED <<counted, chain, stats>>
    BY <1>7 DEF Generate
  <2>3. \A b \in Actors : b # a => base'[b] = base[b]
    BY <1>0, <1>7 DEF Generate
  <2>. QED
    BY <1>0, <1>5, <2>1, <2>2, <2>3
<1>8. ASSUME NEW c \in Clients, CallMine(c) \/ \E n \in 0..MaxBatch : CallGenerateBlocks(c, n)
      PROVE  CountInv'
  BY <1>0, <1>5, <1>8 DEF CallMine, CallGenerateBlocks, Actors
<1>9. CASE MaybeSimulateFork
  BY <1>0, <1>5, <1>9 DEF MaybeSimulateFork, Actors
<1>10. CASE EnsureChainInitialized \/ SetRunning \/ Tick \/ LoopExit \/ Expire
  BY <1>0, <1>5, <1>10 DEF EnsureChainInitialized, SetRunning, Tick, LoopExit, LoopCancelled,
       LoopTimedOut, Expire, Actors, locals
<1>11. CASE Spawn
  BY <1>0, <1>5, <1>11 DEF Spawn, Actors, locals, BootInv
<1>12. CASE UNCHANGED vars
  BY <1>5, <1>12 DEF vars
<1>. QED
  BY <1>1, <1>2, <1>3, <1>4, <1>6, <1>7, <1>8, <1>9, <1>10, <1>11, <1>12 DEF Next, Work, Fork

--------------------------------------------------------------------------------
(***************************************************************************)
(* The theorems.                                                           *)
(***************************************************************************)

\* The inductive invariant holds of every reachable state.
THEOREM Invariant == Spec => []IInv
<1>1. Init => IInv
  <2>. SUFFICES ASSUME Init PROVE IInv
    OBVIOUS
  <2>. USE ActorAssumption, ConfigAssumption
  <2>1. << >> \in Chain
    BY DEF Chain
  <2>2. TypeOK
    <3>1. pc \in [Actors -> PC] /\ op \in [Actors -> {"generate", "mine", "tick"}]
      BY DEF Init, IdleOp, PC
    <3>2. stats \in [mined : 0..Word-1, txs : 0..Word-1, latest : Chain]
      BY <2>1 DEF Init
    <3>3. /\ chain \in Chain /\ mu \in Actors \cup {NoActor}
          /\ base \in [Actors -> Chain] /\ blocks \in [Actors -> Chain]
      BY <2>1, StartChainIsChain DEF Init
    <3>4. batch \in [Actors -> 0..MaxBatch]
      <4>1. 1 \in 0..MaxBatch
        OBVIOUS
      <4>. QED
        BY <4>1 DEF Init
    <3>5. result \in [Actors -> Results] /\ target \in Nat
      BY DEF Init, Results
    <3>6. running \in BOOLEAN /\ expired \in BOOLEAN /\ counted \in BOOLEAN
      BY DEF Init
    <3>. QED
      BY <3>1, <3>2, <3>3, <3>4, <3>5, <3>6 DEF TypeOK
  <2>3. MutexInv /\ BootInv /\ OpInv
    BY DEF Init, MutexInv, BootInv, OpInv, Holding, IdleOp, Actors
  <2>4. WorkInv /\ ForkInv /\ ReturnedBlocksCanonical
    BY DEF Init, WorkInv, Knows, ForkInv, ReturnedBlocksCanonical, Actors
  <2>5. CountInv
    <3>1. \A a \in Actors : pc[a] \notin {"index", "seal"}
      BY DEF Init
    <3>2. StartHeight \in Nat /\ Len(chain) = StartHeight
      BY StartChainIsChain DEF Init
    <3>3. stats.mined = 0 /\ stats.txs = 0 /\ stats.latest = << >>
      BY DEF Init
    <3>4. stats.txs = Cardinality(TxsOf(chain)) % Word
      BY <3>3, StartTxs DEF Init
    <3>5. Accounts(chain)
      BY <3>2, <3>3, <3>4 DEF Accounts
    <3>. QED
      BY <3>1, <3>5 DEF CountInv, Actors
  <2>. QED
    BY <2>2, <2>3, <2>4, <2>5 DEF IInv
<1>2. IInv /\ [Next]_vars => IInv'
  BY TypeStep, MutexStep, OpStep, BootStep, WorkStep, ForkStep, ReturnedStep, CountStep DEF IInv
<1>. QED
  BY <1>1, <1>2, PTL DEF Spec

\* The state is well typed, counters included (updateStatsAfterBlockGen).
THEOREM TypeCorrect == Spec => []TypeOK
<1>1. IInv => TypeOK
  BY DEF IInv
<1>. QED
  BY <1>1, Invariant, PTL

\* Nobody waits for s.mu in vain: it is held by one actor, which is past Lock,
\* never waits for it again before it gives it back (under it the code calls only the
\* functions named ...Unlocked), and no other is past Lock.
THEOREM HolderWorks ==
  Spec => []( /\ mu # NoActor => pc[mu] \in Holding
              /\ \A a, b \in Actors : pc[a] \in Holding /\ pc[b] \in Holding => a = b )
<1>1. IInv => /\ mu # NoActor => pc[mu] \in Holding
              /\ \A a, b \in Actors : pc[a] \in Holding /\ pc[b] \in Holding => a = b
  BY DEF IInv, TypeOK, MutexInv
<1>. QED
  BY <1>1, Invariant, PTL

\* The blocks an operation returns without an error are the head of the chain
\* and what Stats names, for any callers, failures and forks around it.
THEOREM ReturnedCanonical == Spec => []ReturnedBlocksCanonical
<1>1. IInv => ReturnedBlocksCanonical
  BY DEF IInv
<1>. QED
  BY <1>1, Invariant, PTL

\* Whatever generated them, the statistics account for all blocks the server
\* added and all transactions in them, and name the head, until a fork or an error after InsertChain (updateStatsAfterBlockGen).
THEOREM StatsCorrect == Spec => []StatsExact
<1>1. IInv => StatsExact
  <2>. SUFFICES ASSUME IInv, counted, mu = NoActor PROVE Accounts(chain)
    BY DEF StatsExact, Accounts
  <2>1. \A a \in Actors : pc[a] # "index"
    BY ActorAssumption DEF IInv, MutexInv, Holding, Actors
  <2>. QED
    BY <2>1 DEF IInv, CountInv
<1>. QED
  BY <1>1, Invariant, PTL

\* Where the abstract fork is going on, and where it is not.
LEMMA ForkingOnlyInSeal ==
  ASSUME IInv, NEW a \in Actors, pc[a] \in Holding \ {"seal"}
  PROVE  pc[Loop] # "seal"
BY OthersWait DEF IInv, Actors, Holding

\* An insertion is an extension of the abstract chain, or changes nothing.
LEMMA InsertRefines ==
  ASSUME IInv, NEW a \in Actors, Insert(a)
  PROVE  [Abs!Next]_(Abs!vars)
<1>1. pc[Loop] # "seal"
  BY ForkingOnlyInSeal DEF Insert, Holding
<1>2. pc'[Loop] # "seal"
  BY <1>1, ActorAssumption DEF IInv, TypeOK, Insert, Finish, Goto, AfterGeneration, Actors
<1>3. ~LimitReached(Len(chain))
  BY DEF IInv, WorkInv, Knows, Insert
<1>4. CASE chain' = chain
  BY <1>1, <1>2, <1>4 DEF Abs!vars
<1>5. CASE \E n \in 1..MaxBatch : \E bs \in [1..n -> Payloads] : chain' = chain \o bs
  BY <1>1, <1>2, <1>3, <1>5 DEF Abs!Next, Abs!Extend, Abs!LimitReached, LimitReached
<1>. QED
  BY <1>4, <1>5, InsertExtends

\* beacon.Fork rewinds the abstract chain, or is refused and changes nothing.
LEMMA RewindRefines ==
  ASSUME IInv, Rewind
  PROVE  [Abs!Next]_(Abs!vars)
<1>. USE ActorAssumption
<1>1. pc[Loop] = "rewind" /\ pc \in [Actors -> PC] /\ Loop \in Actors
  BY DEF Rewind, IInv, TypeOK, Actors
<1>2. CASE chain' = SubSeq(chain, 1, target) /\ Goto(Loop, "seal")
  <2>1. PICK d \in ReorgDepthMin..ReorgDepthMax :
          ReorgEnabled /\ Clamp(d, Len(chain)) > 0 /\ target = ForkPoint(d, Len(chain))
    BY <1>1 DEF IInv, ForkInv
  <2>2. pc'[Loop] = "seal"
    BY <1>1, <1>2 DEF Goto
  <2>. QED
    BY <1>1, <1>2, <2>1, <2>2 DEF Abs!Next, Abs!Rewind, Abs!ForkPoint, Abs!Clamp, ForkPoint, Clamp
<1>3. CASE UNCHANGED chain /\ Goto(Loop, "unlock")
  BY <1>1, <1>3 DEF Goto, Abs!vars
<1>. QED
  BY <1>2, <1>3 DEF Rewind

\* beacon.Commit ends the abstract fork.
LEMMA SealRefines ==
  ASSUME IInv, Seal
  PROVE  Abs!Next
<1>1. pc[Loop] = "seal" /\ pc'[Loop] = "unlock"
  BY ActorAssumption DEF Seal, Goto, IInv, TypeOK, Actors
<1>. QED
  BY <1>1 DEF Seal, Abs!Next, Abs!Seal

\* Every other action leaves the abstract state alone.
LEMMA OthersStutter ==
  ASSUME IInv, [Next]_vars, UNCHANGED chain, ~Seal, ~Rewind
  PROVE  UNCHANGED Abs!vars
<1>. USE ActorAssumption DEF Goto
<1>0. pc \in [Actors -> PC] /\ op \in [Actors -> {"generate", "mine", "tick"}]
  BY DEF IInv, TypeOK
<1>. SUFFICES (pc'[Loop] = "seal") = (pc[Loop] = "seal")
  BY DEF Abs!vars
<1>1. ASSUME NEW a \in Actors, Lock(a) \/ Check(a) \/ Generate(a) \/ Insert(a) \/ Index(a) \/ Unlock(a)
      PROVE  (pc'[Loop] = "seal") = (pc[Loop] = "seal")
  <2>1. PICK l \in PC \ {"seal"} : pc' = [pc EXCEPT ![a] = l]
    BY <1>0, <1>1 DEF Lock, Check, Generate, Insert, Index, Unlock, AfterReturn, Finish,
         AfterGeneration, PC
  <2>2. pc[a] # "seal"
    BY <1>1 DEF Lock, Check, Generate, Insert, Index, Unlock
  <2>. QED
    BY <1>0, <2>1, <2>2
<1>2. ASSUME NEW c \in Clients, CallMine(c) \/ \E n \in 0..MaxBatch : CallGenerateBlocks(c, n)
      PROVE  (pc'[Loop] = "seal") = (pc[Loop] = "seal")
  BY <1>0, <1>2 DEF CallMine, CallGenerateBlocks, Actors
<1>3. CASE MaybeSimulateFork
  BY <1>0, <1>3 DEF MaybeSimulateFork, Actors
<1>4. CASE EnsureChainInitialized \/ SetRunning \/ Tick \/ LoopExit \/ Expire
  BY <1>0, <1>4 DEF EnsureChainInitialized, SetRunning, Tick, LoopExit, LoopCancelled,
       LoopTimedOut, Expire, Actors
<1>5. CASE Spawn
  BY <1>0, <1>5 DEF Spawn, Actors, IInv, BootInv
<1>6. CASE UNCHANGED vars
  BY <1>6 DEF vars
<1>. QED
  BY <1>1, <1>2, <1>3, <1>4, <1>5, <1>6 DEF Next, Work, Fork

\* Only insertions and forks touch the canonical chain.
LEMMA ChainChanges ==
  ASSUME [Next]_vars, chain' # chain
  PROVE  (\E a \in Actors : Insert(a)) \/ Rewind \/ Seal
BY DEF Next, Work, Fork, CallMine, CallGenerateBlocks, Lock, Check, Generate, Index, Unlock,
     DropLocals,
       MaybeSimulateFork, EnsureChainInitialized, Spawn, SetRunning, Tick, LoopExit, LoopCancelled, LoopTimedOut, Expire, vars

\* The concurrent operations on the server implement LimitedChain.
THEOREM Implements == Spec => ImplementsLimitedChain
<1>1. Init => Abs!Init
  BY ActorAssumption DEF Init, Abs!Init, Abs!StartChain, StartChain, Actors
<1>2. IInv /\ [Next]_vars => [Abs!Next]_(Abs!vars)
  BY InsertRefines, RewindRefines, SealRefines, OthersStutter, ChainChanges
<1>. QED
  BY <1>1, <1>2, Invariant, PTL DEF Spec, ImplementsLimitedChain, Abs!Spec

--------------------------------------------------------------------------------
(***************************************************************************)
(* LimitedChain, whatever implements it: each of its steps, and what holds *)
(* along all of its behaviours.  Its forking is pc[Loop] = "seal" here.    *)
(***************************************************************************)

\* What LimitedChain takes from ChainConfig is what ChainMining takes from it.
LEMMA SameConfig ==
  /\ Abs!Chain = Chain
  /\ Abs!StartChain = StartChain
  /\ \A h : Abs!LimitReached(h) <=> LimitReached(h)
  /\ \A d, h : Abs!Clamp(d, h) = Clamp(d, h)
  /\ \A d, h : Abs!ForkPoint(d, h) = ForkPoint(d, h)
  /\ \A c, d : Abs!IsPrefix(c, d) <=> IsPrefix(c, d)
  /\ \A c, d : Abs!IsStrictPrefix(c, d) <=> IsStrictPrefix(c, d)
<1>1. Abs!Chain = Chain /\ Abs!StartChain = StartChain
  BY DEF Abs!Chain, Chain, Abs!StartChain, StartChain
<1>2. \A h : Abs!LimitReached(h) <=> LimitReached(h)
  BY DEF Abs!LimitReached, LimitReached
<1>3. \A d, h : Abs!Clamp(d, h) = Clamp(d, h)
  BY DEF Abs!Clamp, Clamp
<1>4. \A d, h : Abs!ForkPoint(d, h) = ForkPoint(d, h)
  BY <1>3 DEF Abs!ForkPoint, ForkPoint
<1>5. \A c, d : Abs!IsPrefix(c, d) <=> IsPrefix(c, d)
  BY DEF Abs!IsPrefix, IsPrefix
<1>6. \A c, d : Abs!IsStrictPrefix(c, d) <=> IsStrictPrefix(c, d)
  BY <1>5 DEF Abs!IsStrictPrefix, IsStrictPrefix
<1>. QED
  BY <1>1, <1>2, <1>3, <1>4, <1>5, <1>6

\* A batch adds between one and MaxBatch blocks, below the limit only.
LEMMA LimitedExtend ==
  ASSUME Abs!TypeOK, Abs!Extend
  PROVE  /\ chain' \in Chain
         /\ Len(chain') \in (Len(chain) + 1)..(Len(chain) + MaxBatch)
         /\ IsPrefix(chain, chain')
<1>1. PICK n \in 1..MaxBatch : \E bs \in [1..n -> Payloads] : chain' = chain \o bs
  BY DEF Abs!Extend
<1>2. PICK bs \in [1..n -> Payloads] : chain' = chain \o bs
  BY <1>1
<1>3. bs \in Chain /\ Len(bs) = n
  BY ConfigAssumption DEF Chain
<1>4. chain' \in Chain /\ Len(chain') = Len(chain) + n /\ IsPrefix(chain, chain')
  BY <1>2, <1>3, ExtendChain, SameConfig DEF Abs!TypeOK
<1>. QED
  BY <1>4, ConfigAssumption, LenProperties, SameConfig DEF Abs!TypeOK, Chain

\* A fork cuts the chain back to a strict prefix by a depth in range.
LEMMA LimitedRewind ==
  ASSUME Abs!TypeOK, Abs!Rewind
  PROVE  /\ chain' \in Chain
         /\ Len(chain') \in 1..(Len(chain) - 1)
         /\ IsStrictPrefix(chain', chain)
         /\ Len(chain) - Len(chain') <= ReorgDepthMax
         /\ Len(chain) - Len(chain') >= ReorgDepthMin \/ Len(chain') = 1
<1>1. PICK d \in ReorgDepthMin..ReorgDepthMax :
        Clamp(d, Len(chain)) > 0 /\ chain' = SubSeq(chain, 1, ForkPoint(d, Len(chain)))
  BY SameConfig DEF Abs!Rewind
<1>2. Len(chain) \in Nat /\ ReorgEnabled
  BY LenProperties, SameConfig DEF Abs!TypeOK, Chain, Abs!Rewind
<1>3. /\ ForkPoint(d, Len(chain)) \in 1..(Len(chain) - 1)
      /\ Len(chain) - ForkPoint(d, Len(chain)) <= ReorgDepthMax
      /\ Len(chain) - ForkPoint(d, Len(chain)) >= ReorgDepthMin
         \/ ForkPoint(d, Len(chain)) = 1
  BY <1>1, <1>2, ForkPointInRange
<1>4. /\ chain' \in Chain
      /\ Len(chain') = ForkPoint(d, Len(chain))
      /\ IsStrictPrefix(chain', chain)
  BY <1>1, <1>2, <1>3, CutChain, SameConfig DEF Abs!TypeOK
<1>. QED
  BY <1>3, <1>4

\* The replacement adds one block or, when sealing fails, none.
LEMMA LimitedSeal ==
  ASSUME Abs!TypeOK, Abs!Seal
  PROVE  /\ chain' \in Chain
         /\ Len(chain') \in Len(chain)..(Len(chain) + 1)
         /\ IsPrefix(chain, chain')
<1>1. Len(chain) \in Nat /\ chain \in Chain
  BY LenProperties, SameConfig DEF Abs!TypeOK, Chain
<1>2. CASE UNCHANGED chain
  <2>1. chain' = chain /\ Len(chain') = Len(chain)
    BY <1>2
  <2>2. SubSeq(chain, 1, Len(chain)) = SubSeq(chain', 1, Len(chain))
    BY <1>2
  <2>. QED
    BY <2>1, <2>2, <1>1 DEF IsPrefix
<1>3. CASE \E p \in Payloads : chain' = Append(chain, p)
  <2>1. PICK p \in Payloads : chain' = Append(chain, p)
    BY <1>3
  <2>. QED
    BY <1>1, <2>1, AppendChain
<1>. QED
  BY <1>2, <1>3 DEF Abs!Seal

\* The height bound alone is not inductive: the replacement block of a fork is
\* sealed without looking at the limit, and has room only because the rewind
\* before it removed at least one block.
LimitedInv == Abs!TypeOK /\ Abs!HeightBound /\ Abs!ForkBound

\* LimitedInv holds of every reachable state.
THEOREM LimitedInvariant == Abs!Spec => []LimitedInv
<1>1. Abs!Init => LimitedInv
  <2>. SUFFICES ASSUME Abs!Init PROVE LimitedInv
    OBVIOUS
  <2>1. chain \in Chain /\ Len(chain) = StartHeight /\ pc[Loop] # "seal"
    BY StartChainIsChain, SameConfig DEF Abs!Init
  <2>2. Abs!HeightBound
    BY <2>1, ConfigAssumption DEF Abs!HeightBound
  <2>3. Abs!ForkBound
    BY <2>1 DEF Abs!ForkBound
  <2>. QED
    BY <2>1, <2>2, <2>3, SameConfig DEF LimitedInv, Abs!TypeOK
<1>2. LimitedInv /\ [Abs!Next]_Abs!vars => LimitedInv'
  <2>. SUFFICES ASSUME LimitedInv, [Abs!Next]_Abs!vars PROVE LimitedInv'
    OBVIOUS
  <2>0. Abs!TypeOK /\ Len(chain) \in Nat
    BY LenProperties, SameConfig DEF LimitedInv, Abs!TypeOK, Chain
  <2>. USE ConfigAssumption DEF Abs!HeightBound, Abs!ForkBound
  <2>1. CASE Abs!Extend
    <3>1. /\ chain' \in Chain
          /\ Len(chain') \in (Len(chain) + 1)..(Len(chain) + MaxBatch)
      BY <2>0, <2>1, LimitedExtend
    <3>2. pc[Loop] # "seal" /\ pc'[Loop] # "seal" /\ ~LimitReached(Len(chain))
      BY <2>0, <2>1, SameConfig DEF Abs!Extend, Abs!TypeOK
    <3>3. Abs!HeightBound'
      BY <2>0, <3>1, <3>2 DEF LimitReached
    <3>. QED
      BY <3>1, <3>2, <3>3, SameConfig DEF LimitedInv, Abs!TypeOK
  <2>2. CASE Abs!Rewind
    <3>1. chain' \in Chain /\ Len(chain') \in 1..(Len(chain) - 1)
      BY <2>0, <2>2, LimitedRewind
    <3>2. pc'[Loop] = "seal"
      BY <2>2 DEF Abs!Rewind
    <3>3. Abs!HeightBound' /\ Abs!ForkBound'
      BY <2>0, <3>1 DEF LimitedInv
    <3>. QED
      BY <3>1, <3>2, <3>3, SameConfig DEF LimitedInv, Abs!TypeOK
  <2>3. CASE Abs!Seal
    <3>1. chain' \in Chain /\ Len(chain') \in Len(chain)..(Len(chain) + 1)
      BY <2>0, <2>3, LimitedSeal
    <3>2. pc[Loop] = "seal" /\ pc'[Loop] # "seal"
      BY <2>0, <2>3 DEF Abs!Seal, Abs!TypeOK
    <3>3. Abs!HeightBound'
      BY <2>0, <3>1, <3>2 DEF LimitedInv
    <3>. QED
      BY <3>1, <3>2, <3>3, SameConfig DEF LimitedInv, Abs!TypeOK
  <2>4. CASE UNCHANGED Abs!vars
    BY <2>4 DEF Abs!vars, LimitedInv, Abs!TypeOK
  <2>. QED
    BY <2>1, <2>2, <2>3, <2>4 DEF Abs!Next
<1>. QED
  BY <1>1, <1>2, PTL DEF Abs!Spec

\* Whatever the configuration, the limit is exceeded by less than one batch.
THEOREM LimitedHeight == Abs!Spec => []Abs!HeightBound
<1>1. LimitedInv => Abs!HeightBound
  BY DEF LimitedInv
<1>. QED
  BY <1>1, LimitedInvariant, PTL

\* The chain grows or is cut back within the configured depths, never below
\* block 1: no other change of the canonical chain is possible.
THEOREM LimitedReorgs == Abs!Spec => [][Abs!ReorgStep]_chain
<1>1. LimitedInv /\ [Abs!Next]_Abs!vars => [Abs!ReorgStep]_chain
  <2>. SUFFICES ASSUME LimitedInv, [Abs!Next]_Abs!vars PROVE [Abs!ReorgStep]_chain
    OBVIOUS
  <2>0. Abs!TypeOK /\ Len(chain) \in Nat
    BY LenProperties, SameConfig DEF LimitedInv, Abs!TypeOK, Chain
  <2>1. CASE Abs!Extend
    BY <2>0, <2>1, LimitedExtend, SameConfig DEF Abs!ReorgStep
  <2>2. CASE Abs!Rewind
    BY <2>0, <2>2, LimitedRewind, SameConfig DEF Abs!ReorgStep
  <2>3. CASE Abs!Seal
    BY <2>0, <2>3, LimitedSeal, SameConfig DEF Abs!ReorgStep
  <2>4. CASE UNCHANGED Abs!vars
    BY <2>4 DEF Abs!vars
  <2>. QED
    BY <2>1, <2>2, <2>3, <2>4 DEF Abs!Next
<1>. QED
  BY <1>1, LimitedInvariant, PTL DEF Abs!Spec

--------------------------------------------------------------------------------
(***************************************************************************)
(* What ChainMining has from LimitedChain, and what it has besides.        *)
(***************************************************************************)

\* Through LimitedChain, the limit is exceeded by less than one batch, for any
\* number of clients (GenerateBlocks checks the head once per batch).
THEOREM HeightSafe == Spec => []HeightWithinLimit
<1>1. Abs!HeightBound => HeightWithinLimit
  BY DEF HeightWithinLimit
<1>. QED
  BY <1>1, Implements, LimitedHeight, PTL DEF ImplementsLimitedChain

\* Through LimitedChain, forks stay within the configured depths and never
\* remove block 1 (maybeSimulateFork clamps the depth it drew).
THEOREM ReorgsSafe == Spec => ReorgInRange
  BY Implements, LimitedReorgs, PTL DEF ImplementsLimitedChain, ReorgInRange

\* Generating blocks orphans none, whoever generates beside whom: only the
\* loop's fork, holding the mutex, takes canonical blocks away.
THEOREM NoOrphans == Spec => OnlyForksOrphan
<1>1. IInv /\ [Next]_vars => [IsPrefix(chain, chain') \/ (mu = Loop /\ pc[Loop] = "rewind")]_chain
  <2>. SUFFICES ASSUME IInv, [Next]_vars, chain' # chain
                PROVE  IsPrefix(chain, chain') \/ (mu = Loop /\ pc[Loop] = "rewind")
    OBVIOUS
  <2>0. chain \in Chain
    BY DEF IInv, TypeOK
  <2>1. ASSUME NEW a \in Actors, Insert(a) PROVE IsPrefix(chain, chain')
    <3>1. PICK n \in 1..MaxBatch : \E bs \in [1..n -> Payloads] : chain' = chain \o bs
      BY <2>1, InsertExtends
    <3>2. PICK bs \in [1..n -> Payloads] : chain' = chain \o bs
      BY <3>1
    <3>3. bs \in Chain
      BY <3>2, ConfigAssumption, BatchIsChain
    <3>. QED
      BY <2>0, <3>2, <3>3, ExtendChain
  <2>2. CASE Rewind
    BY <2>2 DEF Rewind, IInv, MutexInv, Holding, Actors
  <2>3. CASE Seal
    <3>1. PICK p \in Payloads : chain' = Append(chain, p)
      BY <2>3 DEF Seal
    <3>2. IsPrefix(chain, Append(chain, p))
      BY <2>0, AppendChain
    <3>. QED
      BY <3>1, <3>2
  <2>4. (\E a \in Actors : Insert(a)) \/ Rewind \/ Seal
    BY ChainChanges
  <2>. QED
    BY <2>1, <2>2, <2>3, <2>4
<1>. QED
  BY <1>1, Invariant, PTL DEF Spec, OnlyForksOrphan

================================================================================
