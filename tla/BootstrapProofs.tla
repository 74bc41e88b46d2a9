---------------------------- MODULE BootstrapProofs ----------------------------
(***************************************************************************)
(* Proofs about Bootstrap, for any geneses, modes, heights and failures:   *)
(* what a crash between any two steps of a start leaves is safe to start   *)
(* from, whatever the mode of the next server, but for a chain that was    *)
(* made in memory mode.                                                    *)
(***************************************************************************)
EXTENDS Bootstrap, TLAPS

\* No genesis means no blocks, and nobody who made the chain.
NoChain ==
  /\ genesis = NoGenesis => durable = 0 /\ head = 0 /\ stored = 0
  /\ genesis = NoGenesis <=> origin = "none"

\* genesis.json is complete before genesis is committed, so a chain made in disk
\* mode always has its file; this is what makes a restart find it.
FileFirst == origin = "disk" => file = genesis

\* Who meets a chain made in memory mode is in that mode too.
MemoryMade == origin = "memory" => mode = "memory"

\* What holds where New or Run is.
PhaseOK ==
  /\ phase # "down" => config \in Geneses
  /\ phase \in {"create", "write", "finish"} => mode = "disk" /\ origin \in {"none", "crossed"}
  /\ phase = "commit" /\ mode = "disk" => origin \in {"none", "crossed"} /\ file = config
  /\ phase = "eth" /\ mode = "disk" => file = config
  /\ phase \in {"built", "init", "running"} => genesis # NoGenesis

\* The state on disk is not ahead of the chain.
HeadOK == durable <= head

IInv ==
  /\ TypeOK /\ NoChain /\ FileFirst /\ MemoryMade /\ PhaseOK /\ HeadOK
  /\ CreatedForGood /\ StoredOnChain

LEMMA InitIInv == Init => IInv
<1> SUFFICES ASSUME Init PROVE IInv
  OBVIOUS
<1> USE BootstrapAssumption DEF Init
<1>1. TypeOK
  <2>1. durable \in 0..MaxHeight /\ stored \in 0..MaxHeight /\ head \in 0..MaxHeight
    OBVIOUS
  <2>2. initialized \in BOOLEAN /\ gone \in BOOLEAN
    OBVIOUS
  <2> QED  BY <2>1, <2>2 DEF TypeOK
<1>2. NoChain /\ FileFirst /\ MemoryMade /\ PhaseOK /\ HeadOK
  BY DEF NoChain, FileFirst, MemoryMade, PhaseOK, HeadOK
<1>3. CreatedForGood /\ StoredOnChain
  BY DEF CreatedForGood, StoredOnChain, At
<1> QED  BY <1>1, <1>2, <1>3 DEF IInv

\* One step per action.
LEMMA NextIInv == IInv /\ [Next]_vars => IInv'
<1> SUFFICES ASSUME IInv, [Next]_vars PROVE IInv'
  OBVIOUS
<1> USE BootstrapAssumption
    DEF IInv, TypeOK, NoChain, FileFirst, MemoryMade, PhaseOK, HeadOK, CreatedForGood,
        StoredOnChain, At, Goto, disk, memory, history
<1>1. ASSUME NEW g \in Geneses, NEW m \in Modes, OpenStore(g, m) PROVE IInv'
  BY <1>1 DEF OpenStore
<1>2. CASE StatGenesis
  <2>1. CASE GenesisFileFound /\ file \in Geneses
    BY <1>2, <2>1 DEF StatGenesis, GenesisFileFound
  <2>2. CASE GenesisFileFound /\ file = "torn"
    BY <1>2, <2>2 DEF StatGenesis, GenesisFileFound
  <2>3. CASE ~GenesisFileFound
    BY <1>2, <2>3 DEF StatGenesis, GenesisFileFound
  <2> QED  BY <1>2, <2>1, <2>2, <2>3 DEF StatGenesis, GenesisFileFound
<1>3. CASE WriteGenesis
  <2>1. CASE WriteFile("create", "empty", "write")
    BY <2>1 DEF WriteFile
  <2>2. CASE WriteFile("write", "torn", "finish")
    BY <2>2 DEF WriteFile
  <2>3. CASE WriteFile("finish", config, "commit")
    BY <2>3 DEF WriteFile
  <2> QED  BY <1>3, <2>1, <2>2, <2>3 DEF WriteGenesis
<1>4. CASE CommitGenesis
  <2>1. CASE mode = "memory"
    BY <1>4, <2>1 DEF CommitGenesis
  <2>2. CASE mode = "disk"
    <3>1. /\ genesis' = config /\ durable' = 0 /\ head' = 0 /\ origin' = "disk" /\ phase' = "eth"
          /\ gone' = (gone \/ origin = "crossed")
          /\ UNCHANGED <<file, stored, mode, config, initialized>>
      BY <1>4, <2>2 DEF CommitGenesis
    <3>2. gone' \in BOOLEAN
      BY <3>1, Zenon
    <3>3. phase = "commit" /\ origin \in {"none", "crossed"} /\ file = config /\ config \in Geneses
      BY <1>4, <2>2 DEF CommitGenesis
    <3>4. StoredOnChain'
      <4>1. ~gone' => origin # "crossed"
        BY <3>1, Zenon
      <4> QED  BY <3>1, <3>3, <4>1
    <3>5. TypeOK'
      BY <3>1, <3>2, <3>3
    <3> QED  BY <2>2, <3>1, <3>3, <3>4, <3>5
  <2> QED  BY <1>4, <2>1, <2>2 DEF CommitGenesis
<1>5. CASE EthNew
  BY <1>5 DEF EthNew
<1>6. CASE NewFails
  BY <1>6 DEF NewFails
<1>7. CASE Run
  BY <1>7 DEF Run
<1>8. CASE EnsureChainInitialized
  BY <1>8 DEF EnsureChainInitialized
<1>9. CASE GenerateBlock
  BY <1>9 DEF GenerateBlock
<1>10. CASE StoreValue
  <2>1. /\ phase = "running" /\ stored' = head /\ gone' = FALSE
        /\ UNCHANGED <<file, genesis, durable, phase, memory, origin>>
    BY <1>10 DEF StoreValue
  <2>2. gone' \in BOOLEAN
    BY <2>1, Zenon
  <2>3. TypeOK'
    BY <2>1, <2>2
  <2>4. genesis # NoGenesis
    BY <2>1
  <2> QED  BY <2>1, <2>3, <2>4
<1>11. CASE Flush
  BY <1>11 DEF Flush
<1>12. CASE Stop
  BY <1>12 DEF Stop
<1>13. CASE Die
  <2>1. TypeOK'
    BY <1>13 DEF Die
  <2>2. NoChain' /\ FileFirst' /\ MemoryMade' /\ PhaseOK' /\ HeadOK'
    BY <1>13 DEF Die
  <2>3. CreatedForGood'
    BY <1>13 DEF Die
  <2>4. StoredOnChain'
    <3>1. ~gone' => ~gone /\ ~(stored > durable)
      BY <1>13, Zenon DEF Die
    <3>2. head' = durable /\ stored' = stored
      BY <1>13 DEF Die
    <3> QED  BY <3>1, <3>2
  <2> QED  BY <2>1, <2>2, <2>3, <2>4
<1>14. CASE UNCHANGED vars
  BY <1>14 DEF vars
<1>15. CASE Fork
  <2>0. PICK base \in 1..(head - 1) :
          /\ head' \in {base, base + 1}
          /\ durable' \in 0..base
          /\ gone' = (gone \/ stored > base)
    BY <1>15 DEF Fork
  <2>1. UNCHANGED <<file, genesis, stored, phase, mode, config, initialized, origin>>
    BY <1>15 DEF Fork
  <2>2. head' \in 0..MaxHeight /\ durable' \in 0..MaxHeight /\ durable' <= head'
    BY <2>0
  <2>3. gone' \in BOOLEAN
    BY <2>0, Zenon
  <2>4. genesis # NoGenesis
    BY <1>15 DEF Fork
  <2>5. StoredOnChain'
    <3>1. ~gone' => ~(stored > base)
      BY <2>0, Zenon
    <3> QED  BY <2>0, <2>1, <3>1
  <2> QED  BY <2>1, <2>2, <2>3, <2>4, <2>5
<1> QED
  BY <1>1, <1>2, <1>3, <1>4, <1>5, <1>6, <1>7, <1>8, <1>9, <1>10, <1>11, <1>12,
     <1>13, <1>14, <1>15 DEF Next

THEOREM Invariant == Spec => []IInv
  BY InitIInv, NextIInv, PTL DEF Spec

\* The state of the directory and of the process is well typed.
THEOREM TypeCorrect == Spec => []TypeOK
<1>1. IInv => TypeOK
  BY DEF IInv
<1> QED  BY <1>1, Invariant, PTL

\* New refuses nothing that holds a chain in disk mode (genesis.json is read
\* before and written before the chain database is), whatever modes the servers
\* before were in, unless the chain was made in memory mode.
THEOREM Reopens == Spec => []CreatedForGood
<1>1. IInv => CreatedForGood
  BY DEF IInv
<1> QED  BY <1>1, Invariant, PTL

\* Every stored value refers to a block of the chain, through any number of stops,
\* restarts and failed starts, unless a fork, a crash before the block was durable,
\* or disk mode on a chain made in memory mode took the block.
THEOREM StoreMatchesChain == Spec => []StoredOnChain
<1>1. IInv => StoredOnChain
  BY DEF IInv
<1> QED  BY <1>1, Invariant, PTL

\* What ChainKept says of a step.
KeptStep ==
  origin # "crossed" =>
    /\ genesis # NoGenesis => genesis' = genesis
    /\ durable' >= durable \/ At("running")

\* Only CommitGenesis, EthNew, Flush, Stop and forks touch the chain on disk; the
\* first two find none, unless it was made in memory mode, and the next two only
\* add to it.
LEMMA StepKeeps == IInv /\ [Next]_vars => KeptStep
<1> SUFFICES ASSUME IInv, [Next]_vars PROVE KeptStep
  OBVIOUS
<1> USE DEF KeptStep, IInv, TypeOK, NoChain, PhaseOK, HeadOK, At, Goto, disk
<1>1. CASE CommitGenesis
  BY <1>1 DEF CommitGenesis
<1>2. CASE EthNew
  BY <1>2 DEF EthNew
<1>3. CASE Flush
  BY <1>3 DEF Flush
<1>4. CASE Stop
  BY <1>4 DEF Stop
<1>5. CASE UNCHANGED <<genesis, durable>>
  BY <1>5
<1>9. CASE Fork
  BY <1>9 DEF Fork
<1>6. ASSUME NEW g \in Geneses, NEW m \in Modes, OpenStore(g, m)
      PROVE UNCHANGED <<genesis, durable>>
  BY <1>6 DEF OpenStore
<1>7. WriteGenesis => UNCHANGED <<genesis, durable>>
  BY DEF WriteGenesis, WriteFile
<1>8. StatGenesis \/ NewFails \/ Run \/ EnsureChainInitialized \/ GenerateBlock
        \/ StoreValue \/ Die \/ UNCHANGED vars => UNCHANGED <<genesis, durable>>
  BY DEF StatGenesis, NewFails, Run, EnsureChainInitialized, GenerateBlock,
         StoreValue, Die, vars
<1> QED
  BY <1>1, <1>2, <1>3, <1>4, <1>5, <1>6, <1>7, <1>8, <1>9 DEF Next

\* No start replaces a chain, and nothing but a fork takes durable blocks away from
\* it, for any sequence of modes and geneses but disk mode on a chain made in memory
\* mode.
THEOREM ChainSurvives == Spec => ChainKept
<1>1. IInv /\ [Next]_vars => [KeptStep]_vars
  BY StepKeeps
<1>2. Spec => [][KeptStep]_vars
  BY <1>1, Invariant, PTL DEF Spec
<1> QED  BY <1>2 DEF ChainKept, KeptStep

================================================================================
