---------------------------- MODULE TokenInitProofs ----------------------------
(***************************************************************************)
(* Proofs about TokenInit, for any senders, number of tokens and failures: *)
(* its types, that tokens are minted again only because an initialisation  *)
(* did not come to its end, and that a generator that is ready has its     *)
(* tokens on the chain and knows who owns them.                            *)
(***************************************************************************)
EXTENDS TokenInit, FiniteSetTheorems, CommonLemmas

\* The constants that are numbers.
LEMMA Numbers == Mints \in Nat \ {0} /\ MaxHeight \in Nat /\ MaxBroken \in Nat
  BY TokenAssumption

LEMMA FirstToken == 1 \in Tokens
  BY Numbers DEF Tokens

LEMMA TokenNumber == \A t \in Tokens : t \in 1..Mints /\ t \in 0..Mints
  BY Numbers DEF Tokens

LEMMA SendersThere == Senders \in Seq(Accounts) /\ Len(Senders) \in Nat \ {0}
  BY TokenAssumption, EmptySeq

\* Every token is minted to one of the senders.
LEMMA Recipients ==
  ASSUME NEW t \in Tokens
  PROVE  Recipient(t) \in Accounts
<1> DEFINE n == Len(Senders)
<1>1. t - 1 \in Nat
  BY TokenNumber, Numbers
<1>2. (t - 1) % n \in 0..(n - 1)
  BY <1>1, SendersThere
<1>3. ((t - 1) % n) + 1 \in 1..n
  BY <1>2, SendersThere
<1> QED
  BY <1>3, SendersThere DEF Recipient

LEMMA FirstSender == Senders[1] \in Accounts
  BY SendersThere

\* A nonce is at most the height of the chain.
LEMMA Nonces ==
  ASSUME chain \in Seq(Blocks), Len(chain) <= MaxHeight, NEW a \in Accounts
  PROVE  Nonce(a) \in 0..MaxHeight
<1> DEFINE sent == {i \in DOMAIN chain : chain[i].by = a}
<1>1. sent \subseteq 1..Len(chain) /\ Len(chain) \in Nat
  OBVIOUS
<1>2. IsFiniteSet(1..Len(chain)) /\ Cardinality(1..Len(chain)) = Len(chain)
  <2>1. Cardinality(1..Len(chain)) = IF 1 > Len(chain) THEN 0 ELSE Len(chain) - 1 + 1
    BY <1>1, FS_Interval
  <2> QED
    BY <1>1, <2>1, FS_Interval
<1>3. Cardinality(sent) <= Len(chain) /\ Cardinality(sent) \in Nat
  BY <1>1, <1>2, FS_Subset, FS_CardinalityType
<1> QED
  BY <1>1, <1>3, Numbers DEF Nonce

\* One block more on a chain below the limit.
LEMMA Longer ==
  ASSUME chain \in Seq(Blocks), Len(chain) < MaxHeight, NEW b \in Blocks
  PROVE  /\ Append(chain, b) \in Seq(Blocks)
         /\ Len(Append(chain, b)) <= MaxHeight
  BY Numbers

\* The first n elements of a sequence.
LEMMA Shorter ==
  ASSUME NEW S, NEW c \in Seq(S), NEW n \in 0..Len(c)
  PROVE  /\ SubSeq(c, 1, n) \in Seq(S)
         /\ Len(SubSeq(c, 1, n)) = n
         /\ \A i \in 1..n : SubSeq(c, 1, n)[i] = c[i]
  OBVIOUS

\* What a block may be made of.
LEMMA ABlock ==
  ASSUME NEW act \in {"other", "deploy", "mint", "move"}, NEW by \in Accounts \cup {NoAccount},
         NEW k \in Addresses \cup {NoContract}, NEW t \in 0..Mints,
         NEW to \in Accounts \cup {NoAccount}
  PROVE  [act |-> act, by |-> by, contract |-> k, token |-> t, to |-> to] \in Blocks
  BY DEF Blocks

LEMMA OthersBlock ==
  ASSUME NEW a \in Accounts \cup {NoAccount}
  PROVE  [Other EXCEPT !.by = a] \in Blocks
<1>1. 0 \in 0..Mints
  BY Numbers
<1>2. [Other EXCEPT !.by = a]
        = [act |-> "other", by |-> a, contract |-> NoContract, token |-> 0, to |-> NoAccount]
  BY DEF Other
<1> QED
  BY <1>1, <1>2, ABlock

LEMMA OtherIsBlock == Other \in Blocks
<1>1. 0 \in 0..Mints
  BY Numbers
<1> QED
  BY <1>1, ABlock DEF Other

LEMMA ChainType ==
  ASSUME TypeOK
  PROVE  chain \in Seq(Blocks) /\ Len(chain) \in Nat /\ Len(chain) <= MaxHeight
<1>1. chain \in Seq(Blocks) /\ Len(chain) <= MaxHeight
  BY DEF TypeOK
<1> QED
  BY <1>1, LenProperties

\* The count of broken initialisations stops at its bound.
LEMMA Breaking ==
  ASSUME broken \in 0..MaxBroken, Break
  PROVE  broken' \in 0..MaxBroken
  BY Numbers DEF Break

\* A transaction of Initialize, whether it succeeds or not, keeps the types.
LEMMA Transacting ==
  ASSUME TypeOK, NEW b \in Blocks, NEW label, Transact(b, label)
  PROVE  /\ chain' \in Seq(Blocks) /\ Len(chain') <= MaxHeight
         /\ pc' \in {label, "failed"}
         /\ broken' \in 0..MaxBroken
<1>1. chain' \in Seq(Blocks) /\ Len(chain') <= MaxHeight
  BY Longer DEF TypeOK, Transact
<1>2. broken' \in 0..MaxBroken
  BY Breaking DEF TypeOK, Transact
<1> QED
  BY <1>1, <1>2 DEF Transact, Goto

\* So does the end of a process, whatever is left of the chain.
LEMMA Ending ==
  ASSUME TypeOK, End, chain' \in Seq(Blocks), Len(chain') <= MaxHeight, undone' \in BOOLEAN
  PROVE  TypeOK'
<1>1. broken' \in 0..MaxBroken
  BY Breaking DEF TypeOK, End
<1>2. owners' \in Owners
  BY DEF End, NoOwners, Owners
<1> QED
  BY <1>1, <1>2, FirstToken DEF TypeOK, End, Goto, store

LEMMA TypeStep == TypeOK /\ [Next]_vars => TypeOK'
<1> SUFFICES ASSUME TypeOK, [Next]_vars
             PROVE  TypeOK'
  OBVIOUS
<1> USE DEF store, locals, history, At, Goto, Initializing
<1>1. CASE Start
  BY <1>1 DEF TypeOK, Start
<1>2. CASE RetrieveCaller
  <2>1. broken' \in 0..MaxBroken
    BY <1>2, Breaking DEF TypeOK, RetrieveCaller, StoreFails
  <2>2. contract' \in Addresses \cup {NoContract}
    BY <1>2 DEF TypeOK, RetrieveCaller
  <2> QED
    BY <1>2, <2>1, <2>2 DEF TypeOK, RetrieveCaller, StoreFails
<1>3. CASE DeployContract
  <2>1. PICK a \in Deployers :
          /\ contract' = <<a, Nonce(a)>>
          /\ Transact([act |-> "deploy", by |-> a, contract |-> contract', token |-> 0,
                       to |-> NoAccount],
                      "keep caller")
    BY <1>3 DEF DeployContract
  <2>2. a \in Accounts
    BY FirstSender DEF Deployers
  <2>3. contract' \in Addresses
    BY <2>1, <2>2, Nonces DEF Addresses, TypeOK
  <2>4. [act |-> "deploy", by |-> a, contract |-> contract', token |-> 0, to |-> NoAccount]
          \in Blocks
    BY <2>2, <2>3, Numbers, ABlock
  <2>5. /\ chain' \in Seq(Blocks) /\ Len(chain') <= MaxHeight
        /\ pc' \in {"keep caller", "failed"}
        /\ broken' \in 0..MaxBroken
    BY <2>1, <2>4, Transacting
  <2> QED
    BY <1>3, <2>3, <2>5 DEF TypeOK, DeployContract
<1>4. CASE StoreCaller
  <2>1. broken' \in 0..MaxBroken
    BY <1>4, Breaking DEF TypeOK, StoreCaller, StoreFails
  <2> QED
    BY <1>4, <2>1 DEF TypeOK, StoreCaller, StoreFails
<1>5. CASE RetrieveTokens
  <2>1. broken' \in 0..MaxBroken
    BY <1>5, Breaking DEF TypeOK, RetrieveTokens, StoreFails
  <2>2. next' \in Tokens /\ owners' \in Owners /\ again' \in BOOLEAN
    BY <1>5, FirstToken DEF TypeOK, RetrieveTokens, Initialized
  <2> QED
    BY <1>5, <2>1, <2>2 DEF TypeOK, RetrieveTokens, Initialized, StoreFails
<1>6. CASE Mint
  <2>1. MintBlock(next) \in Blocks
    BY Recipients, FirstSender, TokenNumber, ABlock DEF MintBlock, TypeOK
  <2>2. /\ chain' \in Seq(Blocks) /\ Len(chain') <= MaxHeight
        /\ pc' \in {"keep tokens", "mint", "failed"}
        /\ broken' \in 0..MaxBroken
    BY <1>6, <2>1, Transacting DEF Mint
  <2>3. next' \in Tokens
    <3>1. next \in 1..Mints /\ Mints \in Nat
      BY Numbers, TokenNumber DEF TypeOK
    <3>2. next' = IF next < Mints THEN next + 1 ELSE next
      BY <1>6 DEF Mint
    <3> QED
      BY <3>1, <3>2 DEF Tokens
  <2> QED
    BY <1>6, <2>2, <2>3 DEF TypeOK, Mint
<1>7. CASE StoreTokens
  <2>1. broken' \in 0..MaxBroken
    BY <1>7, Breaking DEF TypeOK, StoreTokens, StoreFails
  <2>2. [t \in Tokens |-> Recipient(t)] \in Owners
    BY Recipients DEF Owners
  <2>3. /\ mapping' \in Owners /\ owners' \in Owners
        /\ minted' \in BOOLEAN /\ fresh' \in BOOLEAN /\ again' \in BOOLEAN
    BY <1>7, <2>2 DEF TypeOK, StoreTokens, Initialized
  <2> QED
    BY <1>7, <2>1, <2>3 DEF TypeOK, StoreTokens, Initialized, StoreFails
<1>8. ASSUME NEW t \in Tokens, NEW a \in Accounts, Transfer(t, a)
      PROVE  TypeOK'
  <2>1. owners[t] \in Accounts \cup {NoAccount}
    BY DEF TypeOK, Owners
  <2>2. [act |-> "move", by |-> owners[t], contract |-> contract, token |-> t, to |-> a]
          \in Blocks
    BY <2>1, TokenNumber, ABlock DEF TypeOK
  <2>3. chain' \in Seq(Blocks) /\ Len(chain') <= MaxHeight
    BY <1>8, <2>2, Longer DEF Transfer, TypeOK
  <2>4. owners' \in Owners
    BY <1>8 DEF Transfer, Owners, TypeOK
  <2> QED
    BY <1>8, <2>3, <2>4 DEF TypeOK, Transfer
<1>9. ASSUME NEW a \in Others, OtherBlock(a)
      PROVE  TypeOK'
  <2>1. [Other EXCEPT !.by = a] \in Blocks
    BY TokenAssumption, OthersBlock
  <2>2. chain' \in Seq(Blocks) /\ Len(chain') <= MaxHeight
    BY <1>9, <2>1, Longer DEF OtherBlock, TypeOK
  <2> QED
    BY <1>9, <2>2 DEF TypeOK, OtherBlock
<1>10. CASE Fork
  <2>1. PICK n \in 1..(Len(chain) - 1) :
          \/ chain' = SubSeq(chain, 1, n)
          \/ chain' = Append(SubSeq(chain, 1, n), Other)
    BY <1>10 DEF Fork
  <2>5. chain \in Seq(Blocks) /\ Len(chain) \in Nat /\ Len(chain) <= MaxHeight
    BY ChainType
  <2>2. n \in 0..Len(chain) /\ n < Len(chain)
    BY <2>5
  <2>3. SubSeq(chain, 1, n) \in Seq(Blocks) /\ Len(SubSeq(chain, 1, n)) = n
    BY <2>2, Shorter DEF TypeOK
  <2>4. chain' \in Seq(Blocks) /\ Len(chain') <= MaxHeight
    <3>1. CASE chain' = SubSeq(chain, 1, n)
      BY <2>2, <2>3, <2>5, <3>1, Numbers
    <3>2. CASE chain' = Append(SubSeq(chain, 1, n), Other)
      <4>1. chain' \in Seq(Blocks) /\ Len(chain') = n + 1
        BY <2>3, <3>2, OtherIsBlock, AppendProperties
      <4> QED
        BY <2>2, <2>5, <4>1, Numbers
    <3> QED
      BY <2>1, <3>1, <3>2
  <2> QED
    BY <1>10, <2>4 DEF TypeOK, Fork
<1>11. CASE Stop
  BY <1>11, Ending DEF TypeOK, Stop
<1>12. CASE Crash
  <2>1. PICK n \in 0..Len(chain) :
          chain' = SubSeq(chain, 1, n) /\ undone' = (undone \/ n < Len(chain))
    BY <1>12 DEF Crash
  <2>2. chain' \in Seq(Blocks) /\ Len(chain') = n
    BY <2>1, Shorter DEF TypeOK
  <2>4. Len(chain) \in Nat /\ Len(chain) <= MaxHeight
    BY ChainType
  <2>3. Len(chain') <= MaxHeight
    BY <2>2, <2>4, Numbers
  <2> QED
    BY <1>12, <2>1, <2>2, <2>3, Ending DEF TypeOK, Crash
<1>13. CASE UNCHANGED vars
  BY <1>13 DEF TypeOK, vars
<1> QED
  BY <1>1, <1>2, <1>3, <1>4, <1>5, <1>6, <1>7, <1>8, <1>9, <1>10, <1>11, <1>12, <1>13
     DEF Next, Initialize

--------------------------------------------------------------------------------
(***************************************************************************)
(* Counting the mint transactions of a token.                              *)
(***************************************************************************)

MintsIn(c, t) == {i \in DOMAIN c : c[i].act = "mint" /\ c[i].token = t}

\* A chain holds finitely many mints of a token.
LEMMA MintsFinite ==
  ASSUME NEW c \in Seq(Blocks), NEW t
  PROVE  /\ IsFiniteSet(MintsIn(c, t))
         /\ Cardinality(MintsIn(c, t)) \in Nat
<1>1. IsFiniteSet(1..Len(c))
  BY FS_Interval
<1>2. MintsIn(c, t) \subseteq 1..Len(c)
  BY DEF MintsIn
<1> QED
  BY <1>1, <1>2, FS_Subset, FS_CardinalityType

\* One block adds at most one of them, and none unless it mints that token.
LEMMA MintsInLonger ==
  ASSUME NEW c \in Seq(Blocks), NEW b \in Blocks, NEW t
  PROVE  /\ Cardinality(MintsIn(Append(c, b), t)) <= Cardinality(MintsIn(c, t)) + 1
         /\ ~(b.act = "mint" /\ b.token = t)
              => Cardinality(MintsIn(Append(c, b), t)) = Cardinality(MintsIn(c, t))
<1> DEFINE n == Len(c) + 1
           d == Append(c, b)
<1>1. /\ DOMAIN d = DOMAIN c \cup {n} /\ n \notin DOMAIN c
      /\ d[n] = b /\ \A i \in DOMAIN c : d[i] = c[i]
  OBVIOUS
<1>2. CASE b.act = "mint" /\ b.token = t
  <2>1. MintsIn(d, t) = MintsIn(c, t) \cup {n} /\ n \notin MintsIn(c, t)
    BY <1>1, <1>2 DEF MintsIn
  <2>2. Cardinality(MintsIn(d, t)) = Cardinality(MintsIn(c, t)) + 1
    BY <2>1, MintsFinite, FS_AddElement
  <2> QED
    BY <1>2, <2>2, MintsFinite
<1>3. CASE ~(b.act = "mint" /\ b.token = t)
  <2>1. MintsIn(d, t) = MintsIn(c, t)
    BY <1>1, <1>3 DEF MintsIn
  <2> QED
    BY <2>1, MintsFinite
<1> QED
  BY <1>2, <1>3

\* A chain that is cut back has no more of them.
LEMMA MintsInShorter ==
  ASSUME NEW c \in Seq(Blocks), NEW n \in 0..Len(c), NEW t
  PROVE  Cardinality(MintsIn(SubSeq(c, 1, n), t)) <= Cardinality(MintsIn(c, t))
<1>1. MintsIn(SubSeq(c, 1, n), t) \subseteq MintsIn(c, t)
  <2>1. DOMAIN SubSeq(c, 1, n) = 1..n /\ 1..n \subseteq DOMAIN c
    BY Shorter
  <2>2. \A i \in 1..n : SubSeq(c, 1, n)[i] = c[i]
    BY Shorter
  <2> QED
    BY <2>1, <2>2 DEF MintsIn
<1> QED
  BY <1>1, MintsFinite, FS_Subset

--------------------------------------------------------------------------------
(***************************************************************************)
(* How often a token may have been minted, at each place.                  *)
(***************************************************************************)

\* What is stored says whether the loop has been run to its end.
Place ==
  /\ minted => pc \notin {"mint", "keep tokens"}
  /\ pc = "ready" => minted

\* Each broken initialisation may have minted t once, and so may this one.
Allowed(t) ==
  IF minted \/ pc = "keep tokens" \/ (pc = "mint" /\ t < next) THEN broken + 1 ELSE broken

Counted ==
  broken < MaxBroken =>
    \A t \in Tokens : Cardinality(MintsIn(chain, t)) <= Allowed(t)

\* Nobody enters the loop again once minted is stored.
LEMMA PlaceStep == Place /\ [Next]_vars => Place'
<1> SUFFICES ASSUME Place, [Next]_vars
             PROVE  Place'
  OBVIOUS
<1> USE DEF Place, store, locals, history, At, Goto
<1>1. CASE Start
  BY <1>1 DEF Start
<1>2. CASE RetrieveCaller
  BY <1>2 DEF RetrieveCaller, StoreFails
<1>3. CASE DeployContract
  BY <1>3 DEF DeployContract, Transact
<1>4. CASE StoreCaller
  BY <1>4 DEF StoreCaller, StoreFails
<1>5. CASE RetrieveTokens
  BY <1>5 DEF RetrieveTokens, Initialized, StoreFails
<1>6. CASE Mint
  BY <1>6 DEF Mint, Transact
<1>7. CASE StoreTokens
  BY <1>7 DEF StoreTokens, Initialized, StoreFails
<1>8. ASSUME NEW t \in Tokens, NEW a \in Accounts, Transfer(t, a)
      PROVE  Place'
  BY <1>8 DEF Transfer
<1>9. ASSUME NEW a \in Others, OtherBlock(a)
      PROVE  Place'
  BY <1>9 DEF OtherBlock
<1>10. CASE Fork
  BY <1>10 DEF Fork
<1>11. CASE Stop \/ Crash
  BY <1>11 DEF Stop, Crash, End
<1>12. CASE UNCHANGED vars
  BY <1>12 DEF vars
<1> QED
  BY <1>1, <1>2, <1>3, <1>4, <1>5, <1>6, <1>7, <1>8, <1>9, <1>10, <1>11, <1>12
     DEF Next, Initialize

--------------------------------------------------------------------------------
(***************************************************************************)
(* What a step does to the two sides of Counted.                           *)
(***************************************************************************)

LEMMA BrokenType ==
  ASSUME TypeOK
  PROVE  broken \in Nat
<1>1. broken \in 0..MaxBroken
  BY DEF TypeOK
<1> QED
  BY <1>1, Numbers

LEMMA AllowedType ==
  ASSUME TypeOK, NEW t \in Tokens
  PROVE  Allowed(t) \in Nat /\ Allowed(t) \in {broken, broken + 1}
<1>1. Allowed(t) \in {broken, broken + 1}
  BY DEF Allowed
<1> QED
  BY <1>1, BrokenType

\* An initialisation that ends before its end allows for all it has minted.
LEMMA BrokenAllows ==
  ASSUME TypeOK, TypeOK', Break, broken' < MaxBroken, NEW t \in Tokens
  PROVE  broken < MaxBroken /\ Allowed(t) <= Allowed(t)'
<1>1. broken \in Nat /\ broken < MaxBroken /\ broken' = broken + 1
  BY BrokenType, Numbers DEF Break
<1>2. Allowed(t) \in {broken, broken + 1}
  BY AllowedType
<1>3. Allowed(t)' \in {broken', broken' + 1}
  BY DEF Allowed
<1> QED
  BY <1>1, <1>2, <1>3

\* Arithmetic for the cases of Allowed.
LEMMA OneMore ==
  ASSUME NEW n \in Nat, NEW a, NEW b, a = n, b \in {n, n + 1}
  PROVE  a <= b
  OBVIOUS

LEMMA AlsoOneMore ==
  ASSUME NEW n \in Nat, NEW a, NEW b, a = n + 1, b = n + 1
  PROVE  a <= b
  OBVIOUS

\* A step that does not go back in the loop allows for what was allowed for.
LEMMA StillAllowed ==
  ASSUME TypeOK, broken' = broken, NEW t \in Tokens,
         minted => minted',
         pc = "keep tokens" \/ (pc = "mint" /\ t < next)
           => minted' \/ pc' = "keep tokens" \/ (pc' = "mint" /\ t < next')
  PROVE  Allowed(t) <= Allowed(t)'
<1>1. broken \in Nat
  BY BrokenType
<1>2. CASE minted \/ pc = "keep tokens" \/ (pc = "mint" /\ t < next)
  <2>1. minted' \/ pc' = "keep tokens" \/ (pc' = "mint" /\ t < next')
    BY <1>2
  <2>2. Allowed(t)' = broken' + 1
    BY <2>1 DEF Allowed
  <2>3. Allowed(t) = broken + 1
    BY <1>2 DEF Allowed
  <2> QED
    BY <1>1, <2>2, <2>3, AlsoOneMore
<1>3. CASE ~(minted \/ pc = "keep tokens" \/ (pc = "mint" /\ t < next))
  <2>1. Allowed(t) = broken
    BY <1>3 DEF Allowed
  <2>2. Allowed(t)' \in {broken', broken' + 1}
    BY DEF Allowed
  <2> QED
    BY <1>1, <2>1, <2>2, OneMore
<1> QED
  BY <1>2, <1>3

\* Counted is kept when no mint is added and as much is allowed as before.
LEMMA NothingMinted ==
  ASSUME TypeOK, TypeOK', Counted, broken' < MaxBroken => broken < MaxBroken,
         \A t \in Tokens : Cardinality(MintsIn(chain', t)) <= Cardinality(MintsIn(chain, t)),
         broken' < MaxBroken => \A t \in Tokens : Allowed(t) <= Allowed(t)'
  PROVE  Counted'
<1> SUFFICES ASSUME broken' < MaxBroken, NEW t \in Tokens
             PROVE  Cardinality(MintsIn(chain', t)) <= Allowed(t)'
  BY DEF Counted
<1>1. Cardinality(MintsIn(chain, t)) <= Allowed(t)
  BY DEF Counted
<1>2. Cardinality(MintsIn(chain, t)) \in Nat /\ Cardinality(MintsIn(chain', t)) \in Nat
  BY MintsFinite DEF TypeOK
<1>3. broken' \in Nat
  <2>1. broken' \in 0..MaxBroken
    BY DEF TypeOK
  <2> QED
    BY <2>1, Numbers
<1>4. Allowed(t)' \in {broken', broken' + 1}
  BY DEF Allowed
<1>5. Allowed(t) \in Nat /\ Allowed(t)' \in Nat
  BY <1>3, <1>4, AllowedType
<1>6. Cardinality(MintsIn(chain, t)) <= Allowed(t)'
  <2>1. Allowed(t) <= Allowed(t)'
    OBVIOUS
  <2> QED
    BY <1>1, <1>2, <1>5, <2>1
<1>7. Cardinality(MintsIn(chain', t)) <= Cardinality(MintsIn(chain, t))
  OBVIOUS
<1> QED
  BY <1>2, <1>5, <1>6, <1>7

\* A chain that is the same, is cut, or has one block more that is not a mint.
LEMMA SameMints ==
  ASSUME TypeOK, UNCHANGED chain
  PROVE  \A t \in Tokens : Cardinality(MintsIn(chain', t)) <= Cardinality(MintsIn(chain, t))
BY MintsFinite DEF TypeOK

\* A block that mints nothing adds no mint.
LEMMA OneBlockMore ==
  ASSUME TypeOK, NEW b \in Blocks, b.act # "mint", chain' = Append(chain, b)
  PROVE  \A t \in Tokens : Cardinality(MintsIn(chain', t)) <= Cardinality(MintsIn(chain, t))
<1> SUFFICES ASSUME NEW t \in Tokens
             PROVE  Cardinality(MintsIn(chain', t)) <= Cardinality(MintsIn(chain, t))
  OBVIOUS
<1>1. chain \in Seq(Blocks)
  BY DEF TypeOK
<1>2. Cardinality(MintsIn(Append(chain, b), t)) = Cardinality(MintsIn(chain, t))
  BY <1>1, MintsInLonger
<1> QED
  BY <1>1, <1>2, MintsFinite

\* Nor does a fork or a crash.
LEMMA CutChain ==
  ASSUME TypeOK, NEW n \in 0..Len(chain),
         chain' = SubSeq(chain, 1, n) \/ chain' = Append(SubSeq(chain, 1, n), Other)
  PROVE  \A t \in Tokens : Cardinality(MintsIn(chain', t)) <= Cardinality(MintsIn(chain, t))
<1> SUFFICES ASSUME NEW t \in Tokens
             PROVE  Cardinality(MintsIn(chain', t)) <= Cardinality(MintsIn(chain, t))
  OBVIOUS
<1>1. chain \in Seq(Blocks)
  BY DEF TypeOK
<1>2. Cardinality(MintsIn(SubSeq(chain, 1, n), t)) <= Cardinality(MintsIn(chain, t))
  BY <1>1, MintsInShorter
<1>3. SubSeq(chain, 1, n) \in Seq(Blocks)
  BY <1>1, Shorter
<1>4. Other.act # "mint"
  BY DEF Other
<1>5. Cardinality(MintsIn(Append(SubSeq(chain, 1, n), Other), t))
        = Cardinality(MintsIn(SubSeq(chain, 1, n), t))
  BY <1>3, <1>4, OtherIsBlock, MintsInLonger
<1> QED
  BY <1>2, <1>5

\* The minting loop is where it was, has come to its end, or was not entered.
LoopKept ==
  /\ minted => minted'
  /\ pc \in {"mint", "keep tokens"} => minted' \/ (pc' = pc /\ next' = next)

\* A step without a mint keeps the counts allowed, whether it breaks or goes on.
LEMMA QuietStep ==
  ASSUME TypeOK, TypeOK', Counted,
         \A t \in Tokens : Cardinality(MintsIn(chain', t)) <= Cardinality(MintsIn(chain, t)),
         (broken' = broken /\ LoopKept) \/ Break
  PROVE  Counted'
<1>1. CASE broken' = broken /\ LoopKept
  <2>1. ASSUME NEW t \in Tokens
        PROVE  Allowed(t) <= Allowed(t)'
    BY <1>1, StillAllowed DEF LoopKept
  <2> QED
    BY <1>1, <2>1, NothingMinted
<1>2. CASE Break
  <2>1. broken' < MaxBroken => broken < MaxBroken
    BY <1>2, BrokenType, Numbers DEF Break
  <2>2. ASSUME broken' < MaxBroken, NEW t \in Tokens
        PROVE  Allowed(t) <= Allowed(t)'
    BY <1>2, <2>2, BrokenAllows
  <2> QED
    BY <2>1, <2>2, NothingMinted
<1> QED
  BY <1>1, <1>2

\* Arithmetic for a mint of token n: t is counted once more only when it is n.
LEMMA OneMint ==
  ASSUME NEW n \in Nat, NEW t \in Nat, NEW b \in Nat, NEW count \in Nat, NEW after \in Nat,
         after <= count + 1, t # n => after = count,
         count <= IF t < n THEN b + 1 ELSE b
  PROVE  after <= b + 1 /\ (n < t => after <= b)
  OBVIOUS

\* A token the loop was not before is behind it in the next round, or all are.
LEMMA LoopGoesOn ==
  ASSUME NEW n \in 1..Mints, NEW t \in 1..Mints, NEW m, Mints \in Nat,
         m = (IF n < Mints THEN n + 1 ELSE n), ~(n < t)
  PROVE  n = Mints \/ t < m
  OBVIOUS

LEMMA AtLeast ==
  ASSUME NEW n \in Nat, NEW m \in Nat, NEW a, m <= n, a \in {n, n + 1}
  PROVE  m <= a
  OBVIOUS

\* A mint transaction that is on the chain: the token is accounted for because
\* the loop goes on behind it, or because the initialisation is broken.
MintsNext ==
  /\ At("mint")
  /\ chain' = Append(chain, MintBlock(next))
  /\ next' = IF next < Mints THEN next + 1 ELSE next
  /\ \/ pc' = (IF next = Mints THEN "keep tokens" ELSE "mint") /\ broken' = broken
     \/ Break

\* A mint keeps the counts allowed.
LEMMA MintedBlock ==
  ASSUME TypeOK, TypeOK', Place, Counted, MintsNext
  PROVE  Counted'
<1> SUFFICES ASSUME broken' < MaxBroken, NEW t \in Tokens
             PROVE  Cardinality(MintsIn(chain', t)) <= Allowed(t)'
  BY DEF Counted
<1> DEFINE count == Cardinality(MintsIn(chain, t))
           after == Cardinality(MintsIn(chain', t))
<1>1. next \in 1..Mints /\ t \in 1..Mints /\ Mints \in Nat
  BY Numbers, TokenNumber DEF TypeOK
<1>2. broken \in Nat /\ broken < MaxBroken
  BY BrokenType, Numbers DEF MintsNext, Break
<1>3. MintBlock(next) \in Blocks /\ MintBlock(next).token = next
  BY Recipients, FirstSender, TokenNumber, ABlock DEF MintBlock, TypeOK
<1>4. chain \in Seq(Blocks)
  BY DEF TypeOK
<1>5. /\ count \in Nat /\ after \in Nat /\ after <= count + 1
      /\ t # next => after = count
  <2>1. count \in Nat /\ after \in Nat
    BY MintsFinite DEF TypeOK
  <2>2. after <= count + 1
    BY <1>3, <1>4, MintsInLonger DEF MintsNext
  <2>3. t # next => after = count
    BY <1>3, <1>4, MintsInLonger DEF MintsNext
  <2> QED
    BY <2>1, <2>2, <2>3
<1>6. count <= Allowed(t)
  BY <1>2 DEF Counted
<1>7. ~minted /\ Allowed(t) = IF t < next THEN broken + 1 ELSE broken
  BY DEF Place, MintsNext, At, Allowed
<1>8. after <= broken + 1 /\ (next < t => after <= broken)
  <2>1. count <= IF t < next THEN broken + 1 ELSE broken
    BY <1>6, <1>7
  <2>2. next \in Nat /\ t \in Nat
    BY <1>1
  <2> HIDE DEF count, after
  <2> QED
    BY <1>2, <1>5, <2>1, <2>2, OneMint
<1>9. CASE pc' = (IF next = Mints THEN "keep tokens" ELSE "mint") /\ broken' = broken
  <2>1. Allowed(t)' \in {broken, broken + 1}
    BY <1>9 DEF Allowed
  <2>2. CASE next < t
    <3>1. after <= broken
      BY <1>8, <2>2
    <3> QED
      BY <1>2, <1>5, <2>1, <3>1, AtLeast
  <2>3. CASE ~(next < t)
    <3>1. next = Mints \/ t < next'
      BY <1>1, <2>3, LoopGoesOn DEF MintsNext
    <3>2. pc' = "keep tokens" \/ (pc' = "mint" /\ t < next')
      BY <1>9, <3>1
    <3>3. Allowed(t)' = broken + 1
      BY <1>9, <3>2 DEF Allowed
    <3> QED
      BY <1>8, <3>3
  <2> QED
    BY <2>2, <2>3
<1>10. CASE Break
  <2>1. broken' = broken + 1
    BY <1>2, <1>10, Numbers DEF Break
  <2>2. Allowed(t)' \in {broken + 1, (broken + 1) + 1}
    BY <2>1 DEF Allowed
  <2>3. broken + 1 \in Nat
    BY <1>2
  <2> HIDE DEF count, after
  <2>4. after <= Allowed(t)'
    BY <1>5, <1>8, <2>2, <2>3, AtLeast
  <2> QED
    BY <2>4 DEF after
<1> QED
  BY <1>9, <1>10 DEF MintsNext

LEMMA CountedStep == TypeOK /\ TypeOK' /\ Place /\ Counted /\ [Next]_vars => Counted'
<1> SUFFICES ASSUME TypeOK, TypeOK', Place, Counted, [Next]_vars
             PROVE  Counted'
  OBVIOUS
<1> USE DEF store, locals, history, At, Goto
<1>1. CASE Start
  BY <1>1, SameMints, QuietStep DEF Start, LoopKept
<1>2. CASE RetrieveCaller
  BY <1>2, SameMints, QuietStep DEF RetrieveCaller, StoreFails, LoopKept
<1>3. CASE DeployContract
  <2> DEFINE Deploy(a) == [act |-> "deploy", by |-> a, contract |-> contract', token |-> 0,
                           to |-> NoAccount]
  <2>1. PICK b : Transact(b, "keep caller") /\ b.act = "deploy"
    <3>1. PICK a \in Deployers : Transact(Deploy(a), "keep caller")
      BY <1>3 DEF DeployContract
    <3>2. Deploy(a).act = "deploy"
      OBVIOUS
    <3> QED
      BY <3>1, <3>2
  <2>2. (broken' = broken /\ LoopKept) \/ Break
    BY <1>3, <2>1 DEF DeployContract, Transact, LoopKept
  <2>3. CASE UNCHANGED chain
    BY <2>2, <2>3, SameMints, QuietStep
  <2>4. CASE chain' = Append(chain, b)
    <3>1. chain \in Seq(Blocks) /\ Append(chain, b) \in Seq(Blocks)
      BY <2>4 DEF TypeOK
    <3>2. b \in Blocks
      <4>1. b = Append(chain, b)[Len(chain) + 1]
        BY <3>1
      <4>2. Len(chain) + 1 \in DOMAIN Append(chain, b)
        BY <3>1
      <4> QED
        BY <3>1, <4>1, <4>2
    <3> QED
      BY <2>1, <2>2, <2>4, <3>2, OneBlockMore, QuietStep
  <2> QED
    BY <2>1, <2>3, <2>4 DEF Transact
<1>4. CASE StoreCaller
  BY <1>4, SameMints, QuietStep DEF StoreCaller, StoreFails, LoopKept
<1>5. CASE RetrieveTokens
  BY <1>5, SameMints, QuietStep DEF RetrieveTokens, Initialized, StoreFails, LoopKept
<1>6. CASE Mint
  <2>1. CASE UNCHANGED chain
    <3>1. MintBlock(next) \in Blocks
      BY Recipients, FirstSender, TokenNumber, ABlock DEF MintBlock, TypeOK
    <3>2. Append(chain, MintBlock(next)) # chain
      <4>1. chain \in Seq(Blocks) /\ Len(chain) \in Nat
        BY ChainType
      <4>2. Len(Append(chain, MintBlock(next))) = Len(chain) + 1
        BY <3>1, <4>1, AppendProperties
      <4> QED
        BY <4>1, <4>2
    <3>3. Break
      BY <1>6, <2>1, <3>2 DEF Mint, Transact
    <3> QED
      BY <2>1, <3>3, SameMints, QuietStep
  <2>2. CASE chain' = Append(chain, MintBlock(next))
    BY <1>6, <2>2, MintedBlock DEF Mint, Transact, MintsNext
  <2> QED
    BY <1>6, <2>1, <2>2 DEF Mint, Transact
<1>7. CASE StoreTokens
  BY <1>7, SameMints, QuietStep DEF StoreTokens, StoreFails, LoopKept
<1>8. ASSUME NEW t \in Tokens, NEW a \in Accounts, Transfer(t, a)
      PROVE  Counted'
  <2> DEFINE b == [act |-> "move", by |-> owners[t], contract |-> contract, token |-> t,
                   to |-> a]
  <2>1. broken' = broken /\ LoopKept
    BY <1>8 DEF Transfer, LoopKept
  <2>2. CASE UNCHANGED chain
    BY <2>1, <2>2, SameMints, QuietStep
  <2>3. CASE chain' = Append(chain, b)
    <3>1. owners[t] \in Accounts \cup {NoAccount}
      BY DEF TypeOK, Owners
    <3>2. b \in Blocks /\ b.act # "mint"
      BY <3>1, TokenNumber, ABlock DEF TypeOK
    <3> QED
      BY <2>1, <2>3, <3>2, OneBlockMore, QuietStep
  <2> QED
    BY <1>8, <2>2, <2>3 DEF Transfer
<1>9. ASSUME NEW a \in Others, OtherBlock(a)
      PROVE  Counted'
  <2>1. [Other EXCEPT !.by = a] \in Blocks
    BY TokenAssumption, OthersBlock
  <2>2. [Other EXCEPT !.by = a].act # "mint"
    BY DEF Other
  <2>3. chain' = Append(chain, [Other EXCEPT !.by = a]) /\ broken' = broken /\ LoopKept
    BY <1>9 DEF OtherBlock, LoopKept
  <2> QED
    BY <2>1, <2>2, <2>3, OneBlockMore, QuietStep
<1>10. CASE Fork
  <2>1. PICK n \in 1..(Len(chain) - 1) :
          \/ chain' = SubSeq(chain, 1, n)
          \/ chain' = Append(SubSeq(chain, 1, n), Other)
    BY <1>10 DEF Fork
  <2>2. n \in 0..Len(chain)
    BY ChainType
  <2>3. broken' = broken /\ LoopKept
    BY <1>10 DEF Fork, LoopKept
  <2> QED
    BY <2>1, <2>2, <2>3, CutChain, QuietStep
<1>11. CASE Stop
  BY <1>11, SameMints, QuietStep DEF Stop, End, Initializing, LoopKept
<1>12. CASE Crash
  <2>1. PICK n \in 0..Len(chain) : chain' = SubSeq(chain, 1, n)
    BY <1>12 DEF Crash
  <2>2. (broken' = broken /\ LoopKept) \/ Break
    BY <1>12 DEF Crash, End, Initializing, LoopKept
  <2> QED
    BY <2>1, <2>2, CutChain, QuietStep
<1>13. CASE UNCHANGED vars
  BY <1>13, SameMints, QuietStep DEF vars, LoopKept
<1> QED
  BY <1>1, <1>2, <1>3, <1>4, <1>5, <1>6, <1>7, <1>8, <1>9, <1>10, <1>11, <1>12, <1>13
     DEF Next, Initialize

--------------------------------------------------------------------------------
(***************************************************************************)
(* What Owner computes, by induction over the blocks of a chain.           *)
(***************************************************************************)

\* The owners a token may have.
MaybeAccounts == Accounts \cup {NoAccount}

\* The owner of t in contract k after a block that comes on top of chain c.
After(c, b, k, t, before) ==
  LET mints == /\ b.act = "mint" /\ b.by = k[1]
               /\ before = NoAccount /\ Deployed(c, k, Len(c))
      moves == b.act = "move" /\ b.by = before
  IN IF b.contract = k /\ b.token = t /\ (mints \/ moves) THEN b.to ELSE before

\* The owner after block h of chain c.
OwnerAt(c, k, t, h, before) ==
  LET b     == c[h]
      mints == /\ b.act = "mint" /\ b.by = k[1]
               /\ before = NoAccount /\ Deployed(c, k, h)
      moves == b.act = "move" /\ b.by = before
  IN IF b.contract = k /\ b.token = t /\ (mints \/ moves) THEN b.to ELSE before

\* f is the history of the owners of t in contract k on chain c.
IsHistory(c, k, t, f) ==
  /\ f \in [0..Len(c) -> MaybeAccounts]
  /\ f[0] = NoAccount
  /\ \A h \in 1..Len(c) : f[h] = OwnerAt(c, k, t, h, f[h - 1])

\* What Owner computes is the end of such a history.
LEMMA OwnerHistory ==
  ASSUME NEW c \in Seq(Blocks), NEW k, NEW t
  PROVE  \E f : IsHistory(c, k, t, f) /\ Owner(c, k, t) = f[Len(c)]
<1> DEFINE n == Len(c)
           Def(f) == [h \in 0..n |-> IF h = 0 THEN NoAccount ELSE OwnerAt(c, k, t, h, f[h - 1])]
           F == [x \in (1..n) \X MaybeAccounts |-> OwnerAt(c, k, t, x[1], x[2])]
<1>1. n \in Nat /\ NoAccount \in MaybeAccounts
  BY DEF MaybeAccounts
<1>2. F \in [(1..n) \X MaybeAccounts -> MaybeAccounts]
  <2> SUFFICES ASSUME NEW h \in 1..n, NEW before \in MaybeAccounts
               PROVE  OwnerAt(c, k, t, h, before) \in MaybeAccounts
    OBVIOUS
  <2>1. c[h] \in Blocks
    OBVIOUS
  <2>2. c[h].to \in MaybeAccounts
    BY <2>1 DEF Blocks, MaybeAccounts
  <2> QED
    BY <2>2 DEF OwnerAt
<1>3. PICK f \in [0..n -> MaybeAccounts] :
        f[0] = NoAccount /\ \A h \in 1..n : f[h] = F[<<h, f[h - 1]>>]
  <2>1. Recursion(MaybeAccounts, NoAccount, n, F)
    <3> HIDE DEF F, n
    <3> QED
      BY <1>1, <1>2, Recurse
  <2> QED
    BY <2>1 DEF Recursion
<1>4. \A h \in 1..n : f[h] = OwnerAt(c, k, t, h, f[h - 1])
  <2> SUFFICES ASSUME NEW h \in 1..n
               PROVE  f[h] = OwnerAt(c, k, t, h, f[h - 1])
    OBVIOUS
  <2>1. f[h - 1] \in MaybeAccounts
    BY <1>1
  <2> QED
    BY <1>3, <2>1
<1>5. f = Def(f)
  BY <1>1, <1>3, <1>4
<1>6. Owner(c, k, t) = (CHOOSE g : g = Def(g))[n]
  BY DEF Owner, OwnerAt
<1> DEFINE g == CHOOSE g : g = Def(g)
<1>7. g = Def(g)
  <2> HIDE DEF Def
  <2> QED
    BY <1>5
<1>8. g = f
  <2> DEFINE T == {h \in 0..n : g[h] = f[h]}
  <2>1. 0 \in T
    <3>1. 0 \in 0..n
      BY <1>1
    <3>2. g[0] = NoAccount
      <4> HIDE DEF g
      <4> QED
        BY <1>7, <3>1
    <3> QED
      BY <1>3, <3>1, <3>2
  <2>2. ASSUME NEW h \in 0..(n - 1), h \in T
        PROVE  h + 1 \in T
    <3>1. h + 1 \in 0..n /\ h + 1 # 0 /\ (h + 1) - 1 = h /\ h + 1 \in 1..n
      BY <1>1
    <3>2. g[h + 1] = OwnerAt(c, k, t, h + 1, g[(h + 1) - 1])
      <4> HIDE DEF g
      <4> QED
        BY <1>7, <3>1
    <3>3. f[h + 1] = OwnerAt(c, k, t, h + 1, f[(h + 1) - 1])
      BY <1>4, <3>1
    <3> QED
      BY <2>2, <3>1, <3>2, <3>3
  <2>3. \A h \in 0..n : h \in T
    <3> HIDE DEF T, n
    <3> QED
      BY <1>1, <2>1, <2>2, Induct
  <2>4. g = [h \in 0..n |-> g[h]]
    <3> HIDE DEF g
    <3> QED
      BY <1>7
  <2> QED
    BY <2>3, <2>4
<1> QED
  BY <1>1, <1>3, <1>4, <1>6, <1>8 DEF IsHistory

\* Histories of chains that agree up to n agree up to n.
LEMMA SameHistory ==
  ASSUME NEW c \in Seq(Blocks), NEW d \in Seq(Blocks), NEW n \in Nat,
         n <= Len(c), n <= Len(d), \A h \in 1..n : c[h] = d[h],
         NEW k, NEW t, NEW f, NEW g, IsHistory(c, k, t, f), IsHistory(d, k, t, g)
  PROVE  \A h \in 0..n : f[h] = g[h]
<1> DEFINE T == {h \in 0..n : f[h] = g[h]}
<1>1. 0 \in T
  BY DEF IsHistory
<1>2. ASSUME NEW h \in 0..(n - 1), h \in T
      PROVE  h + 1 \in T
  <2>1. h + 1 \in 1..n /\ (h + 1) - 1 = h /\ h + 1 \in 1..Len(c) /\ h + 1 \in 1..Len(d)
    OBVIOUS
  <2>2. f[h + 1] = OwnerAt(c, k, t, h + 1, f[h]) /\ g[h + 1] = OwnerAt(d, k, t, h + 1, g[h])
    BY <2>1 DEF IsHistory
  <2>3. Deployed(c, k, h + 1) = Deployed(d, k, h + 1)
    <3>1. \A i \in 1..(h + 1) : c[i] = d[i]
      BY <2>1
    <3> QED
      BY <3>1 DEF Deployed
  <2>4. c[h + 1] = d[h + 1] /\ f[h] = g[h]
    BY <1>2, <2>1
  <2>5. OwnerAt(c, k, t, h + 1, f[h]) = OwnerAt(d, k, t, h + 1, g[h])
    BY <2>3, <2>4 DEF OwnerAt
  <2> QED
    BY <2>1, <2>2, <2>5
<1>3. \A h \in 0..n : h \in T
  <2> HIDE DEF T
  <2> QED
    BY <1>1, <1>2, Induct
<1> QED
  BY <1>3

\* ownerOf after one block more.
LEMMA OwnerAfter ==
  ASSUME NEW c \in Seq(Blocks), NEW b \in Blocks, NEW k, NEW t
  PROVE  Owner(Append(c, b), k, t) = After(c, b, k, t, Owner(c, k, t))
<1> DEFINE d == Append(c, b)
           n == Len(c)
<1>1. /\ d \in Seq(Blocks) /\ n \in Nat /\ Len(d) = n + 1
      /\ \A i \in 1..n : d[i] = c[i]
      /\ d[n + 1] = b
  BY AppendProperties
<1>2. PICK f : IsHistory(c, k, t, f) /\ Owner(c, k, t) = f[n]
  BY OwnerHistory
<1>3. PICK g : IsHistory(d, k, t, g) /\ Owner(d, k, t) = g[n + 1]
  BY <1>1, OwnerHistory
<1> HIDE DEF d, n
<1>4. f[n] = g[n]
  <2>1. n <= Len(c) /\ n <= Len(d) /\ n \in 0..n
    BY <1>1 DEF n
  <2>2. \A h \in 1..n : c[h] = d[h]
    BY <1>1
  <2> QED
    BY <1>1, <1>2, <1>3, <2>1, <2>2, SameHistory
<1>5. g[n + 1] = OwnerAt(d, k, t, n + 1, g[n])
  <2>1. n + 1 \in 1..Len(d) /\ (n + 1) - 1 = n
    BY <1>1
  <2> QED
    BY <1>3, <2>1 DEF IsHistory
<1>6. b.act = "mint" => Deployed(d, k, n + 1) = Deployed(c, k, n)
  <2> SUFFICES ASSUME b.act = "mint"
               PROVE  Deployed(d, k, n + 1) = Deployed(c, k, n)
    OBVIOUS
  <2>1. \A i \in 1..(n + 1) : d[i].act = "deploy" => i \in 1..n
    BY <1>1
  <2>2. \A i \in 1..n : i \in 1..(n + 1)
    BY <1>1
  <2> QED
    BY <1>1, <2>1, <2>2 DEF Deployed
<1>7. OwnerAt(d, k, t, n + 1, g[n]) = After(c, b, k, t, f[n])
  BY <1>1, <1>4, <1>6 DEF OwnerAt, After, n
<1> QED
  BY <1>2, <1>3, <1>5, <1>7 DEF d

\* On the empty chain nobody owns anything.
LEMMA NoOwnerYet ==
  ASSUME NEW k, NEW t
  PROVE  Owner(<< >>, k, t) = NoAccount
<1>1. << >> \in Seq(Blocks) /\ Len(<< >>) = 0
  BY EmptySeq
<1>2. PICK f : IsHistory(<< >>, k, t, f) /\ Owner(<< >>, k, t) = f[Len(<< >>)]
  BY <1>1, OwnerHistory
<1> QED
  BY <1>1, <1>2 DEF IsHistory

\* A contract stays deployed when a block is added,
LEMMA StaysDeployed ==
  ASSUME NEW c \in Seq(Blocks), NEW b \in Blocks, NEW k, Deployed(c, k, Len(c))
  PROVE  Deployed(Append(c, b), k, Len(Append(c, b)))
<1>1. PICK i \in 1..Len(c) : c[i].act = "deploy" /\ c[i].contract = k
  BY DEF Deployed
<1>2. i \in 1..Len(Append(c, b)) /\ Append(c, b)[i] = c[i]
  OBVIOUS
<1> QED
  BY <1>1, <1>2 DEF Deployed

\* and is deployed by the block that deploys it.
LEMMA DeploysIt ==
  ASSUME NEW c \in Seq(Blocks), NEW b \in Blocks, b.act = "deploy"
  PROVE  Deployed(Append(c, b), b.contract, Len(Append(c, b)))
<1>1. /\ Len(c) + 1 \in 1..Len(Append(c, b))
      /\ Append(c, b)[Len(c) + 1] = b
  OBVIOUS
<1> QED
  BY <1>1 DEF Deployed

\* A token that has an owner keeps having one.
LEMMA StaysOwned ==
  ASSUME NEW c \in Seq(Blocks), NEW b \in Blocks, NEW k, NEW t,
         b.act \in {"mint", "move"} => b.to \in Accounts,
         Owner(c, k, t) # NoAccount
  PROVE  Owner(Append(c, b), k, t) # NoAccount
BY TokenAssumption, OwnerAfter DEF After

\* The chain is as it was, or has one block more that neither mints nor moves.
Quiet ==
  \/ UNCHANGED chain
  \/ \E b \in Blocks : b.act \notin {"mint", "move"} /\ chain' = Append(chain, b)

\* A quiet step changes neither the owners nor what is deployed.
LEMMA QuietChain ==
  ASSUME TypeOK, Quiet, NEW k
  PROVE  /\ \A t : Owner(chain', k, t) = Owner(chain, k, t)
         /\ Deployed(chain, k, Len(chain)) => Deployed(chain', k, Len(chain'))
<1>1. CASE UNCHANGED chain
  BY <1>1
<1>2. ASSUME NEW b \in Blocks, b.act \notin {"mint", "move"}, chain' = Append(chain, b)
      PROVE  /\ \A t : Owner(chain', k, t) = Owner(chain, k, t)
             /\ Deployed(chain, k, Len(chain)) => Deployed(chain', k, Len(chain'))
  <2>1. chain \in Seq(Blocks)
    BY ChainType
  <2>2. \A t : Owner(chain', k, t) = After(chain, b, k, t, Owner(chain, k, t))
    BY <1>2, <2>1, OwnerAfter
  <2>3. \A t : Owner(chain', k, t) = Owner(chain, k, t)
    BY <1>2, <2>2 DEF After
  <2> QED
    BY <1>2, <2>1, <2>3, StaysDeployed
<1> QED
  BY <1>1, <1>2 DEF Quiet

--------------------------------------------------------------------------------
(***************************************************************************)
(* The contract and its tokens, as long as no block was undone.            *)
(***************************************************************************)

\* Token t has been through the minting loop of a generator that still goes on, or
\* of one that came to its end.
Passed(t) == minted \/ pc = "keep tokens" \/ (pc = "mint" /\ t < next)

\* What the place of the generator says of the contract it holds and stores.
Stages ==
  /\ pc \in {"deploy", "keep caller"} => caller = NoContract
  /\ pc = "keep caller" => contract # NoContract
  /\ pc \in {"tokens", "mint", "keep tokens", "ready"} => contract = caller /\ caller # NoContract
  /\ minted => caller # NoContract
  /\ fresh => minted /\ pc # "down"

\* A contract that is stored, or about to be, is on the chain.
Grounded ==
  ~undone =>
    /\ caller # NoContract => Deployed(chain, caller, Len(chain))
    /\ pc = "keep caller" => Deployed(chain, contract, Len(chain))

\* Before anything is stored as minted no token has been moved on.
Untouched ==
  ~undone /\ ~minted =>
    \A k \in Addresses, t \in Tokens : Owner(chain, k, t) \in {NoAccount, Recipient(t)}

\* The tokens that passed have an owner when senders[0] may mint.
Present ==
  ~undone /\ caller[1] = Senders[1] =>
    \A t \in Tokens : Passed(t) => Owner(chain, caller, t) # NoAccount

\* The process that minted knows the owners, in the store while it still
\* initialises and in the generator once it is ready.
Current ==
  ~undone /\ fresh /\ caller[1] = Senders[1] =>
    \A t \in Tokens :
      /\ pc \in Initializing => mapping[t] = Owner(chain, caller, t)
      /\ pc = "ready" => owners[t] = Owner(chain, caller, t)

\* The contract in the generator follows the stored one.
LEMMA StagesStep == TypeOK /\ Place /\ Stages /\ [Next]_vars => Stages'
<1> SUFFICES ASSUME TypeOK, Place, Stages, [Next]_vars
             PROVE  Stages'
  OBVIOUS
<1> USE DEF Place, Stages, store, locals, history, At, Goto
<1>1. CASE Start
  BY <1>1 DEF Start
<1>2. CASE RetrieveCaller
  BY <1>2 DEF RetrieveCaller, StoreFails
<1>3. CASE DeployContract
  <2>1. contract' # NoContract
    <3>1. PICK a \in Accounts : contract' = <<a, Nonce(a)>>
      BY <1>3, FirstSender DEF DeployContract, Deployers
    <3>2. a # NoAccount
      BY TokenAssumption
    <3> QED
      BY <3>1, <3>2 DEF NoContract
  <2> QED
    BY <1>3, <2>1 DEF DeployContract, Transact
<1>4. CASE StoreCaller
  BY <1>4 DEF StoreCaller, StoreFails
<1>5. CASE RetrieveTokens
  BY <1>5 DEF RetrieveTokens, Initialized, StoreFails
<1>6. CASE Mint
  BY <1>6 DEF Mint, Transact
<1>7. CASE StoreTokens
  <2>1. pc' \in {"ready", "caller", "failed"}
    BY <1>7 DEF StoreTokens, Initialized, StoreFails
  <2>2. contract' = contract /\ caller' = caller /\ pc = "keep tokens"
    BY <1>7 DEF StoreTokens
  <2>3. caller # NoContract
    BY <2>2
  <2>4. fresh' => minted'
    BY <1>7 DEF StoreTokens
  <2> QED
    BY <2>1, <2>2, <2>3, <2>4
<1>8. ASSUME NEW t \in Tokens, NEW a \in Accounts, Transfer(t, a)
      PROVE  Stages'
  BY <1>8 DEF Transfer
<1>9. ASSUME NEW a \in Others, OtherBlock(a)
      PROVE  Stages'
  BY <1>9 DEF OtherBlock
<1>10. CASE Fork
  BY <1>10 DEF Fork
<1>11. CASE Stop \/ Crash
  <2>1. pc' = "down" /\ ~fresh' /\ caller' = caller /\ minted' = minted
    BY <1>11 DEF Stop, Crash, End
  <2> QED
    BY <2>1
<1>12. CASE UNCHANGED vars
  BY <1>12 DEF vars
<1> QED
  BY <1>1, <1>2, <1>3, <1>4, <1>5, <1>6, <1>7, <1>8, <1>9, <1>10, <1>11, <1>12
     DEF Next, Initialize

\* Every step leaves the owners alone, or mints, or transfers, or undoes blocks.
LEMMA StepKinds ==
  ASSUME TypeOK, [Next]_vars, ~undone'
  PROVE  /\ ~undone
         /\ Quiet \/ (Mint /\ MintsNext) \/ \E t \in Tokens, a \in Accounts : Transfer(t, a)
<1> USE DEF store, locals, history, At, Goto
<1>1. CASE Start
  BY <1>1 DEF Start, Quiet
<1>2. CASE RetrieveCaller
  BY <1>2 DEF RetrieveCaller, Quiet
<1>3. CASE DeployContract
  <2>1. PICK a \in Accounts :
          /\ contract' = <<a, Nonce(a)>>
          /\ Transact([act |-> "deploy", by |-> a, contract |-> contract', token |-> 0,
                       to |-> NoAccount],
                      "keep caller")
    BY <1>3, FirstSender DEF DeployContract, Deployers
  <2> DEFINE b == [act |-> "deploy", by |-> a, contract |-> contract', token |-> 0,
                   to |-> NoAccount]
  <2>2. contract' \in Addresses
    BY <2>1, Nonces DEF Addresses, TypeOK
  <2>3. b \in Blocks /\ b.act \notin {"mint", "move"}
    BY <2>2, Numbers, ABlock
  <2>4. chain' = chain \/ chain' = Append(chain, b)
    BY <2>1 DEF Transact
  <2>5. undone' = undone
    BY <1>3 DEF DeployContract
  <2> HIDE DEF b
  <2> QED
    BY <2>3, <2>4, <2>5 DEF Quiet
<1>4. CASE StoreCaller
  BY <1>4 DEF StoreCaller, Quiet
<1>5. CASE RetrieveTokens
  BY <1>5 DEF RetrieveTokens, Quiet
<1>6. CASE Mint
  <2>1. undone' = undone
    BY <1>6 DEF Mint
  <2>2. Quiet \/ MintsNext
    BY <1>6 DEF Mint, Transact, Quiet, MintsNext
  <2> QED
    BY <1>6, <2>1, <2>2
<1>7. CASE StoreTokens
  BY <1>7 DEF StoreTokens, Quiet
<1>8. ASSUME NEW t \in Tokens, NEW a \in Accounts, Transfer(t, a)
      PROVE  ~undone /\ \E u \in Tokens, b \in Accounts : Transfer(u, b)
  BY <1>8 DEF Transfer
<1>9. ASSUME NEW a \in Others, OtherBlock(a)
      PROVE  ~undone /\ Quiet
  <2>1. [Other EXCEPT !.by = a] \in Blocks
    BY TokenAssumption, OthersBlock
  <2>2. [Other EXCEPT !.by = a].act \notin {"mint", "move"}
    BY DEF Other
  <2> QED
    BY <1>9, <2>1, <2>2 DEF OtherBlock, Quiet
<1>10. CASE Fork
  BY <1>10 DEF Fork
<1>11. CASE Stop
  BY <1>11 DEF Stop, Quiet
<1>12. CASE Crash
  <2>1. PICK n \in 0..Len(chain) :
          chain' = SubSeq(chain, 1, n) /\ undone' = (undone \/ n < Len(chain))
    BY <1>12 DEF Crash
  <2>2. ~undone /\ n = Len(chain)
    <3>1. Len(chain) \in Nat /\ ~(n < Len(chain)) /\ ~undone
      BY <2>1, ChainType
    <3> QED
      BY <3>1
  <2>3. chain' = chain
    BY <2>1, <2>2, ChainType, SubSeqFull
  <2> QED
    BY <2>2, <2>3 DEF Quiet
<1>13. CASE UNCHANGED vars
  BY <1>13 DEF vars, Quiet
<1> QED
  BY <1>1, <1>2, <1>3, <1>4, <1>5, <1>6, <1>7, <1>8, <1>9, <1>10, <1>11, <1>12, <1>13
     DEF Next, Initialize

\* The block of a mint, which senders[0] sends to the contract that is stored.
LEMMA MintsOnChain ==
  ASSUME TypeOK, Stages, MintsNext
  PROVE  /\ MintBlock(next) \in Blocks
         /\ MintBlock(next).act = "mint"
         /\ MintBlock(next).by = Senders[1]
         /\ MintBlock(next).contract = caller
         /\ MintBlock(next).token = next
         /\ MintBlock(next).to = Recipient(next)
         /\ Recipient(next) \in Accounts
         /\ next \in Tokens
         /\ pc = "mint"
BY Recipients, FirstSender, TokenNumber, ABlock DEF MintBlock, TypeOK, Stages, MintsNext, At

\* A transfer is a block with the move the generator had in mind, or none.
LEMMA MovesOnChain ==
  ASSUME TypeOK, Stages, NEW t \in Tokens, NEW a \in Accounts, Transfer(t, a)
  PROVE  /\ pc = "ready"
         /\ \/ UNCHANGED chain /\ pc' = "failed"
            \/ \E b \in Blocks :
                 /\ b.act = "move" /\ b.by = owners[t] /\ b.contract = caller
                 /\ b.token = t /\ b.to = a
                 /\ chain' = Append(chain, b)
<1> DEFINE b == [act |-> "move", by |-> owners[t], contract |-> contract, token |-> t,
                 to |-> a]
<1>1. owners[t] \in Accounts \cup {NoAccount}
  BY DEF TypeOK, Owners
<1>2. b \in Blocks
  BY <1>1, TokenNumber, ABlock DEF TypeOK
<1>3. pc = "ready" /\ contract = caller
  BY DEF Transfer, At, Stages
<1>4. (UNCHANGED chain /\ pc' = "failed") \/ chain' = Append(chain, b)
  BY DEF Transfer, Goto
<1> QED
  BY <1>2, <1>3, <1>4

\* Blocks are only added as long as nothing is undone.
LEMMA GroundedStep ==
  TypeOK /\ Stages /\ Stages' /\ Grounded /\ [Next]_vars => Grounded'
<1> SUFFICES ASSUME TypeOK, Stages, Stages', Grounded, [Next]_vars, ~undone'
             PROVE  /\ caller' # NoContract => Deployed(chain', caller', Len(chain'))
                    /\ pc' = "keep caller" => Deployed(chain', contract', Len(chain'))
  BY DEF Grounded
<1>1. ~undone /\ (Quiet \/ (Mint /\ MintsNext) \/ \E t \in Tokens, a \in Accounts : Transfer(t, a))
  BY StepKinds
<1>2. \A k : Deployed(chain, k, Len(chain)) => Deployed(chain', k, Len(chain'))
  <2>1. CASE Quiet
    BY <2>1, QuietChain
  <2>2. CASE MintsNext
    BY <2>2, MintsOnChain, ChainType, StaysDeployed DEF MintsNext
  <2>3. ASSUME NEW t \in Tokens, NEW a \in Accounts, Transfer(t, a)
        PROVE  \A k : Deployed(chain, k, Len(chain)) => Deployed(chain', k, Len(chain'))
    <3>1. CASE UNCHANGED chain
      BY <3>1
    <3>2. ASSUME NEW b \in Blocks, chain' = Append(chain, b)
          PROVE  \A k : Deployed(chain, k, Len(chain)) => Deployed(chain', k, Len(chain'))
      BY <3>2, ChainType, StaysDeployed
    <3> QED
      BY <2>3, <3>1, <3>2, MovesOnChain
  <2> QED
    BY <1>1, <2>1, <2>2, <2>3
<1>3. /\ caller' = caller \/ (pc = "keep caller" /\ caller' = contract)
      /\ pc' = "keep caller" => DeployContract \/ (pc = "keep caller" /\ contract' = contract)
  <2> USE DEF store, locals, history, At, Goto
  <2>1. CASE Start
    BY <2>1 DEF Start
  <2>2. CASE RetrieveCaller
    BY <2>2 DEF RetrieveCaller, StoreFails
  <2>3. CASE DeployContract
    BY <2>3 DEF DeployContract
  <2>4. CASE StoreCaller
    BY <2>4 DEF StoreCaller, StoreFails
  <2>5. CASE RetrieveTokens
    BY <2>5 DEF RetrieveTokens, Initialized, StoreFails
  <2>6. CASE Mint
    BY <2>6 DEF Mint, Transact
  <2>7. CASE StoreTokens
    BY <2>7 DEF StoreTokens, Initialized, StoreFails
  <2>8. ASSUME NEW t \in Tokens, NEW a \in Accounts, Transfer(t, a)
        PROVE  caller' = caller /\ pc' # "keep caller"
    BY <2>8 DEF Transfer
  <2>9. ASSUME NEW a \in Others, OtherBlock(a)
        PROVE  caller' = caller /\ pc' = pc /\ contract' = contract
    BY <2>9 DEF OtherBlock
  <2>10. CASE Fork
    BY <2>10 DEF Fork
  <2>11. CASE Stop \/ Crash
    BY <2>11 DEF Stop, Crash, End
  <2>12. CASE UNCHANGED vars
    BY <2>12 DEF vars
  <2> QED
    BY <2>1, <2>2, <2>3, <2>4, <2>5, <2>6, <2>7, <2>8, <2>9, <2>10, <2>11, <2>12
       DEF Next, Initialize
<1>4. CASE DeployContract /\ pc' = "keep caller"
  <2> DEFINE B(a) == [act |-> "deploy", by |-> a, contract |-> contract', token |-> 0,
                      to |-> NoAccount]
  <2>1. PICK a \in Accounts : contract' = <<a, Nonce(a)>> /\ Transact(B(a), "keep caller")
    BY <1>4, FirstSender DEF DeployContract, Deployers
  <2>2. contract' \in Addresses
    BY <2>1, Nonces DEF Addresses, TypeOK
  <2>3. B(a) \in Blocks /\ B(a).act = "deploy" /\ B(a).contract = contract'
    BY <2>2, Numbers, ABlock
  <2>4. chain' = Append(chain, B(a))
    BY <1>4, <2>1 DEF Transact, Goto
  <2>5. Deployed(chain', contract', Len(chain'))
    <3> HIDE DEF B
    <3> QED
      BY <2>3, <2>4, ChainType, DeploysIt
  <2> QED
    BY <1>1, <1>2, <1>3, <1>4, <2>5 DEF Grounded
<1> QED
  BY <1>1, <1>2, <1>3, <1>4 DEF Grounded

\* Transfers begin when the generator is ready, which is after minted is stored.
LEMMA UntouchedStep ==
  TypeOK /\ Place /\ Stages /\ Untouched /\ [Next]_vars => Untouched'
<1> SUFFICES ASSUME TypeOK, Place, Stages, Untouched, [Next]_vars, ~undone', ~minted',
                    NEW k \in Addresses, NEW t \in Tokens
             PROVE  Owner(chain', k, t) \in {NoAccount, Recipient(t)}
  BY DEF Untouched
<1>1. ~undone /\ (Quiet \/ (Mint /\ MintsNext) \/ \E u \in Tokens, a \in Accounts : Transfer(u, a))
  BY StepKinds
<1>2. ~minted
  BY DEF Next, Initialize, Start, RetrieveCaller, DeployContract, StoreCaller, RetrieveTokens,
         Mint, StoreTokens, Transfer, OtherBlock, Fork, Stop, Crash, End, vars, store
<1>3. Owner(chain, k, t) \in {NoAccount, Recipient(t)}
  BY <1>1, <1>2 DEF Untouched
<1>4. CASE Quiet
  BY <1>3, <1>4, QuietChain
<1>5. CASE MintsNext
  <2>1. Owner(chain', k, t) = After(chain, MintBlock(next), k, t, Owner(chain, k, t))
    BY <1>5, MintsOnChain, ChainType, OwnerAfter DEF MintsNext
  <2> QED
    BY <1>3, <1>5, <2>1, MintsOnChain DEF After
<1>6. ASSUME NEW u \in Tokens, NEW a \in Accounts, Transfer(u, a)
      PROVE  FALSE
  BY <1>2, <1>6 DEF Transfer, Place, At
<1> QED
  BY <1>1, <1>4, <1>5, <1>6

\* The tokens behind the loop after a round, but for the one of that round.
LEMMA NextToken ==
  ASSUME NEW n \in 1..Mints, NEW t \in 1..Mints, NEW m, Mints \in Nat,
         m = (IF n < Mints THEN n + 1 ELSE n), t # n, n = Mints \/ t < m
  PROVE  t < n
  OBVIOUS

LEMMA NoneBeforeFirst == \A t \in Tokens : ~(t < 1)
  BY Numbers DEF Tokens

\* What a step that mints nothing adds to the tokens passed: nothing.
LEMMA PassedBefore ==
  ASSUME TypeOK, Place, Stages, [Next]_vars, ~(Mint /\ MintsNext),
         NEW t \in Tokens, Passed(t)', caller'[1] = Senders[1]
  PROVE  Passed(t) /\ caller' = caller
<1> USE DEF store, locals, history, At, Goto, Place, Stages, Passed
<1>1. CASE Start
  BY <1>1 DEF Start
<1>2. CASE RetrieveCaller
  BY <1>2 DEF RetrieveCaller, StoreFails
<1>3. CASE DeployContract
  BY <1>3 DEF DeployContract, Transact
<1>4. CASE StoreCaller
  BY <1>4 DEF StoreCaller, StoreFails
<1>5. CASE RetrieveTokens
  <2>1. ~(t < 1)
    BY NoneBeforeFirst
  <2> QED
    BY <1>5, <2>1 DEF RetrieveTokens, Initialized, StoreFails
<1>6. CASE Mint
  <2>1. pc' = "failed" /\ minted' = minted /\ pc = "mint"
    BY <1>6 DEF Mint, Transact, MintsNext
  <2> QED
    BY <2>1
<1>7. CASE StoreTokens
  BY <1>7 DEF StoreTokens, Initialized, StoreFails
<1>8. ASSUME NEW u \in Tokens, NEW a \in Accounts, Transfer(u, a)
      PROVE  Passed(t) /\ caller' = caller
  BY <1>8 DEF Transfer
<1>9. ASSUME NEW a \in Others, OtherBlock(a)
      PROVE  Passed(t) /\ caller' = caller
  BY <1>9 DEF OtherBlock
<1>10. CASE Fork
  BY <1>10 DEF Fork
<1>11. CASE Stop \/ Crash
  BY <1>11 DEF Stop, Crash, End
<1>12. CASE UNCHANGED vars
  BY <1>12 DEF vars
<1> QED
  BY <1>1, <1>2, <1>3, <1>4, <1>5, <1>6, <1>7, <1>8, <1>9, <1>10, <1>11, <1>12
     DEF Next, Initialize

\* A token that has been minted keeps an owner.
LEMMA PresentStep ==
  TypeOK /\ Place /\ Stages /\ Grounded /\ Present /\ [Next]_vars => Present'
<1> SUFFICES ASSUME TypeOK, Place, Stages, Grounded, Present, [Next]_vars, ~undone',
                    caller'[1] = Senders[1], NEW t \in Tokens, Passed(t)'
             PROVE  Owner(chain', caller', t) # NoAccount
  BY DEF Present
<1>1. ~undone /\ (Quiet \/ (Mint /\ MintsNext) \/ \E u \in Tokens, a \in Accounts : Transfer(u, a))
  BY StepKinds
<1>2. CASE ~(Mint /\ MintsNext)
  <2>1. Passed(t) /\ caller' = caller
    BY <1>2, PassedBefore
  <2>2. Owner(chain, caller, t) # NoAccount
    BY <1>1, <2>1 DEF Present
  <2>3. CASE Quiet
    BY <2>1, <2>2, <2>3, QuietChain
  <2>4. ASSUME NEW u \in Tokens, NEW a \in Accounts, Transfer(u, a)
        PROVE  Owner(chain', caller', t) # NoAccount
    <3>1. CASE UNCHANGED chain
      BY <2>1, <2>2, <3>1
    <3>2. ASSUME NEW b \in Blocks, b.to = a, chain' = Append(chain, b)
          PROVE  Owner(chain', caller', t) # NoAccount
      BY <2>1, <2>2, <3>2, ChainType, StaysOwned
    <3> QED
      BY <2>4, <3>1, <3>2, MovesOnChain
  <2> QED
    BY <1>1, <1>2, <2>3, <2>4
<1>3. CASE Mint /\ MintsNext
  <2>1. ~undone /\ ~undone' /\ caller' = caller /\ ~minted'
    BY <1>1, <1>3 DEF Place, Mint, At, store
  <2>2. Owner(chain', caller, t) = After(chain, MintBlock(next), caller, t, Owner(chain, caller, t))
    BY <1>3, MintsOnChain, ChainType, OwnerAfter DEF MintsNext
  <2>3. CASE t = next
    <3>1. Deployed(chain, caller, Len(chain))
      BY <1>1, <1>3, MintsOnChain DEF Grounded, Stages
    <3>2. Recipient(next) # NoAccount
      BY <1>3, MintsOnChain, TokenAssumption
    <3>3. CASE Owner(chain, caller, t) = NoAccount
      BY <1>3, <2>1, <2>2, <2>3, <3>1, <3>2, <3>3, MintsOnChain DEF After
    <3>4. CASE Owner(chain, caller, t) # NoAccount
      BY <1>3, <2>1, <2>2, <3>2, <3>4, MintsOnChain DEF After
    <3> QED
      BY <3>3, <3>4
  <2>4. CASE t # next
    <3>1. t < next
      <4>1. next \in 1..Mints /\ t \in 1..Mints /\ Mints \in Nat
        BY Numbers, TokenNumber DEF TypeOK
      <4>2. next = Mints \/ t < next'
        <5>1. pc' = "keep tokens" \/ (pc' = "mint" /\ t < next')
          BY <2>1 DEF Passed
        <5>2. pc' = (IF next = Mints THEN "keep tokens" ELSE "mint") \/ pc' = "failed"
          BY <1>3 DEF Mint, Transact, Goto
        <5> QED
          BY <5>1, <5>2
      <4> QED
        BY <1>3, <2>4, <4>1, <4>2, NextToken DEF MintsNext
    <3>2. Owner(chain, caller, t) # NoAccount
      BY <1>1, <1>3, <2>1, <3>1, MintsOnChain DEF Present, Passed
    <3> QED
      BY <1>3, <2>1, <2>2, <2>4, <3>2, MintsOnChain DEF After
  <2> QED
    BY <2>3, <2>4
<1> QED
  BY <1>2, <1>3

\* A transfer changes the map in the same way as the contract.
LEMMA CurrentStep ==
  TypeOK /\ Place /\ Stages /\ Untouched /\ Present /\ Current /\ [Next]_vars => Current'
<1> SUFFICES ASSUME TypeOK, Place, Stages, Untouched, Present, Current, [Next]_vars,
                    ~undone', fresh', caller'[1] = Senders[1], NEW t \in Tokens
             PROVE  /\ pc' \in Initializing => mapping'[t] = Owner(chain', caller', t)
                    /\ pc' = "ready" => owners'[t] = Owner(chain', caller', t)
  BY DEF Current
<1>1. ~undone /\ (Quiet \/ (Mint /\ MintsNext) \/ \E u \in Tokens, a \in Accounts : Transfer(u, a))
  BY StepKinds
<1> DEFINE Goal == /\ pc' \in Initializing => mapping'[t] = Owner(chain', caller', t)
                   /\ pc' = "ready" => owners'[t] = Owner(chain', caller', t)
<1>a. fresh /\ caller' = caller =>
        /\ pc \in Initializing => mapping[t] = Owner(chain, caller, t)
        /\ pc = "ready" => owners[t] = Owner(chain, caller, t)
  BY <1>1 DEF Current
<1>b. Quiet /\ caller' = caller => Owner(chain', caller', t) = Owner(chain, caller, t)
  BY QuietChain
<1> USE DEF store, locals, history, At, Goto, Initializing
<1>2. CASE Start
  BY <1>2 DEF Start, Stages
<1>3. CASE RetrieveCaller
  BY <1>3, <1>a DEF RetrieveCaller, Stages, StoreFails
<1>4. CASE DeployContract
  BY <1>4 DEF DeployContract, Stages
<1>5. CASE StoreCaller
  BY <1>5 DEF StoreCaller, Stages
<1>6. CASE RetrieveTokens
  <2>1. fresh /\ minted /\ caller' = caller /\ mapping' = mapping /\ chain' = chain /\ pc = "tokens"
    BY <1>6 DEF RetrieveTokens, Stages
  <2>2. owners' = mapping \/ pc' = "failed"
    BY <1>6, <2>1 DEF RetrieveTokens, StoreFails
  <2> QED
    BY <2>1, <2>2, <1>a
<1>7. CASE Mint
  BY <1>7 DEF Mint, Stages, Place
<1>8. CASE StoreTokens
  <2>1. ~minted /\ pc = "keep tokens" /\ chain' = chain /\ caller' = caller
    BY <1>8 DEF StoreTokens, Place
  <2>2. fresh = FALSE
    BY <2>1 DEF Stages, TypeOK
  <2>3. caller \in Addresses
    BY <2>1 DEF TypeOK, Stages
  <2>4. Owner(chain, caller, t) = Recipient(t)
    <3>1. Owner(chain, caller, t) \in {NoAccount, Recipient(t)}
      BY <1>1, <2>1, <2>3 DEF Untouched
    <3>2. Owner(chain, caller, t) # NoAccount
      BY <1>1, <2>1 DEF Present, Passed
    <3> QED
      BY <3>1, <3>2
  <2>5. mapping' = [u \in Tokens |-> Recipient(u)] /\ owners' = mapping'
    BY <1>8, <2>2 DEF StoreTokens
  <2> QED
    BY <2>1, <2>4, <2>5
<1>9. ASSUME NEW u \in Tokens, NEW a \in Accounts, Transfer(u, a)
      PROVE  Goal
  <2>1. pc = "ready" /\ fresh /\ caller' = caller /\ owners' = [owners EXCEPT ![u] = a]
    BY <1>9 DEF Transfer
  <2>2. pc' = "ready" \/ pc' = "failed"
    BY <1>9, <2>1 DEF Transfer
  <2>3. CASE pc' = "ready"
    <3>1. PICK b \in Blocks :
            /\ b.act = "move" /\ b.by = owners[u] /\ b.contract = caller
            /\ b.token = u /\ b.to = a
            /\ chain' = Append(chain, b)
      BY <1>9, <2>3, MovesOnChain
    <3>2. Owner(chain', caller, t) = After(chain, b, caller, t, Owner(chain, caller, t))
      BY <3>1, ChainType, OwnerAfter
    <3>3. owners[t] = Owner(chain, caller, t)
      BY <2>1, <1>a
    <3>4. owners' [t] = IF t = u THEN a ELSE owners[t]
      BY <2>1 DEF TypeOK, Owners
    <3> QED
      BY <2>1, <2>3, <3>1, <3>2, <3>3, <3>4 DEF After
  <2>4. CASE pc' = "failed"
    BY <2>4
  <2> QED
    BY <2>2, <2>3, <2>4
<1>10. ASSUME NEW a \in Others, OtherBlock(a)
      PROVE  Goal
  <2>1. /\ fresh /\ caller' = caller /\ pc' = pc /\ mapping' = mapping /\ owners' = owners
        /\ chain' = Append(chain, [Other EXCEPT !.by = a])
    BY <1>10 DEF OtherBlock
  <2>2. [Other EXCEPT !.by = a] \in Blocks
    BY TokenAssumption, OthersBlock
  <2>3. [Other EXCEPT !.by = a].act \notin {"mint", "move"}
    BY DEF Other
  <2>4. Quiet
    BY <2>1, <2>2, <2>3 DEF Quiet
  <2> QED
    BY <2>1, <2>4, <1>a, <1>b
<1>11. CASE Fork
  BY <1>11 DEF Fork
<1>12. CASE Stop \/ Crash
  BY <1>12 DEF Stop, Crash, End
<1>13. CASE UNCHANGED vars
  BY <1>13, <1>a, <1>b DEF vars
<1> QED
  BY <1>2, <1>3, <1>4, <1>5, <1>6, <1>7, <1>8, <1>9, <1>10, <1>11, <1>12, <1>13
     DEF Next, Initialize

--------------------------------------------------------------------------------
(***************************************************************************)
(* A contract that another account than senders[0] deployed.               *)
(***************************************************************************)

\* Only senders[0] mints, and tokens are moved only by accounts.
Proper(b) ==
  /\ b.act = "mint" => b.by = Senders[1]
  /\ b.act = "move" => b.by \in Accounts

AllProper(c) == \A i \in 1..Len(c) : Proper(c[i])

\* The generator knows an owner for each token.
KnownOwners ==
  /\ minted => \A t \in Tokens : mapping[t] \in Accounts
  /\ pc = "ready" => \A t \in Tokens : owners[t] \in Accounts

LEMMA ProperAppend ==
  ASSUME NEW c \in Seq(Blocks), NEW b \in Blocks, AllProper(c), Proper(b)
  PROVE  AllProper(Append(c, b))
<1>1. /\ Len(Append(c, b)) = Len(c) + 1 /\ Len(c) \in Nat
      /\ \A i \in 1..Len(c) : Append(c, b)[i] = c[i]
      /\ Append(c, b)[Len(c) + 1] = b
  BY AppendProperties
<1>2. \A i \in 1..(Len(c) + 1) : i \in 1..Len(c) \/ i = Len(c) + 1
  BY <1>1
<1> HIDE DEF Proper
<1> QED
  BY <1>1, <1>2 DEF AllProper

LEMMA ProperCut ==
  ASSUME NEW c \in Seq(Blocks), NEW n \in 0..Len(c), AllProper(c)
  PROVE  AllProper(SubSeq(c, 1, n)) /\ SubSeq(c, 1, n) \in Seq(Blocks)
<1>1. /\ SubSeq(c, 1, n) \in Seq(Blocks) /\ Len(SubSeq(c, 1, n)) = n
      /\ \A i \in 1..n : SubSeq(c, 1, n)[i] = c[i]
  BY Shorter
<1>2. \A i \in 1..n : i \in 1..Len(c)
  OBVIOUS
<1> QED
  BY <1>1, <1>2 DEF AllProper

\* On such a chain nobody ever owns a token of a contract of another account.
LEMMA NothingForeign ==
  ASSUME NEW c \in Seq(Blocks), AllProper(c), NEW k, k[1] # Senders[1], NEW t
  PROVE  Owner(c, k, t) = NoAccount
<1> DEFINE n == Len(c)
<1>1. n \in Nat
  OBVIOUS
<1>2. PICK f : IsHistory(c, k, t, f) /\ Owner(c, k, t) = f[n]
  BY OwnerHistory
<1> DEFINE T == {h \in 0..n : f[h] = NoAccount}
<1>3. 0 \in T
  BY <1>1, <1>2 DEF IsHistory
<1>4. ASSUME NEW h \in 0..(n - 1), h \in T
      PROVE  h + 1 \in T
  <2>1. h + 1 \in 1..n /\ (h + 1) - 1 = h /\ h + 1 \in 0..n
    BY <1>1
  <2>2. f[h + 1] = OwnerAt(c, k, t, h + 1, f[h]) /\ f[h] = NoAccount
    BY <1>2, <1>4, <2>1 DEF IsHistory
  <2>3. Proper(c[h + 1])
    BY <2>1 DEF AllProper
  <2>4. OwnerAt(c, k, t, h + 1, f[h]) = f[h]
    BY <2>2, <2>3, TokenAssumption DEF OwnerAt, Proper
  <2> QED
    BY <2>1, <2>2, <2>4
<1>5. \A h \in 0..n : h \in T
  <2> HIDE DEF T, n
  <2> QED
    BY <1>1, <1>3, <1>4, Induct
<1> QED
  BY <1>1, <1>2, <1>5

\* What a step does to the chain: one block more, or some blocks less with or
\* without a replacement.
ProperStep ==
  \/ UNCHANGED chain
  \/ \E b \in Blocks : Proper(b) /\ chain' = Append(chain, b)
  \/ \E n \in 0..Len(chain) : \/ chain' = SubSeq(chain, 1, n)
                              \/ chain' = Append(SubSeq(chain, 1, n), Other)

LEMMA ProperSteps ==
  ASSUME TypeOK, Stages, KnownOwners, [Next]_vars
  PROVE  ProperStep
<1> USE DEF store, locals, history, At, Goto
<1>1. CASE Start \/ RetrieveCaller \/ StoreCaller \/ RetrieveTokens \/ StoreTokens \/ Stop
  BY <1>1 DEF Start, RetrieveCaller, StoreCaller, RetrieveTokens, StoreTokens, Stop, ProperStep
<1>2. CASE DeployContract
  <2>1. PICK a \in Accounts :
          /\ contract' = <<a, Nonce(a)>>
          /\ Transact([act |-> "deploy", by |-> a, contract |-> contract', token |-> 0,
                       to |-> NoAccount],
                      "keep caller")
    BY <1>2, FirstSender DEF DeployContract, Deployers
  <2> DEFINE b == [act |-> "deploy", by |-> a, contract |-> contract', token |-> 0,
                   to |-> NoAccount]
  <2>2. contract' \in Addresses
    BY <2>1, Nonces DEF Addresses, TypeOK
  <2>3. b \in Blocks /\ b.act \notin {"mint", "move"}
    BY <2>2, Numbers, ABlock
  <2>4. chain' = chain \/ chain' = Append(chain, b)
    BY <2>1 DEF Transact
  <2> HIDE DEF b
  <2> QED
    BY <2>3, <2>4 DEF ProperStep, Proper
<1>3. CASE Mint
  <2>1. chain' = chain \/ MintsNext
    BY <1>3 DEF Mint, Transact, MintsNext
  <2>2. CASE MintsNext
    <3>1. MintBlock(next) \in Blocks /\ Proper(MintBlock(next))
      BY <2>2, MintsOnChain DEF Proper
    <3> QED
      BY <2>2, <3>1 DEF MintsNext, ProperStep
  <2> QED
    BY <2>1, <2>2 DEF ProperStep
<1>4. ASSUME NEW t \in Tokens, NEW a \in Accounts, Transfer(t, a)
      PROVE  ProperStep
  <2>1. pc = "ready"
    BY <1>4, MovesOnChain
  <2>2. owners[t] \in Accounts
    BY <2>1 DEF KnownOwners
  <2>3. UNCHANGED chain \/ \E b \in Blocks : /\ b.act = "move" /\ b.by = owners[t]
                                             /\ chain' = Append(chain, b)
    BY <1>4, MovesOnChain
  <2> QED
    BY <2>2, <2>3 DEF ProperStep, Proper
<1>5. ASSUME NEW a \in Others, OtherBlock(a)
      PROVE  ProperStep
  <2> DEFINE b == [Other EXCEPT !.by = a]
  <2>1. b \in Blocks
    BY TokenAssumption, OthersBlock
  <2>2. b.act = "other"
    BY DEF Other
  <2>3. chain' = Append(chain, b)
    BY <1>5 DEF OtherBlock
  <2> HIDE DEF b
  <2> QED
    BY <2>1, <2>2, <2>3 DEF ProperStep, Proper
<1>6. CASE Fork
  <2>1. PICK n \in 1..(Len(chain) - 1) :
          chain' = SubSeq(chain, 1, n) \/ chain' = Append(SubSeq(chain, 1, n), Other)
    BY <1>6 DEF Fork
  <2>2. n \in 0..Len(chain)
    BY ChainType
  <2> QED
    BY <2>1, <2>2 DEF ProperStep
<1>7. CASE Crash
  BY <1>7 DEF Crash, ProperStep
<1>8. CASE UNCHANGED vars
  BY <1>8 DEF vars, ProperStep
<1> QED
  BY <1>1, <1>2, <1>3, <1>4, <1>5, <1>6, <1>7, <1>8 DEF Next, Initialize

LEMMA AllProperStep ==
  ASSUME TypeOK, Stages, KnownOwners, AllProper(chain), [Next]_vars
  PROVE  AllProper(chain')
<1>1. ProperStep /\ chain \in Seq(Blocks)
  BY ProperSteps, ChainType
<1>2. CASE UNCHANGED chain
  BY <1>2
<1>3. ASSUME NEW b \in Blocks, Proper(b), chain' = Append(chain, b)
      PROVE  AllProper(chain')
  BY <1>1, <1>3, ProperAppend
<1>4. ASSUME NEW n \in 0..Len(chain),
             chain' = SubSeq(chain, 1, n) \/ chain' = Append(SubSeq(chain, 1, n), Other)
      PROVE  AllProper(chain')
  <2>1. AllProper(SubSeq(chain, 1, n)) /\ SubSeq(chain, 1, n) \in Seq(Blocks)
    BY <1>1, ProperCut
  <2>2. Other \in Blocks /\ Proper(Other)
    BY OtherIsBlock DEF Other, Proper
  <2>3. AllProper(Append(SubSeq(chain, 1, n), Other))
    BY <2>1, <2>2, ProperAppend
  <2> QED
    BY <1>4, <2>1, <2>3
<1> QED
  BY <1>1, <1>2, <1>3, <1>4 DEF ProperStep

LEMMA KnownOwnersStep == TypeOK /\ Place /\ KnownOwners /\ [Next]_vars => KnownOwners'
<1> SUFFICES ASSUME TypeOK, Place, KnownOwners, [Next]_vars
             PROVE  KnownOwners'
  OBVIOUS
<1> USE DEF store, locals, history, At, Goto, KnownOwners
<1>1. CASE Start \/ RetrieveCaller \/ StoreCaller
  <2>1. UNCHANGED <<minted, mapping>> /\ pc' # "ready"
    <3>1. CASE Start
      BY <3>1 DEF Start
    <3>2. CASE RetrieveCaller
      BY <3>2 DEF RetrieveCaller, StoreFails
    <3>3. CASE StoreCaller
      BY <3>3 DEF StoreCaller, StoreFails
    <3> QED
      BY <1>1, <3>1, <3>2, <3>3
  <2> QED
    BY <2>1
<1>2. CASE DeployContract
  BY <1>2 DEF DeployContract, Transact
<1>3. CASE RetrieveTokens
  BY <1>3 DEF RetrieveTokens, StoreFails, Initialized
<1>4. CASE Mint
  BY <1>4 DEF Mint, Transact
<1>5. CASE StoreTokens
  <2>1. CASE minted' = TRUE /\ mapping' = [t \in Tokens |-> Recipient(t)] /\ owners' = mapping'
    BY <2>1, Recipients
  <2>2. CASE UNCHANGED <<minted, mapping>> /\ pc' = "failed"
    BY <2>2
  <2> QED
    BY <1>5, <2>1, <2>2 DEF StoreTokens, StoreFails
<1>6. ASSUME NEW t \in Tokens, NEW a \in Accounts, Transfer(t, a)
      PROVE  KnownOwners'
  <2>1. pc = "ready" /\ owners' = [owners EXCEPT ![t] = a] /\ UNCHANGED store
    BY <1>6 DEF Transfer
  <2>2. owners \in [Tokens -> Accounts \cup {NoAccount}]
    BY DEF TypeOK, Owners
  <2>3. \A u \in Tokens : owners'[u] \in Accounts
    BY <2>1, <2>2
  <2> QED
    BY <2>1, <2>3
<1>7. ASSUME NEW a \in Others, OtherBlock(a)
      PROVE  KnownOwners'
  BY <1>7 DEF OtherBlock
<1>8. CASE Fork
  BY <1>8 DEF Fork
<1>9. CASE Stop \/ Crash
  BY <1>9 DEF Stop, Crash, End
<1>10. CASE UNCHANGED vars
  BY <1>10 DEF vars
<1> QED
  BY <1>1, <1>2, <1>3, <1>4, <1>5, <1>6, <1>7, <1>8, <1>9, <1>10 DEF Next, Initialize

--------------------------------------------------------------------------------
(***************************************************************************)
(* The theorems.                                                           *)
(***************************************************************************)

\* The inductive invariant: Counted for MintedOnce, the others for the owners.
IInv ==
  /\ TypeOK /\ Place /\ Counted
  /\ Stages /\ Grounded /\ Untouched /\ Present /\ Current

LEMMA InitIInv == Init => IInv
<1> SUFFICES ASSUME Init
             PROVE  IInv
  OBVIOUS
<1>1. TypeOK
  <2>1. <<>> \in Seq(Blocks) /\ Len(<<>>) = 0
    BY EmptySeq
  <2>2. chain \in Seq(Blocks) /\ Len(chain) <= MaxHeight
    BY <2>1, Numbers DEF Init
  <2>3. mapping \in Owners /\ owners \in Owners
    BY DEF Init, NoOwners, Owners
  <2>4. broken \in 0..MaxBroken
    BY Numbers DEF Init
  <2> QED
    BY <2>2, <2>3, <2>4, FirstToken DEF Init, TypeOK
<1>2. Place
  BY DEF Init, Place
<1>3. Counted
  <2>1. \A t : MintsIn(chain, t) = {}
    BY DEF Init, MintsIn
  <2>2. \A t : Cardinality(MintsIn(chain, t)) = 0
    BY <2>1, FS_EmptySet
  <2> QED
    BY <2>2 DEF Init, Counted, Allowed
<1>4. Stages
  BY DEF Init, Stages
<1>5. Grounded
  BY DEF Init, Grounded
<1>6. Untouched
  BY NoOwnerYet DEF Init, Untouched
<1>7. Present
  <2>1. NoContract[1] # Senders[1]
    BY FirstSender, TokenAssumption DEF NoContract
  <2> QED
    BY <2>1 DEF Init, Present
<1>8. Current
  BY DEF Init, Current
<1> QED
  BY <1>1, <1>2, <1>3, <1>4, <1>5, <1>6, <1>7, <1>8 DEF IInv

LEMMA Invariance == Spec => []IInv
<1>1. IInv /\ [Next]_vars => IInv'
  BY TypeStep, PlaceStep, CountedStep, StagesStep, GroundedStep, UntouchedStep, PresentStep,
     CurrentStep DEF IInv
<1> QED
  BY InitIInv, <1>1, PTL DEF Spec

\* Whatever fails, forks or dies, an initialisation stays on its path, its loop
\* over the tokens within its bounds, the chain below its limit and what is stored
\* of the kind that is retrieved.
THEOREM TypeCorrect == Spec => []TypeOK
<1>1. IInv => TypeOK
  BY DEF IInv
<1> QED
  BY Invariance, <1>1, PTL

\* For any senders and tokens, and as often as processes initialise the generator:
\* a token is minted a second time only because an earlier Initialize did not come
\* to its end, once for each of those.
THEOREM MintsOnce == Spec => []MintedOnce
<1>1. IInv => MintedOnce
  <2> SUFFICES ASSUME IInv, broken < MaxBroken, NEW t \in Tokens
               PROVE  Cardinality(MintsIn(chain, t)) <= 1 + broken
    BY DEF MintedOnce, MintsIn
  <2>1. TypeOK /\ Cardinality(MintsIn(chain, t)) <= Allowed(t)
    BY DEF IInv, Counted
  <2>2. Allowed(t) \in {broken, broken + 1} /\ broken \in Nat
    BY <2>1, AllowedType, BrokenType
  <2>3. Cardinality(MintsIn(chain, t)) \in Nat
    BY <2>1, MintsFinite DEF TypeOK
  <2> QED
    BY <2>1, <2>2, <2>3
<1> QED
  BY Invariance, <1>1, PTL

\* For any senders, tokens and failures, as long as no fork and no crash took a
\* block away: a generator that is ready has all its tokens on the chain, whichever
\* process minted them, when senders[0] owns the contract.
THEOREM ReadyTokensExist == Spec => []ReadyMeansMinted
<1>1. IInv => ReadyMeansMinted
  BY DEF IInv, ReadyMeansMinted, Place, Stages, Present, Passed, OwnerOf, At
<1> QED
  BY Invariance, <1>1, PTL

\* Under the same conditions the ERC721 generator of the process that minted keeps
\* a mapping that agrees with ownerOf, through any number of its transfers and of
\* blocks of others: it never transfers for somebody who does not own the token.
THEOREM MappingAgrees == Spec => []MappingIsCurrent
<1>1. IInv => MappingIsCurrent
  BY DEF IInv, MappingIsCurrent, Stages, Current, OwnerOf, At
<1> QED
  BY Invariance, <1>1, PTL

\* No token ever exists in a contract that another account than senders[0] has
\* deployed, whatever forks, crashes and restarts there are: senders[0] mints, only
\* the deployer may, and nobody transfers what nobody owns.  So the run token_mint
\* is no accident of its small instance: an ERC721 generator whose deployer was
\* picked otherwise is ready and has nothing to transfer.
THEOREM ForeignContractEmpty ==
  Spec => [](\A k \in Addresses, t \in Tokens : k[1] # Senders[1] => OwnerOf(k, t) = NoAccount)
<1>1. Init => AllProper(chain) /\ KnownOwners
  <2>1. Len(<< >>) = 0
    BY EmptySeq
  <2> QED
    BY <2>1 DEF Init, AllProper, KnownOwners
<1>2. IInv /\ AllProper(chain) /\ KnownOwners /\ [Next]_vars => AllProper(chain)' /\ KnownOwners'
  <2> SUFFICES ASSUME IInv, AllProper(chain), KnownOwners, [Next]_vars
               PROVE  AllProper(chain)' /\ KnownOwners'
    OBVIOUS
  <2>1. AllProper(chain')
    BY AllProperStep DEF IInv
  <2>2. AllProper(chain)'
    BY <2>1 DEF AllProper, Proper
  <2>3. KnownOwners'
    BY KnownOwnersStep DEF IInv
  <2> QED
    BY <2>2, <2>3
<1>3. IInv /\ AllProper(chain) =>
        \A k \in Addresses, t \in Tokens : k[1] # Senders[1] => OwnerOf(k, t) = NoAccount
  BY ChainType, NothingForeign DEF IInv, OwnerOf
<1> QED
  BY <1>1, <1>2, <1>3, Invariance, PTL DEF Spec

================================================================================
