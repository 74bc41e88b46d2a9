------------------------------- MODULE TokenInit -------------------------------
(***************************************************************************)
(* The token generators of the command line: Initialize deploys a contract *)
(* and mints, and keeps what it has done in the state store, so that the   *)
(* next Initialize goes on from there; GenerateTransaction transfers what  *)
(* was minted.  One generator, on a server that stops, dies and forks at   *)
(* any time, and whose chain others extend too.                            *)
(*                                                                         *)
(* "fungible" stands for the ERC20 and the ERC1155 generator, which store  *)
(* that tokens are minted; "unique" for the ERC721 one, which stores who   *)
(* owns which.  A block is its transaction, one at most.                   *)
(***************************************************************************)
EXTENDS Integers, FiniteSets, Sequences, SequencesExt

CONSTANTS
  Kinds,      \* the generators looked at
  Senders,    \* g.senders, which are also the recipients
  NoAccount,  \* no owner
  Mints,      \* how many mint transactions Initialize sends
  MaxHeight,  \* config.MaxBlockNum
  MaxBroken,  \* bound: the count of broken initialisations stays there
  Others,     \* bound: who sends what is in the blocks of others
  Env         \* what the environment may do, a subset of EnvEvents

EnvEvents ==
  { "refuses",     \* GenerateBlocks fails without a block
    "late",        \* GenerateBlocks fails although the block is on the chain
    "storeFails",  \* RetrieveValue or StoreValue fails
    "stop",        \* the server is stopped and releases everything
    "crash",       \* the process dies
    "fork" }       \* the main loop simulates forks

Accounts == Range(Senders)
Tokens   == 1..Mints

\* An address is made from the account that deploys and its nonce.
Addresses == Accounts \X (0..MaxHeight)
NoContract == <<NoAccount, 0>>

ASSUME TokenAssumption ==
  /\ Kinds \subseteq {"fungible", "unique"}
  /\ Senders \in Seq(Accounts) /\ Senders # << >>
  /\ NoAccount \notin Accounts
  /\ Mints \in Nat \ {0}
  /\ MaxHeight \in Nat
  /\ MaxBroken \in Nat
  /\ Others \subseteq Accounts \cup {NoAccount}
  /\ Env \subseteq EnvEvents

Blocks == [act : {"other", "deploy", "mint", "move"}, by : Accounts \cup {NoAccount},
           contract : Addresses \cup {NoContract}, token : 0..Mints,
           to : Accounts \cup {NoAccount}]

Owners   == [Tokens -> Accounts \cup {NoAccount}]
NoOwners == [t \in Tokens |-> NoAccount]

VARIABLES
  kind,      \* which generator this is
  chain,     \* the canonical chain
  caller,    \* stored: contractCaller, or NoContract
  minted,    \* stored: tokensMinted, or tokenMapping
  mapping,   \* stored: the contents of tokenMapping
  pc,        \* where the generator is
  again,     \* this is the second Initialize of the process
  contract,  \* g.erc721Caller and the like
  next,      \* the loop over what is to be minted
  owners,    \* g.tokenMapping
  broken,    \* history: initialisations that did not come to their end
  undone,    \* history: a fork or a crash has taken blocks away
  fresh      \* history: this process has minted

store   == <<caller, minted, mapping>>
locals  == <<again, contract, next, owners>>
history == <<broken, undone, fresh>>
vars == <<kind, chain, store, pc, locals, history>>

Initializing == {"caller", "deploy", "keep caller", "tokens", "mint", "keep tokens"}

TypeOK ==
  /\ kind \in Kinds
  /\ chain \in Seq(Blocks) /\ Len(chain) <= MaxHeight
  /\ caller \in Addresses \cup {NoContract}
  /\ minted \in BOOLEAN
  /\ mapping \in Owners
  /\ pc \in Initializing \cup {"down", "ready", "failed"}
  /\ again \in BOOLEAN
  /\ contract \in Addresses \cup {NoContract}
  /\ next \in Tokens
  /\ owners \in Owners
  /\ broken \in 0..MaxBroken
  /\ undone \in BOOLEAN
  /\ fresh \in BOOLEAN

Init ==
  /\ kind \in Kinds
  /\ chain = << >>
  /\ caller = NoContract
  /\ minted = FALSE
  /\ mapping = NoOwners
  /\ pc = "down"
  /\ again = FALSE
  /\ contract = NoContract
  /\ next = 1
  /\ owners = NoOwners
  /\ broken = 0
  /\ undone = FALSE
  /\ fresh = FALSE

At(label) == pc = label
Goto(label) == pc' = label

--------------------------------------------------------------------------------
(***************************************************************************)
(* The chain, and the contracts on it.                                     *)
(***************************************************************************)

Other == [act |-> "other", by |-> NoAccount, contract |-> NoContract, token |-> 0,
          to |-> NoAccount]

\* gen.TxNonce(a).
Nonce(a) == Cardinality({i \in DOMAIN chain : chain[i].by = a})

\* Contract k is among the first blocks of c, up to height.
Deployed(c, k, height) ==
  \E i \in 1..height : c[i].act = "deploy" /\ c[i].contract = k

\* The ERC721 contract's ownerOf on chain c, computed block by block: only the
\* owner of the contract, who deployed it, may mint; a token is minted once and
\* moved by its owner.  For the others it tells which mint transactions had an effect.
Owner(c, k, t) ==
  LET owner[h \in 0..Len(c)] ==
        IF h = 0 THEN NoAccount
        ELSE LET b      == c[h]
                 before == owner[h - 1]
                 mints  == /\ b.act = "mint" /\ b.by = k[1]
                           /\ before = NoAccount /\ Deployed(c, k, h)
                 moves  == b.act = "move" /\ b.by = before
             IN IF b.contract = k /\ b.token = t /\ (mints \/ moves) THEN b.to ELSE before
  IN owner[Len(c)]

OwnerOf(k, t) == Owner(chain, k, t)

\* An initialisation ends before its end.
Break == broken' = IF broken < MaxBroken THEN broken + 1 ELSE broken

\* GenerateBlocks(1, ...) with transaction b, called by Initialize: DeployContract
\* and ContractTransact return its error, and Initialize and its caller give up.
\* The status of the receipt is not looked at by ContractTransact.
Transact(b, label) ==
  \/ /\ Len(chain) < MaxHeight
     /\ chain' = Append(chain, b)
     /\ \/ Goto(label) /\ UNCHANGED broken
        \/ "late" \in Env /\ Goto("failed") /\ Break
  \/ /\ Len(chain) >= MaxHeight \/ "refuses" \in Env
     /\ UNCHANGED chain
     /\ Goto("failed") /\ Break

\* RetrieveValue or StoreValue returns an error, and so does Initialize.
StoreFails == "storeFails" \in Env /\ Goto("failed") /\ Break

--------------------------------------------------------------------------------
(***************************************************************************)
(* Initialize.                                                             *)
(***************************************************************************)

\* The server runs: runMonkey... makes a generator and initialises it.
Start ==
  /\ At("down")
  /\ Goto("caller")
  /\ UNCHANGED <<kind, chain, store, locals, history>>

RetrieveCaller ==
  /\ At("caller")
  /\ \/ caller # NoContract /\ contract' = caller /\ Goto("tokens") /\ UNCHANGED broken
     \/ caller = NoContract /\ Goto("deploy") /\ UNCHANGED <<contract, broken>>
     \/ StoreFails /\ UNCHANGED contract
  /\ UNCHANGED <<kind, chain, store, again, next, owners, undone, fresh>>

\* senders[0] deploys, but for the ERC721 generator, which picks a sender.
Deployers == IF kind = "unique" THEN Accounts ELSE {Senders[1]}

DeployContract ==
  /\ At("deploy")
  /\ \E a \in Deployers :
       /\ contract' = <<a, Nonce(a)>>
       /\ Transact([act |-> "deploy", by |-> a, contract |-> contract', token |-> 0,
                    to |-> NoAccount],
                   "keep caller")
  /\ UNCHANGED <<kind, store, again, next, owners, undone, fresh>>

StoreCaller ==
  /\ At("keep caller")
  /\ \/ caller' = contract /\ Goto("tokens") /\ UNCHANGED broken
     \/ StoreFails /\ UNCHANGED caller
  /\ UNCHANGED <<kind, chain, minted, mapping, locals, undone, fresh>>

\* runMonkey... initialises the generator, and then the operator's Run does.
Initialized ==
  /\ Goto(IF again THEN "ready" ELSE "caller")
  /\ again' = TRUE

\* Mutant: the second Initialize does not look at what the first one stored.
RetrieveTokensOnce ==
  /\ At("tokens")
  /\ \/ minted /\ ~again /\ owners' = mapping /\ Initialized /\ UNCHANGED <<next, broken>>
     \/ (~minted \/ again) /\ next' = 1 /\ Goto("mint") /\ UNCHANGED <<owners, again, broken>>
  /\ UNCHANGED <<kind, chain, store, contract, undone, fresh>>

RetrieveTokens ==
  /\ At("tokens")
  /\ \/ minted /\ owners' = mapping /\ Initialized /\ UNCHANGED <<next, broken>>
     \/ ~minted /\ next' = 1 /\ Goto("mint") /\ UNCHANGED <<owners, again, broken>>
     \/ StoreFails /\ UNCHANGED <<owners, next, again>>
  /\ UNCHANGED <<kind, chain, store, contract, undone, fresh>>

\* Whom the loops over tokens and senders mint token t to.
Recipient(t) == Senders[((t - 1) % Len(Senders)) + 1]

MintBlock(t) ==
  [act |-> "mint", by |-> Senders[1], contract |-> contract, token |-> t,
   to |-> Recipient(t)]

\* Mutant: the loop goes on for one more token.
MintOneMore ==
  /\ At("mint")
  /\ Transact(MintBlock(next), IF next > Mints THEN "keep tokens" ELSE "mint")
  /\ next' = next + 1
  /\ UNCHANGED <<kind, store, again, contract, owners, undone, fresh>>

\* Mutant: the last token is left out.
MintOneLess ==
  /\ At("mint")
  /\ Transact(MintBlock(next), IF next + 1 >= Mints THEN "keep tokens" ELSE "mint")
  /\ next' = IF next < Mints THEN next + 1 ELSE next
  /\ UNCHANGED <<kind, store, again, contract, owners, undone, fresh>>

\* One ContractTransact of the minting loop.
Mint ==
  /\ At("mint")
  /\ Transact(MintBlock(next), IF next = Mints THEN "keep tokens" ELSE "mint")
  /\ next' = IF next < Mints THEN next + 1 ELSE next
  /\ UNCHANGED <<kind, store, again, contract, owners, undone, fresh>>

\* tokensMinted, or the mapping that was built along the loop.
StoreTokens ==
  /\ At("keep tokens")
  /\ \/ /\ minted' = TRUE
        /\ mapping' = [t \in Tokens |-> Recipient(t)]
        /\ owners' = mapping'
        /\ fresh' = TRUE
        /\ Initialized
        /\ UNCHANGED broken
     \/ StoreFails /\ UNCHANGED <<minted, mapping, owners, again, fresh>>
  /\ UNCHANGED <<kind, chain, caller, contract, next, undone>>

--------------------------------------------------------------------------------
(***************************************************************************)
(* Transfers, and what happens around the generator.                       *)
(***************************************************************************)

\* Mutant: the mapping keeps the token where it was.
TransferKept(t, to) ==
  /\ At("ready") /\ kind = "unique"
  /\ Len(chain) < MaxHeight
  /\ chain' = Append(chain, [act |-> "move", by |-> owners[t], contract |-> contract,
                             token |-> t, to |-> to])
  /\ UNCHANGED <<kind, store, pc, locals, history>>

\* GenerateTransaction of the ERC721 generator in an operator's tick: the token
\* is taken from the mapping, which changes before the block is inserted.  When
\* the block is not, the operator stops.
Transfer(t, to) ==
  /\ At("ready") /\ kind = "unique"
  /\ Len(chain) < MaxHeight
  /\ owners' = [owners EXCEPT ![t] = to]
  /\ \/ /\ chain' = Append(chain, [act |-> "move", by |-> owners[t], contract |-> contract,
                                   token |-> t, to |-> to])
        /\ \/ UNCHANGED pc
           \/ "late" \in Env /\ Goto("failed")
     \/ "refuses" \in Env /\ Goto("failed") /\ UNCHANGED chain
  /\ UNCHANGED <<kind, store, again, contract, next, history>>

\* Another goroutine generates a block, which may spend a nonce of ours: all the
\* generators have the same senders.  Also a transfer of a fungible generator,
\* which keeps no account of who owns what.
OtherBlock(a) ==
  /\ ~At("down")
  /\ Len(chain) < MaxHeight
  /\ chain' = Append(chain, [Other EXCEPT !.by = a])
  /\ UNCHANGED <<kind, store, pc, locals, history>>

\* A fork of the main loop: a rewind and, if it is sealed, its replacement.
Fork ==
  /\ "fork" \in Env
  /\ ~At("down")
  /\ \E n \in 1..(Len(chain) - 1) :
       /\ \/ chain' = SubSeq(chain, 1, n)
          \/ chain' = Append(SubSeq(chain, 1, n), Other)
  /\ undone' = TRUE
  /\ UNCHANGED <<kind, store, pc, locals, broken, fresh>>

\* The process ends, and the generator with it.
End ==
  /\ Goto("down")
  /\ again' = FALSE /\ contract' = NoContract /\ next' = 1 /\ owners' = NoOwners
  /\ fresh' = FALSE
  /\ IF pc \in Initializing THEN Break ELSE UNCHANGED broken
  /\ UNCHANGED <<kind, store>>

Stop ==
  /\ "stop" \in Env
  /\ ~At("down")
  /\ End
  /\ UNCHANGED <<chain, undone>>

\* Any suffix of the chain may be lost, also what an earlier clean stop had
\* written: more than can happen.  The state store is written with Sync.
Crash ==
  /\ "crash" \in Env
  /\ ~At("down")
  /\ End
  /\ \E n \in 0..Len(chain) :
       /\ chain' = SubSeq(chain, 1, n)
       /\ undone' = (undone \/ n < Len(chain))

Initialize ==
  \/ RetrieveCaller \/ DeployContract \/ StoreCaller
  \/ RetrieveTokens \/ Mint \/ StoreTokens

Next ==
  \/ Start \/ Initialize
  \/ \E t \in Tokens, a \in Accounts : Transfer(t, a)
  \/ \E a \in Others : OtherBlock(a)
  \/ Fork \/ Stop \/ Crash

Spec == Init /\ [][Next]_vars

--------------------------------------------------------------------------------
(***************************************************************************)
(* Properties that hold.                                                   *)
(***************************************************************************)

\* A generator is ready only when all its tokens are on the chain, also when it
\* was some earlier process that minted them: as long as no block was undone,
\* and the contract belongs to senders[0], who mints.
ReadyMeansMinted ==
  At("ready") /\ ~undone /\ contract[1] = Senders[1] =>
    \A t \in Tokens : OwnerOf(contract, t) # NoAccount

\* However often processes initialise the generator, twice each, a mint is
\* repeated only because an initialisation did not come to its end.
MintedOnce ==
  broken < MaxBroken =>
    \A t \in Tokens :
      Cardinality({i \in DOMAIN chain : chain[i].act = "mint" /\ chain[i].token = t})
        <= 1 + broken

\* The mapping agrees with the contract while the process that minted transfers:
\* no transfer is of a token its sender does not own.
MappingIsCurrent ==
  At("ready") /\ kind = "unique" /\ fresh /\ ~undone /\ contract[1] = Senders[1] =>
    \A t \in Tokens : OwnerOf(contract, t) = owners[t]

--------------------------------------------------------------------------------
(***************************************************************************)
(* What the code says of itself and does not do.                           *)
(***************************************************************************)

\* "Mint tokens for each sender." (operators.go:372): after an Initialize that
\* succeeded, on a chain from which nothing was taken, every token exists.  A
\* sender picked at random deploys the ERC721 contract and senders[0] mints, which
\* only the deployer may; the failed receipts go unnoticed.
MintsForEachSender ==
  At("ready") /\ ~undone => \A t \in Tokens : OwnerOf(contract, t) # NoAccount

================================================================================
