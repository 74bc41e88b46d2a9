------------------------------ MODULE TxSelection ------------------------------
(***************************************************************************)
(* What goes into a block.  An automatic block takes from the pool, per    *)
(* account, what still fits its gas limit; a monkey operator makes its     *)
(* transactions for the block at hand.  Both hand them to geth's AddTx,    *)
(* which panics, and with it the process, when one cannot be applied.      *)
(*                                                                         *)
(* The pool is geth's: it has a view of the chain of its own and brings it *)
(* up to date some time after the chain has changed.                       *)
(***************************************************************************)
EXTENDS Naturals, FiniteSets, SequencesExt

CONSTANTS
  Accounts,    \* accounts that send transactions
  Operators,   \* monkey operators
  PerBlock,    \* their config.TransactionsPerBlock,
  MinPerBlock, \* config.MinTransactionsPerBlock
  MaxPerBlock, \* and config.MaxTransactionsPerBlock
  GasLimit,    \* the gas limit of a block
  Gas,         \* the gas limits of the transactions in the pool
  OpGas,       \* that of an operator's transaction
  OpUsed,      \* what one of them may really use
  Fees,        \* fee caps, and the base fees of blocks
  MaxNonce     \* bound: transactions per account

ASSUME SelectionAssumption ==
  /\ IsFiniteSet(Accounts)
  /\ Operators \cap {"up", "automatic"} = {}
  /\ PerBlock \in [Operators -> Nat \ {0}]
  /\ {MinPerBlock, MaxPerBlock} \subseteq [Operators -> Nat]
  /\ GasLimit \in Nat /\ OpGas \in Nat
  /\ Gas \subseteq 1..GasLimit
  /\ OpUsed \subseteq 1..OpGas
  /\ Fees \subseteq Nat
  /\ MaxNonce \in Nat

VARIABLES
  next,     \* the chain's nonce of each account
  base,     \* the same in the view of the pool
  pending,  \* the pool's transactions of each account, from nonce base on
  baseFee,  \* of the next block
  block,    \* the transactions of the automatic block just made, if it was one
  status    \* "up", or who made the process panic

vars == <<next, base, pending, baseFee, block, status>>

Txs == [from : Accounts, nonce : 0..MaxNonce, gas : Gas, fee : Fees]

TypeOK ==
  /\ next \in [Accounts -> 0..MaxNonce]
  /\ base \in [Accounts -> 0..MaxNonce]
  /\ pending \in [Accounts -> Seq([gas : Gas, fee : Fees])]
  /\ \A a \in Accounts : base[a] + Len(pending[a]) <= MaxNonce
  /\ baseFee \in Fees
  /\ block \in Seq(Txs)
  /\ status \in {"up", "automatic"} \cup Operators

Init ==
  /\ next = [a \in Accounts |-> 0]
  /\ base = [a \in Accounts |-> 0]
  /\ pending = [a \in Accounts |-> <<>>]
  /\ baseFee \in Fees
  /\ block = <<>>
  /\ status = "up"

\* The sums of amounts up to each position.
Sums(amounts) ==
  LET sum[i \in 0..Len(amounts)] == IF i = 0 THEN 0 ELSE sum[i - 1] + amounts[i]
  IN sum

--------------------------------------------------------------------------------
(***************************************************************************)
(* geth.                                                                   *)
(***************************************************************************)

\* A client sends the next transaction in the view of the pool.
Submit(a) ==
  /\ status = "up"
  /\ base[a] + Len(pending[a]) < MaxNonce
  /\ \E gas \in Gas, fee \in Fees :
       pending' = [pending EXCEPT ![a] = Append(@, [gas |-> gas, fee |-> fee])]
  /\ block' = <<>>
  /\ UNCHANGED <<next, base, baseFee, status>>

\* Mutant: what was mined stays in the pool.
ResetKeeps ==
  /\ status = "up"
  /\ base # next
  /\ base' = next
  /\ block' = <<>>
  /\ UNCHANGED <<next, pending, baseFee, status>>

\* The pool learns of the chain's head: mined and replaced transactions go.  When
\* the head went back, those behind it wait, and may be pending again later.
Reset ==
  /\ status = "up"
  /\ base # next
  /\ base' = next
  /\ pending' = [a \in Accounts |->
                  IF next[a] < base[a] THEN <<>>
                  ELSE SubSeq(pending[a], next[a] - base[a] + 1, Len(pending[a]))]
  /\ block' = <<>>
  /\ UNCHANGED <<next, baseFee, status>>

\* A simulated fork, refused while anything is pending.
Fork ==
  /\ status = "up"
  /\ \A a \in Accounts : pending[a] = <<>>
  /\ next' \in {n \in [Accounts -> 0..MaxNonce] : \A a \in Accounts : n[a] <= next[a]}
  /\ next' # next
  /\ baseFee' \in Fees
  /\ block' = <<>>
  /\ UNCHANGED <<base, pending, status>>

\* AddTx on txs one after the other, when the i-th really uses used[i].
Applies(txs, used) ==
  LET spent == Sums(used)
  IN \A i \in DOMAIN txs :
       /\ txs[i].nonce = next[txs[i].from]
                         + Cardinality({j \in 1..(i - 1) : txs[j].from = txs[i].from})
       /\ txs[i].fee >= baseFee
       /\ spent[i - 1] + txs[i].gas <= GasLimit

Sent(txs, a) == Cardinality({i \in DOMAIN txs : txs[i].from = a})

\* core.GenerateChain and InsertChain: a block on the chain, or a panic.
Generate(txs, used, who) ==
  \/ /\ Applies(txs, used)
     /\ \A a \in Accounts : next[a] + Sent(txs, a) <= MaxNonce
     /\ next' = [a \in Accounts |-> next[a] + Sent(txs, a)]
     /\ baseFee' \in Fees
     /\ UNCHANGED status
  \/ /\ ~Applies(txs, used)
     /\ status' = who
     /\ UNCHANGED <<next, baseFee>>

--------------------------------------------------------------------------------
(***************************************************************************)
(* An automatic block.                                                     *)
(***************************************************************************)

\* The transactions of account a as txPool.Pending returns them.
Batch(a) ==
  [i \in DOMAIN pending[a] |->
    [from |-> a, nonce |-> base[a] + i - 1,
     gas |-> pending[a][i].gas, fee |-> pending[a][i].fee]]

\* Mutant: the bound is strict.
TakeStrictly(chosen, tx) ==
  IF chosen.gas + tx.gas < GasLimit
    THEN [txs |-> Append(chosen.txs, tx), gas |-> chosen.gas + tx.gas]
    ELSE chosen

\* Mutant: the gas is not added up.
TakeAny(chosen, tx) ==
  IF chosen.gas + tx.gas <= GasLimit
    THEN [chosen EXCEPT !.txs = Append(@, tx)]
    ELSE chosen

\* What does not fit is skipped, the next one is still looked at.
Take(chosen, tx) ==
  IF chosen.gas + tx.gas <= GasLimit
    THEN [txs |-> Append(chosen.txs, tx), gas |-> chosen.gas + tx.gas]
    ELSE chosen

\* Accounts come in any order: pending is a Go map.
Queue(order) == FlattenSeq([i \in DOMAIN order |-> Batch(order[i])])

\* The transactions taken from a queue, one after the other.
Taken(queue) ==
  LET chosen[i \in 0..Len(queue)] ==
        IF i = 0 THEN [txs |-> <<>>, gas |-> 0] ELSE Take(chosen[i - 1], queue[i])
  IN chosen[Len(queue)].txs

Select(order) == Taken(Queue(order))

\* maybeGenerateBlock.  At worst the transactions use all the gas they may.
AutomaticBlock(order) ==
  /\ status = "up"
  /\ \E txs \in {Select(order)} :
        /\ block' = txs
        /\ Generate(txs, [i \in DOMAIN txs |-> txs[i].gas], "automatic")
  /\ UNCHANGED <<base, pending>>

--------------------------------------------------------------------------------
(***************************************************************************)
(* A block of an operator.                                                 *)
(***************************************************************************)

Counts(o) ==
  IF MinPerBlock[o] > 0 /\ MaxPerBlock[o] > 0
    THEN MinPerBlock[o]..MaxPerBlock[o]
    ELSE {PerBlock[o]}

\* PickRandomSigner, once for each transaction.
Picks(made) == [1..made -> Accounts]

\* GenerateTransaction asks the block for the sender's nonce and the base fee.
Made(senders) ==
  [i \in DOMAIN senders |->
    [from |-> senders[i],
     nonce |-> next[senders[i]] + Cardinality({j \in 1..(i - 1) : senders[j] = senders[i]}),
     gas |-> OpGas, fee |-> baseFee]]

\* The callback of a tick; rand.Intn panics when there is no number to choose.  A
\* generator may also have no transaction to make.
OperatorBlock(o) ==
  /\ status = "up"
  /\ \/ /\ Counts(o) = {}
        /\ status' = o
        /\ UNCHANGED <<next, baseFee>>
     \/ \E count \in Counts(o) : \E made \in 0..count :
          \E senders \in Picks(made), used \in [1..made -> OpUsed] :
            \E txs \in {Made(senders)} : Generate(txs, used, o)
  /\ block' = <<>>
  /\ UNCHANGED <<base, pending>>

--------------------------------------------------------------------------------

Orders == SetToSeqs(Accounts)

Panicked == status # "up" /\ UNCHANGED vars

Next ==
  \/ \E a \in Accounts : Submit(a)
  \/ Reset \/ Fork
  \/ \E order \in Orders : AutomaticBlock(order)
  \/ \E o \in Operators : OperatorBlock(o)
  \/ Panicked

Spec == Init /\ [][Next]_vars

\* The pool follows the chain; automatic mining goes on, and ranging over a map
\* begins with every account now and then.
FairSpec ==
  /\ Spec
  /\ WF_vars(Reset)
  /\ \A order \in Orders : WF_vars(AutomaticBlock(order))

--------------------------------------------------------------------------------
(***************************************************************************)
(* Properties.                                                             *)
(***************************************************************************)

\* The block skips one transaction of a and has a later one.
Gap(a) ==
  \E i, j \in DOMAIN pending[a] :
    i < j /\ Batch(a)[i] \notin ToSet(block) /\ Batch(a)[j] \in ToSet(block)

\* One of its transactions was made for another state of the chain than this.
AutomaticReason ==
  \E i \in DOMAIN block :
    LET a == block[i].from
    IN next[a] # base[a] \/ Gap(a) \/ block[i].fee < baseFee

\* Its configuration leaves no number to choose, or one that may need too much gas.
OperatorReason(o) ==
  \/ Counts(o) = {}
  \/ \E count \in Counts(o) : (count - 1) * Max(OpUsed) + OpGas > GasLimit

\* An automatic block makes the process panic only because the pool has not
\* followed the chain yet, because a transaction was skipped and not its
\* successors, or because one pays less than the base fee; never for want of gas.
\* An operator's block does only when its configuration leaves no number of
\* transactions to choose, or one that may need more gas than a block has.
PanicExplained ==
  /\ status = "automatic" => AutomaticReason
  /\ \A o \in Operators : status = o => OperatorReason(o)

\* No transaction blocks the pool: once the clients have sent what they send, it
\* empties, however much gas each transaction asks for, unless the process panics.
PoolDrains ==
  \A a \in Accounts : (pending[a] # <<>>) ~> (pending[a] = <<>> \/ status # "up")

================================================================================
