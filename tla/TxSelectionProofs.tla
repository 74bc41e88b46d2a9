--------------------------- MODULE TxSelectionProofs ---------------------------
(***************************************************************************)
(* Proofs about TxSelection, for any accounts, operators, gas and fees:    *)
(* its types, that no block makes the process panic but for the reasons    *)
(* PanicExplained gives, and that an automatic block serves the account it *)
(* begins with.                                                            *)
(*                                                                         *)
(* What the recursive definitions compute - the sums of gas, the queue of  *)
(* an automatic block and what is taken from it - is found by induction    *)
(* over positions, with the lemmas of CommonLemmas.                        *)
(***************************************************************************)
EXTENDS TxSelection, FiniteSetTheorems, CommonLemmas

\* The constants that are numbers, or sets of them.
LEMMA Limits ==
  /\ IsFiniteSet(Accounts)
  /\ GasLimit \in Nat /\ OpGas \in Nat /\ MaxNonce \in Nat
  /\ Gas \subseteq 1..GasLimit /\ OpUsed \subseteq 1..OpGas /\ Fees \subseteq Nat
BY SelectionAssumption

--------------------------------------------------------------------------------
(***************************************************************************)
(* Sums.                                                                   *)
(***************************************************************************)

\* Sums satisfies the equations it is defined by.
LEMMA SumsEquations ==
  ASSUME NEW amounts \in Seq(Nat)
  PROVE  /\ Sums(amounts)[0] = 0
         /\ \A i \in 1..Len(amounts) : Sums(amounts)[i] = Sums(amounts)[i - 1] + amounts[i]
         /\ \A i \in 0..Len(amounts) : Sums(amounts)[i] \in Nat
<1> DEFINE n == Len(amounts)
           Def(f) == [i \in 0..n |-> IF i = 0 THEN 0 ELSE f[i - 1] + amounts[i]]
           F == [x \in (1..n) \X Nat |-> x[2] + amounts[x[1]]]
           g == CHOOSE h : h = Def(h)
<1>1. n \in Nat /\ \A i \in 1..n : amounts[i] \in Nat
  OBVIOUS
<1>2. F \in [(1..n) \X Nat -> Nat]
  BY <1>1
<1>3. PICK f \in [0..n -> Nat] : f[0] = 0 /\ \A i \in 1..n : f[i] = F[<<i, f[i - 1]>>]
  <2>1. Recursion(Nat, 0, n, F)
    <3>1. 0 \in Nat
      OBVIOUS
    <3> HIDE DEF F, n
    <3> QED
      BY <1>1, <1>2, <3>1, Recurse
  <2> QED
    BY <2>1 DEF Recursion
<1>4. f = Def(f)
  <2>1. \A i \in 1..n : f[i - 1] \in Nat
    BY <1>1
  <2>2. \A i \in 1..n : f[i] = f[i - 1] + amounts[i]
    BY <1>3, <2>1
  <2> QED
    BY <1>3, <2>2
<1>5. g = Def(g)
  <2> HIDE DEF Def
  <2> QED
    BY <1>4
<1>6. Sums(amounts) = g
  BY DEF Sums
<1> HIDE DEF g
<1>7. g[0] = 0 /\ \A i \in 1..n : g[i] = g[i - 1] + amounts[i]
  <2>1. 0 \in 0..n /\ \A i \in 1..n : i \in 0..n /\ i # 0
    BY <1>1
  <2> HIDE DEF n
  <2> QED
    BY <1>5, <2>1
<1>8. \A i \in 0..n : g[i] \in Nat
  <2> DEFINE T == {i \in 0..n : g[i] \in Nat}
  <2>1. 0 \in T
    BY <1>1, <1>7
  <2>2. ASSUME NEW i \in 0..(n - 1), i \in T
        PROVE  i + 1 \in T
    <3>1. i + 1 \in 1..n /\ i + 1 \in 0..n /\ (i + 1) - 1 = i
      BY <1>1
    <3>2. g[i + 1] = g[i] + amounts[i + 1] /\ amounts[i + 1] \in Nat /\ g[i] \in Nat
      BY <1>1, <1>7, <2>2, <3>1
    <3> QED
      BY <3>1, <3>2
  <2>3. \A i \in 0..n : i \in T
    <3> HIDE DEF T, n
    <3> QED
      BY <1>1, <2>1, <2>2, Induct
  <2> QED
    BY <2>3
<1> QED
  BY <1>6, <1>7, <1>8

\* One amount more adds one sum and leaves the others.
LEMMA SumsAppend ==
  ASSUME NEW s \in Seq(Nat), NEW x \in Nat
  PROVE  /\ \A i \in 0..Len(s) : Sums(Append(s, x))[i] = Sums(s)[i]
         /\ Sums(Append(s, x))[Len(s) + 1] = Sums(s)[Len(s)] + x
<1> DEFINE d == Append(s, x)
           n == Len(s)
           T == {i \in 0..n : Sums(d)[i] = Sums(s)[i]}
<1>1. /\ d \in Seq(Nat) /\ n \in Nat /\ Len(d) = n + 1 /\ d[n + 1] = x
      /\ \A i \in 1..n : d[i] = s[i]
  BY AppendProperties
<1> HIDE DEF d
<1>2. 0 \in T
  BY <1>1, SumsEquations
<1>3. ASSUME NEW i \in 0..(n - 1), i \in T
      PROVE  i + 1 \in T
  <2>1. i + 1 \in 1..n /\ i + 1 \in 0..n /\ (i + 1) - 1 = i /\ i + 1 \in 1..Len(d)
    BY <1>1
  <2>2. Sums(d)[i + 1] = Sums(d)[i] + d[i + 1] /\ Sums(s)[i + 1] = Sums(s)[i] + s[i + 1]
    BY <1>1, <2>1, SumsEquations
  <2> QED
    BY <1>1, <1>3, <2>1, <2>2
<1>4. \A i \in 0..n : i \in T
  <2> HIDE DEF T, n
  <2> QED
    BY <1>1, <1>2, <1>3, Induct
<1>5. Sums(d)[n + 1] = Sums(d)[n] + x
  <2>1. n + 1 \in 1..Len(d) /\ (n + 1) - 1 = n
    BY <1>1
  <2> QED
    BY <1>1, <2>1, SumsEquations
<1> QED
  BY <1>1, <1>4, <1>5 DEF d

\* Sums of amounts of at most most each.
LEMMA SumsBounded ==
  ASSUME NEW s \in Seq(Nat), NEW most \in Nat, \A i \in 1..Len(s) : s[i] <= most
  PROVE  \A i \in 0..Len(s) : Sums(s)[i] <= i * most
<1> DEFINE n == Len(s)
           T == {i \in 0..n : Sums(s)[i] <= i * most}
<1>1. n \in Nat /\ \A i \in 1..n : s[i] \in Nat
  OBVIOUS
<1>2. 0 \in T
  BY <1>1, SumsEquations
<1>3. ASSUME NEW i \in 0..(n - 1), i \in T
      PROVE  i + 1 \in T
  <2>1. i + 1 \in 1..n /\ i + 1 \in 0..n /\ (i + 1) - 1 = i /\ i \in 0..n
    BY <1>1
  <2>2. Sums(s)[i + 1] = Sums(s)[i] + s[i + 1]
    BY <2>1, SumsEquations
  <2>3. PICK a \in Nat : a = Sums(s)[i]
    BY <2>1, SumsEquations
  <2>4. PICK b \in Nat : b = s[i + 1]
    BY <1>1, <2>1
  <2>5. PICK m \in Int : m = i * most
    BY <1>1
  <2>6. (i + 1) * most = m + most
    BY <1>1, <2>5
  <2>7. a <= m /\ b <= most
    BY <1>3, <2>1, <2>3, <2>4, <2>5
  <2>8. a + b <= m + most
    BY <2>7
  <2> QED
    BY <2>1, <2>2, <2>3, <2>4, <2>6, <2>8
<1>4. \A i \in 0..n : i \in T
  <2> HIDE DEF T, n
  <2> QED
    BY <1>1, <1>2, <1>3, Induct
<1> QED
  BY <1>4

--------------------------------------------------------------------------------
(***************************************************************************)
(* The queue of an automatic block.                                        *)
(***************************************************************************)

\* The transactions of an account in the pool.
LEMMA PoolType ==
  ASSUME TypeOK, NEW a \in Accounts
  PROVE  /\ pending[a] \in Seq([gas : Gas, fee : Fees])
         /\ base[a] \in Nat /\ next[a] \in Nat
         /\ base[a] + Len(pending[a]) <= MaxNonce
<1>1. base \in [Accounts -> 0..MaxNonce] /\ next \in [Accounts -> 0..MaxNonce]
  BY DEF TypeOK
<1>2. base[a] \in 0..MaxNonce /\ next[a] \in 0..MaxNonce
  BY <1>1
<1>3. pending \in [Accounts -> Seq([gas : Gas, fee : Fees])]
  BY DEF TypeOK
<1>4. base[a] + Len(pending[a]) <= MaxNonce
  BY DEF TypeOK
<1>5. base[a] \in Nat /\ next[a] \in Nat
  BY <1>2, Limits
<1>6. pending[a] \in Seq([gas : Gas, fee : Fees])
  BY <1>3
<1> QED
  BY <1>4, <1>5, <1>6

\* tx is in the pool.
Pooled(tx) == \E i \in DOMAIN pending[tx.from] : tx = Batch(tx.from)[i]

\* Transactions of the pool, those of each account by nonce.
Ordered(q) ==
  /\ q \in Seq(Txs)
  /\ \A i \in DOMAIN q : Pooled(q[i])
  /\ \A i, j \in DOMAIN q : i < j /\ q[i].from = q[j].from => q[i].nonce < q[j].nonce

\* The transactions of one account come by nonce.
LEMMA BatchOrdered ==
  ASSUME TypeOK, NEW a \in Accounts
  PROVE  Ordered(Batch(a)) /\ \A i \in DOMAIN Batch(a) : Batch(a)[i].from = a
<1> DEFINE n == Len(pending[a])
<1>0. pending[a] \in Seq([gas : Gas, fee : Fees])
  BY PoolType
<1>1. n \in Nat /\ DOMAIN pending[a] = 1..n /\ base[a] \in Nat /\ base[a] + n <= MaxNonce
  BY <1>0, PoolType
<1>2. DOMAIN Batch(a) = 1..n
  BY <1>1 DEF Batch
<1>4. ASSUME NEW i \in 1..n
      PROVE  /\ Batch(a)[i] \in Txs /\ Pooled(Batch(a)[i])
             /\ Batch(a)[i].from = a /\ Batch(a)[i].nonce = base[a] + i - 1
  <2>0. Batch(a)[i] = [from |-> a, nonce |-> base[a] + i - 1,
                       gas |-> pending[a][i].gas, fee |-> pending[a][i].fee]
    BY <1>1 DEF Batch
  <2>1. pending[a][i].gas \in Gas /\ pending[a][i].fee \in Fees
    <3>1. pending[a][i] \in [gas : Gas, fee : Fees]
      BY <1>0, ElementInSet
    <3> QED
      BY <3>1
  <2>2. base[a] + i - 1 \in 0..MaxNonce
    BY <1>1, Limits
  <2>3. Batch(a)[i] \in Txs
    BY <2>0, <2>1, <2>2 DEF Txs
  <2>4. Batch(a)[i].from = a /\ Batch(a)[i].nonce = base[a] + i - 1
    BY <2>0
  <2>5. Pooled(Batch(a)[i])
    BY <1>1, <2>4 DEF Pooled
  <2> QED
    BY <2>3, <2>4, <2>5
<1>5. Batch(a) \in Seq(Txs)
  <2>1. Batch(a) = [i \in 1..n |-> Batch(a)[i]]
    BY <1>1 DEF Batch
  <2>2. \A i \in 1..n : Batch(a)[i] \in Txs
    BY <1>4
  <2> HIDE DEF n
  <2>3. PICK q : q = Batch(a)
    OBVIOUS
  <2> QED
    BY <1>1, <2>1, <2>2, <2>3
<1>6. \A i, j \in 1..n : i < j => Batch(a)[i].nonce < Batch(a)[j].nonce
  BY <1>1, <1>4
<1> QED
  BY <1>1, <1>2, <1>4, <1>5, <1>6 DEF Ordered

\* What is in r is in p or in q.
FromEither(r, p, q) ==
  \A x \in DOMAIN r : \/ \E i \in DOMAIN p : r[x] = p[i]
                      \/ \E j \in DOMAIN q : r[x] = q[j]

Disjoint(p, q) == \A i \in DOMAIN p, j \in DOMAIN q : p[i].from # q[j].from

\* Two such queues of different accounts, one behind the other.
LEMMA ConcatOrdered ==
  ASSUME TypeOK, NEW p, NEW q, Ordered(p), Ordered(q), Disjoint(p, q)
  PROVE  Ordered(p \o q) /\ FromEither(p \o q, p, q)
<1> DEFINE m == Len(p)
           n == Len(q)
           r == p \o q
<1>1. /\ p \in Seq(Txs) /\ q \in Seq(Txs) /\ m \in Nat /\ n \in Nat
      /\ DOMAIN p = 1..m /\ DOMAIN q = 1..n
  BY DEF Ordered
<1>2. /\ r \in Seq(Txs) /\ DOMAIN r = 1..(m + n)
      /\ \A i \in 1..m : r[i] = p[i]
      /\ \A i \in (m + 1)..(m + n) : r[i] = q[i - m]
  BY <1>1, ConcatProperties
<1> HIDE DEF m, n, r
<1>3. \A x \in 1..(m + n) : x \in 1..m \/ (x \in (m + 1)..(m + n) /\ x - m \in 1..n)
  BY <1>1
<1>4. \A x \in 1..(m + n) : Pooled(r[x])
  BY <1>1, <1>2, <1>3 DEF Ordered
<1>5. ASSUME NEW x \in 1..(m + n), NEW y \in 1..(m + n), x < y, r[x].from = r[y].from
      PROVE  r[x].nonce < r[y].nonce
  <2>1. CASE x \in 1..m /\ y \in 1..m
    BY <1>1, <1>2, <1>5, <2>1 DEF Ordered
  <2>2. CASE x \in 1..m /\ y \in (m + 1)..(m + n)
    BY <1>1, <1>2, <1>3, <1>5, <2>2 DEF Disjoint
  <2>3. CASE x \in (m + 1)..(m + n) /\ y \in (m + 1)..(m + n)
    <3>1. x - m \in 1..n /\ y - m \in 1..n /\ x - m < y - m
      BY <1>1, <1>5, <2>3
    <3>2. r[x] = q[x - m] /\ r[y] = q[y - m]
      BY <1>2, <2>3
    <3> QED
      BY <1>1, <1>5, <3>1, <3>2 DEF Ordered
  <2> QED
    BY <1>1, <1>3, <1>5, <2>1, <2>2, <2>3
<1>6. Ordered(r)
  BY <1>2, <1>4, <1>5 DEF Ordered
<1>7. FromEither(r, p, q)
  BY <1>1, <1>2, <1>3 DEF FromEither
<1> QED
  BY <1>6, <1>7 DEF r

\* FlattenSeq satisfies the equations it is defined by.
LEMMA Flattening ==
  ASSUME NEW S, NEW ss \in Seq(Seq(S)), Len(ss) # 0
  PROVE  \E f : /\ FlattenSeq(ss) = f[Len(ss)]
                /\ f[1] = ss[1]
                /\ \A i \in 2..Len(ss) : f[i] = f[i - 1] \o ss[i]
<1> DEFINE n == Len(ss)
           Def(f) == [i \in 1..n |-> IF i = 1 THEN ss[i] ELSE f[i - 1] \o ss[i]]
           F == [x \in (1..n) \X Seq(S) |-> IF x[1] = 1 THEN ss[1] ELSE x[2] \o ss[x[1]]]
           g == CHOOSE h : h = Def(h)
<1>1. n \in Nat /\ 1 \in 1..n /\ \A i \in 1..n : ss[i] \in Seq(S)
  OBVIOUS
<1>2. F \in [(1..n) \X Seq(S) -> Seq(S)]
  BY <1>1
<1>3. PICK f \in [0..n -> Seq(S)] : f[0] = << >> /\ \A i \in 1..n : f[i] = F[<<i, f[i - 1]>>]
  <2>1. Recursion(Seq(S), << >>, n, F)
    <3>1. << >> \in Seq(S)
      OBVIOUS
    <3> HIDE DEF F, n
    <3> QED
      BY <1>1, <1>2, <3>1, Recurse
  <2> QED
    BY <2>1 DEF Recursion
<1>4. \A i \in 1..n : f[i] = IF i = 1 THEN ss[i] ELSE f[i - 1] \o ss[i]
  <2> SUFFICES ASSUME NEW i \in 1..n
               PROVE  f[i] = IF i = 1 THEN ss[i] ELSE f[i - 1] \o ss[i]
    OBVIOUS
  <2>1. f[i - 1] \in Seq(S)
    <3>1. i - 1 \in 0..n
      BY <1>1
    <3> HIDE DEF n
    <3> QED
      BY <1>3, <3>1
  <2>2. F[<<i, f[i - 1]>>] = IF i = 1 THEN ss[1] ELSE f[i - 1] \o ss[i]
    BY <2>1
  <2> QED
    BY <1>3, <2>2
<1> DEFINE h == [i \in 1..n |-> f[i]]
<1>5. h = Def(h)
  <2>1. \A i \in 1..n : i # 1 => i - 1 \in 1..n
    BY <1>1
  <2> HIDE DEF n
  <2> QED
    BY <1>4, <2>1
<1>6. g = Def(g)
  <2> HIDE DEF Def, h
  <2> QED
    BY <1>5
<1>7. FlattenSeq(ss) = g[n]
  BY <1>1 DEF FlattenSeq
<1> HIDE DEF g
<1>8. g[1] = ss[1] /\ \A i \in 2..n : g[i] = g[i - 1] \o ss[i]
  <2>1. \A i \in 2..n : i \in 1..n /\ i # 1
    BY <1>1
  <2> HIDE DEF n
  <2> QED
    BY <1>1, <1>6, <2>1
<1> QED
  BY <1>7, <1>8

\* Whatever the order of the accounts, each one's transactions come by nonce.
LEMMA QueueOrdered ==
  ASSUME TypeOK, NEW order \in Orders
  PROVE  Ordered(Queue(order))
<1> DEFINE n == Cardinality(Accounts)
           ss == [i \in DOMAIN order |-> Batch(order[i])]
<1>1. n \in Nat
  BY Limits, FS_CardinalityType
<1>2. order \in [1..n -> Accounts] /\ \A i, j \in 1..n : i # j => order[i] # order[j]
  BY DEF Orders, SetToSeqs
<1>3. /\ DOMAIN ss = 1..n /\ Len(ss) = n
      /\ \A i \in 1..n : ss[i] = Batch(order[i])
      /\ ss = [i \in 1..n |-> ss[i]]
  BY <1>1, <1>2
<1>4. Queue(order) = FlattenSeq(ss)
  BY DEF Queue
<1> HIDE DEF n, ss
<1>5. \A i \in 1..n : Ordered(ss[i]) /\ \A x \in DOMAIN ss[i] : ss[i][x].from = order[i]
  BY <1>2, <1>3, BatchOrdered
<1>6. ss \in Seq(Seq(Txs))
  <2>1. \A i \in 1..n : ss[i] \in Seq(Txs)
    BY <1>5 DEF Ordered
  <2> QED
    BY <1>1, <1>3, <2>1
<1>7. CASE n = 0
  <2>1. FlattenSeq(ss) = ss
    BY <1>3, <1>7 DEF FlattenSeq
  <2>2. DOMAIN ss = {}
    BY <1>3, <1>7
  <2>3. ss \in Seq(Txs)
    BY <1>3, <1>7, <2>2
  <2> QED
    BY <1>4, <2>1, <2>2, <2>3 DEF Ordered
<1>8. CASE n # 0
  <2>1. PICK f : /\ FlattenSeq(ss) = f[n]
                 /\ f[1] = ss[1]
                 /\ \A i \in 2..n : f[i] = f[i - 1] \o ss[i]
    <3>1. \E f : /\ FlattenSeq(ss) = f[Len(ss)]
                 /\ f[1] = ss[1]
                 /\ \A i \in 2..Len(ss) : f[i] = f[i - 1] \o ss[i]
      <4>1. Len(ss) # 0
        BY <1>3, <1>8
      <4> QED
        BY <1>6, <4>1, Flattening
    <3>2. Len(ss) = n
      BY <1>3
    <3> QED
      BY <3>1, <3>2
  <2> DEFINE From(i) == \A x \in DOMAIN f[i] : \E j \in 1..i : f[i][x].from = order[j]
             T == {i \in 0..(n - 1) : Ordered(f[i + 1]) /\ From(i + 1)}
             m == n - 1
  <2>2. 0 \in T
    <3>1. 0 \in 0..(n - 1) /\ 1 \in 1..n /\ 0 + 1 = 1 /\ 1 \in 1..1
      BY <1>1, <1>8
    <3>2. Ordered(f[1]) /\ From(1)
      BY <1>5, <2>1, <3>1
    <3> HIDE DEF From
    <3> QED
      BY <3>1, <3>2
  <2>3. ASSUME NEW i \in 0..(m - 1), i \in T
        PROVE  i + 1 \in T
    <3> DEFINE k == i + 1
    <3>1. k \in Nat /\ k \in 1..n /\ k + 1 \in 2..n /\ k + 1 \in 1..n /\ (k + 1) - 1 = k
          /\ k \in 0..(n - 1)
      BY <1>1, <1>8
    <3>2. Ordered(f[k]) /\ From(k)
      BY <2>3
    <3> HIDE DEF k
    <3>3. f[k + 1] = f[k] \o ss[k + 1]
      BY <2>1, <3>1
    <3>4. Ordered(ss[k + 1]) /\ \A x \in DOMAIN ss[k + 1] : ss[k + 1][x].from = order[k + 1]
      BY <1>5, <3>1
    <3>5. \A j \in 1..k : order[j] # order[k + 1]
      <4>1. \A j \in 1..k : j \in 1..n /\ j # k + 1
        BY <1>1, <3>1
      <4> QED
        BY <1>2, <3>1, <4>1
    <3>6. Disjoint(f[k], ss[k + 1])
      BY <3>2, <3>4, <3>5 DEF Disjoint
    <3>7. Ordered(f[k + 1]) /\ FromEither(f[k + 1], f[k], ss[k + 1])
      <4>1. Ordered(f[k]) /\ Ordered(ss[k + 1])
        BY <3>2, <3>4
      <4>2. Ordered(f[k] \o ss[k + 1]) /\ FromEither(f[k] \o ss[k + 1], f[k], ss[k + 1])
        <5> HIDE DEF From
        <5> QED
          BY <4>1, <3>6, ConcatOrdered
      <4> QED
        BY <3>3, <4>2
    <3>8. From(k + 1)
      <4>1. k + 1 \in 1..(k + 1) /\ \A j \in 1..k : j \in 1..(k + 1)
        BY <3>1
      <4> QED
        BY <3>2, <3>4, <3>7, <4>1 DEF FromEither
    <3> HIDE DEF From
    <3> QED
      BY <3>1, <3>7, <3>8 DEF k
  <2>4. m \in Nat /\ m \in 0..m /\ m + 1 = n
    BY <1>1, <1>8
  <2>5. \A i \in 0..m : i \in T
    <3> HIDE DEF T, m
    <3> QED
      BY <2>2, <2>3, <2>4, Induct
  <2>6. Ordered(f[n])
    <3>1. m \in T
      BY <2>4, <2>5
    <3> HIDE DEF From
    <3> QED
      BY <2>4, <3>1
  <2> QED
    BY <1>4, <2>1, <2>6
<1> QED
  BY <1>7, <1>8

--------------------------------------------------------------------------------
(***************************************************************************)
(* What is taken from the queue.                                           *)
(***************************************************************************)

Used(txs) == [i \in DOMAIN txs |-> txs[i].gas]

\* What has been chosen of the first p of queue, and what its gas adds up to.
ChosenFrom(queue, p, chosen) ==
  /\ Ordered(chosen.txs)
  /\ chosen.gas \in 0..GasLimit
  /\ \A i \in DOMAIN chosen.txs, j \in (p + 1)..Len(queue) :
       chosen.txs[i].from = queue[j].from => chosen.txs[i].nonce < queue[j].nonce
  /\ Sums(Used(chosen.txs))[Len(chosen.txs)] = chosen.gas
  /\ \A i \in 0..Len(chosen.txs) : Sums(Used(chosen.txs))[i] <= chosen.gas

\* The gas of a sequence of transactions.
LEMMA GasType ==
  ASSUME NEW txs \in Seq(Txs)
  PROVE  /\ Used(txs) \in Seq(Nat) /\ Len(Used(txs)) = Len(txs)
         /\ \A i \in 1..Len(txs) : Used(txs)[i] = txs[i].gas
         /\ \A tx \in Txs : tx.gas \in 0..GasLimit /\ tx.gas \in Nat
         /\ \A tx \in Txs : Used(Append(txs, tx)) = Append(Used(txs), tx.gas)
<1>1. \A tx \in Txs : tx.gas \in 0..GasLimit /\ tx.gas \in Nat
  <2>1. \A tx \in Txs : tx.gas \in Gas
    BY DEF Txs
  <2>2. \A g \in Gas : g \in 0..GasLimit /\ g \in Nat
    <3>1. GasLimit \in Nat /\ \A g \in Gas : g \in 1..GasLimit
      BY Limits
    <3> QED
      BY <3>1
  <2> QED
    BY <2>1, <2>2
<1>2. \A s \in Seq(Txs) :
        /\ Used(s) \in Seq(Nat) /\ Len(Used(s)) = Len(s)
        /\ \A i \in 1..Len(s) : Used(s)[i] = s[i].gas
  <2> SUFFICES ASSUME NEW s \in Seq(Txs)
               PROVE  /\ Used(s) \in Seq(Nat) /\ Len(Used(s)) = Len(s)
                      /\ \A i \in 1..Len(s) : Used(s)[i] = s[i].gas
    OBVIOUS
  <2>1. Len(s) \in Nat /\ DOMAIN s = 1..Len(s) /\ \A i \in 1..Len(s) : s[i] \in Txs
    BY ElementInSet
  <2> QED
    BY <1>1, <2>1 DEF Used
<1>3. ASSUME NEW tx \in Txs
      PROVE  Used(Append(txs, tx)) = Append(Used(txs), tx.gas)
  <2>1. /\ Append(txs, tx) \in Seq(Txs) /\ Len(Append(txs, tx)) = Len(txs) + 1
        /\ Len(txs) \in Nat
        /\ \A i \in 1..Len(txs) : Append(txs, tx)[i] = txs[i]
        /\ Append(txs, tx)[Len(txs) + 1] = tx
    BY AppendProperties
  <2>2. /\ Append(Used(txs), tx.gas) \in Seq(Nat)
        /\ Len(Append(Used(txs), tx.gas)) = Len(txs) + 1
        /\ \A i \in 1..Len(txs) : Append(Used(txs), tx.gas)[i] = Used(txs)[i]
        /\ Append(Used(txs), tx.gas)[Len(txs) + 1] = tx.gas
    BY <1>1, <1>2, AppendProperties
  <2>3. ASSUME NEW i \in 1..(Len(txs) + 1)
        PROVE  Used(Append(txs, tx))[i] = Append(Used(txs), tx.gas)[i]
    <3>1. Used(Append(txs, tx))[i] = Append(txs, tx)[i].gas
      BY <1>2, <2>1
    <3>0. i = Len(txs) + 1 \/ i \in 1..Len(txs)
      BY <2>1
    <3>2. CASE i = Len(txs) + 1
      BY <2>1, <2>2, <3>1, <3>2
    <3>3. CASE i \in 1..Len(txs)
      BY <1>2, <2>1, <2>2, <3>1, <3>3
    <3> QED
      BY <3>0, <3>2, <3>3
  <2>4. Used(Append(txs, tx)) \in Seq(Nat) /\ Len(Used(Append(txs, tx))) = Len(txs) + 1
    BY <1>2, <2>1
  <2> QED
    BY <2>2, <2>3, <2>4, SeqEqual
<1> QED
  BY <1>1, <1>2, <1>3

Selections == [txs : Seq(Txs), gas : 0..GasLimit]

\* One round of the selection keeps the types.
LEMMA TakeType ==
  ASSUME NEW chosen \in Selections, NEW tx \in Txs
  PROVE  Take(chosen, tx) \in Selections
<1>1. chosen.txs \in Seq(Txs) /\ chosen.gas \in 0..GasLimit
  BY DEF Selections
<1>2. tx.gas \in Nat
  BY <1>1, GasType
<1>3. Append(chosen.txs, tx) \in Seq(Txs)
  BY <1>1
<1>4. chosen.gas + tx.gas <= GasLimit => chosen.gas + tx.gas \in 0..GasLimit
  BY <1>1, <1>2, Limits
<1> QED
  BY <1>3, <1>4 DEF Take, Selections

\* Taken satisfies the equations it is defined by.
LEMMA Taking ==
  ASSUME NEW queue \in Seq(Txs)
  PROVE  \E f : /\ Taken(queue) = f[Len(queue)].txs
                /\ f[0] = [txs |-> << >>, gas |-> 0]
                /\ \A i \in 1..Len(queue) : f[i] = Take(f[i - 1], queue[i])
<1> DEFINE n == Len(queue)
           none == [txs |-> << >>, gas |-> 0]
           Def(f) == [i \in 0..n |-> IF i = 0 THEN none ELSE Take(f[i - 1], queue[i])]
           F == [x \in (1..n) \X Selections |-> Take(x[2], queue[x[1]])]
           g == CHOOSE h : h = Def(h)
<1>1. n \in Nat /\ \A i \in 1..n : queue[i] \in Txs
  BY ElementInSet
<1>2. F \in [(1..n) \X Selections -> Selections]
  BY <1>1, TakeType
<1>3. none \in Selections
  BY Limits, EmptySeq DEF Selections
<1>4. PICK f \in [0..n -> Selections] : f[0] = none /\ \A i \in 1..n : f[i] = F[<<i, f[i - 1]>>]
  <2>1. Recursion(Selections, none, n, F)
    <3> HIDE DEF F, n, none
    <3> QED
      BY <1>1, <1>2, <1>3, Recurse
  <2> QED
    BY <2>1 DEF Recursion
<1>5. \A i \in 1..n : f[i] = Take(f[i - 1], queue[i])
  <2> SUFFICES ASSUME NEW i \in 1..n
               PROVE  f[i] = Take(f[i - 1], queue[i])
    OBVIOUS
  <2>1. f[i - 1] \in Selections
    <3>1. i - 1 \in 0..n
      BY <1>1
    <3> HIDE DEF n
    <3> QED
      BY <1>4, <3>1
  <2> QED
    BY <1>4, <2>1
<1>6. f = Def(f)
  <2> HIDE DEF n, none
  <2>1. \A i \in 0..n : i # 0 => i \in 1..n
    BY <1>1
  <2> QED
    BY <1>4, <1>5, <2>1
<1>7. g = Def(g)
  <2> HIDE DEF Def
  <2> QED
    BY <1>6
<1>8. Taken(queue) = g[n].txs
  BY DEF Taken
<1> HIDE DEF g
<1>9. g[0] = none /\ \A i \in 1..n : g[i] = Take(g[i - 1], queue[i])
  <2>1. 0 \in 0..n /\ \A i \in 1..n : i \in 0..n /\ i # 0
    BY <1>1
  <2> HIDE DEF n, none
  <2> QED
    BY <1>7, <2>1
<1> QED
  BY <1>8, <1>9

\* One round of the selection, with the transaction behind the first p.
LEMMA TakeNext ==
  ASSUME TypeOK, NEW queue, Ordered(queue), NEW p \in 0..(Len(queue) - 1), NEW chosen,
         ChosenFrom(queue, p, chosen)
  PROVE  ChosenFrom(queue, p + 1, Take(chosen, queue[p + 1]))
<1> DEFINE tx == queue[p + 1]
           txs == chosen.txs
           n == Len(txs)
<1>1. queue \in Seq(Txs) /\ Len(queue) \in Nat /\ p + 1 \in 1..Len(queue)
      /\ DOMAIN queue = 1..Len(queue) /\ p \in Nat
  BY DEF Ordered
<1>2. tx \in Txs /\ Pooled(tx)
  BY <1>1, ElementInSet DEF Ordered
<1>3. txs \in Seq(Txs) /\ n \in Nat /\ DOMAIN txs = 1..n
  BY DEF ChosenFrom, Ordered
<1>4. \A i \in 1..n, j \in (p + 1)..Len(queue) :
        txs[i].from = queue[j].from => txs[i].nonce < queue[j].nonce
  BY <1>3 DEF ChosenFrom
<1>5. \A j \in ((p + 1) + 1)..Len(queue) : j \in (p + 1)..Len(queue) /\ j \in 1..Len(queue) /\ p + 1 < j
  BY <1>1
<1>6. CASE ~(chosen.gas + tx.gas <= GasLimit)
  <2>1. Take(chosen, tx) = chosen
    BY <1>6 DEF Take
  <2> QED
    BY <1>3, <1>4, <1>5, <2>1 DEF ChosenFrom
<1>7. CASE chosen.gas + tx.gas <= GasLimit
  <2> DEFINE more == Append(txs, tx)
             gas == chosen.gas + tx.gas
  <2>1. Take(chosen, tx) = [txs |-> more, gas |-> gas]
    BY <1>7 DEF Take
  <2>2. /\ more \in Seq(Txs) /\ Len(more) = n + 1 /\ DOMAIN more = 1..(n + 1)
        /\ \A i \in 1..n : more[i] = txs[i]
        /\ more[n + 1] = tx
    BY <1>2, <1>3, AppendProperties
  <2>3. /\ Used(more) = Append(Used(txs), tx.gas) /\ Used(txs) \in Seq(Nat)
        /\ Len(Used(txs)) = n /\ tx.gas \in Nat
    BY <1>2, <1>3, GasType
  <2>4. gas \in 0..GasLimit /\ chosen.gas \in Nat /\ chosen.gas <= gas
    <3>1. chosen.gas \in 0..GasLimit /\ GasLimit \in Nat
      BY Limits DEF ChosenFrom
    <3> QED
      BY <1>7, <2>3, <3>1
  <2> HIDE DEF more, tx, txs, n
  <2>5. \A i \in 1..(n + 1) : i \in 1..n \/ i = n + 1
    BY <1>3
  <2>6. Ordered(more)
    <3>1. \A i \in 1..(n + 1) : Pooled(more[i])
      <4>1. \A i \in 1..n : Pooled(txs[i])
        BY <1>3 DEF ChosenFrom, Ordered, txs
      <4> QED
        BY <1>2, <2>2, <2>5, <4>1
    <3>2. ASSUME NEW i \in 1..(n + 1), NEW j \in 1..(n + 1), i < j, more[i].from = more[j].from
          PROVE  more[i].nonce < more[j].nonce
      <4>1. i \in 1..n /\ (j \in 1..n \/ j = n + 1)
        BY <1>3, <3>2
      <4>2. CASE j \in 1..n
        <5>1. more[i] = txs[i] /\ more[j] = txs[j]
          BY <2>2, <4>1, <4>2
        <5>2. \A x, y \in 1..n : x < y /\ txs[x].from = txs[y].from => txs[x].nonce < txs[y].nonce
          BY <1>3 DEF ChosenFrom, Ordered, txs
        <5> QED
          BY <3>2, <4>1, <4>2, <5>1, <5>2
      <4>3. CASE j = n + 1
        <5>1. more[i] = txs[i] /\ more[j] = queue[p + 1]
          BY <2>2, <4>1, <4>3 DEF tx
        <5>2. p + 1 \in (p + 1)..Len(queue)
          BY <1>1
        <5> QED
          BY <1>4, <3>2, <4>1, <5>1, <5>2
      <4> QED
        BY <4>1, <4>2, <4>3
    <3> QED
      BY <2>2, <3>1, <3>2 DEF Ordered
  <2>7. ASSUME NEW i \in 1..(n + 1), NEW j \in ((p + 1) + 1)..Len(queue),
               more[i].from = queue[j].from
        PROVE  more[i].nonce < queue[j].nonce
    <3>1. CASE i \in 1..n
      BY <1>4, <1>5, <2>2, <2>7, <3>1
    <3>2. CASE i = n + 1
      <4>1. more[i] = queue[p + 1]
        BY <2>2, <3>2 DEF tx
      <4> QED
        BY <1>1, <1>5, <2>7, <4>1 DEF Ordered
    <3> QED
      BY <2>5, <3>1, <3>2
  <2>8. Sums(Used(txs))[n] = chosen.gas /\ \A i \in 0..n : Sums(Used(txs))[i] <= chosen.gas
    BY DEF ChosenFrom, txs, n
  <2>9. /\ \A i \in 0..n : Sums(Used(more))[i] = Sums(Used(txs))[i]
        /\ Sums(Used(more))[n + 1] = Sums(Used(txs))[n] + tx.gas
    BY <2>3, SumsAppend
  <2>10. Sums(Used(more))[n + 1] = gas
    BY <2>8, <2>9
  <2>11. ASSUME NEW i \in 0..(n + 1)
         PROVE  Sums(Used(more))[i] <= gas
    <3>1. CASE i = n + 1
      BY <2>4, <2>10, <3>1
    <3>2. CASE i \in 0..n
      <4>1. PICK s \in Nat : s = Sums(Used(txs))[i]
        BY <2>3, <3>2, SumsEquations
      <4>2. s <= chosen.gas
        BY <2>8, <3>2, <4>1
      <4>3. s <= gas
        BY <2>3, <2>4, <4>2
      <4> QED
        BY <2>9, <3>2, <4>1, <4>3
    <3>3. i = n + 1 \/ i \in 0..n
      BY <1>3
    <3> QED
      BY <3>1, <3>2, <3>3
  <2> DEFINE taken == [txs |-> more, gas |-> gas]
  <2>12. taken.txs = more /\ taken.gas = gas
    OBVIOUS
  <2> HIDE DEF taken, gas
  <2>13. ChosenFrom(queue, p + 1, taken)
    BY <2>2, <2>4, <2>6, <2>7, <2>10, <2>11, <2>12 DEF ChosenFrom
  <2> QED
    BY <2>1, <2>13 DEF taken, gas, tx
<1> QED
  BY <1>6, <1>7

\* What is selected comes by nonce, and its gas fits at every position.
LEMMA SelectChosen ==
  ASSUME TypeOK, NEW order \in Orders
  PROVE  /\ Ordered(Select(order))
         /\ \A i \in 0..Len(Select(order)) : Sums(Used(Select(order)))[i] <= GasLimit
<1> DEFINE queue == Queue(order)
           n == Len(queue)
<1>1. Ordered(queue)
  BY QueueOrdered
<1>2. queue \in Seq(Txs) /\ n \in Nat
  BY <1>1 DEF Ordered
<1> HIDE DEF queue
<1>3. PICK f : /\ Taken(queue) = f[n].txs
               /\ f[0] = [txs |-> << >>, gas |-> 0]
               /\ \A i \in 1..n : f[i] = Take(f[i - 1], queue[i])
  BY <1>2, Taking
<1> DEFINE T == {i \in 0..n : ChosenFrom(queue, i, f[i])}
<1>4. 0 \in T
  <2> DEFINE none == [txs |-> << >>, gas |-> 0]
  <2>1. << >> \in Seq(Txs) /\ Len(<< >>) = 0 /\ DOMAIN << >> = {}
    BY EmptySeq
  <2>2. Used(<< >>) \in Seq(Nat) /\ Len(Used(<< >>)) = 0
    BY <2>1, GasType
  <2>3. Sums(Used(<< >>))[0] = 0
    BY <2>2, SumsEquations
  <2>4. Ordered(<< >>)
    BY <2>1 DEF Ordered
  <2>5. none.txs = << >> /\ none.gas = 0 /\ 0 \in 0..GasLimit
    BY Limits
  <2>6. \A i \in 0..0 : i = 0
    OBVIOUS
  <2> HIDE DEF none
  <2>7. ChosenFrom(queue, 0, none)
    BY <2>1, <2>3, <2>4, <2>5, <2>6 DEF ChosenFrom
  <2> QED
    BY <1>2, <1>3, <2>7 DEF none
<1>5. ASSUME NEW i \in 0..(n - 1), i \in T
      PROVE  i + 1 \in T
  <2>1. i + 1 \in 1..n /\ i + 1 \in 0..n /\ (i + 1) - 1 = i
    BY <1>2
  <2>2. f[i + 1] = Take(f[i], queue[i + 1])
    BY <1>3, <2>1
  <2>3. ChosenFrom(queue, i + 1, Take(f[i], queue[i + 1]))
    BY <1>1, <1>5, TakeNext
  <2> QED
    BY <2>1, <2>2, <2>3
<1>6. \A i \in 0..n : i \in T
  <2> HIDE DEF T, n
  <2> QED
    BY <1>2, <1>4, <1>5, Induct
<1>7. ChosenFrom(queue, n, f[n])
  <2>1. n \in 0..n
    BY <1>2
  <2> QED
    BY <1>6, <2>1
<1>8. Select(order) = f[n].txs
  BY <1>3 DEF Select, queue
<1> DEFINE txs == f[n].txs
<1>9. Ordered(txs) /\ f[n].gas \in 0..GasLimit
      /\ \A i \in 0..Len(txs) : Sums(Used(txs))[i] <= f[n].gas
  BY <1>7 DEF ChosenFrom
<1>10. ASSUME NEW i \in 0..Len(txs)
       PROVE  Sums(Used(txs))[i] <= GasLimit
  <2>1. Used(txs) \in Seq(Nat) /\ Len(Used(txs)) = Len(txs)
    BY <1>9, GasType DEF Ordered
  <2>2. PICK s \in Nat : s = Sums(Used(txs))[i]
    BY <2>1, SumsEquations
  <2>3. s <= f[n].gas
    BY <1>9, <2>2
  <2> QED
    BY <1>9, <2>2, <2>3, Limits
<1> QED
  BY <1>8, <1>9, <1>10

\* The gas of the transactions taken is within the limit at each of them.
LEMMA GasFits ==
  ASSUME TypeOK, NEW order \in Orders, NEW i \in DOMAIN Select(order)
  PROVE  Sums(Used(Select(order)))[i - 1] + Select(order)[i].gas <= GasLimit
<1> DEFINE txs == Select(order)
<1>1. Ordered(txs) /\ \A j \in 0..Len(txs) : Sums(Used(txs))[j] <= GasLimit
  BY SelectChosen
<1>2. txs \in Seq(Txs) /\ i \in 1..Len(txs) /\ i \in 0..Len(txs)
  BY <1>1 DEF Ordered
<1> HIDE DEF txs
<1>3. Used(txs) \in Seq(Nat) /\ Len(Used(txs)) = Len(txs) /\ Used(txs)[i] = txs[i].gas
  BY <1>2, GasType
<1>4. Sums(Used(txs))[i] = Sums(Used(txs))[i - 1] + Used(txs)[i]
  BY <1>2, <1>3, SumsEquations
<1>5. Sums(Used(txs))[i - 1] + txs[i].gas <= GasLimit
  BY <1>1, <1>2, <1>3, <1>4
<1> QED
  BY <1>5 DEF txs

\* What is counted in the nonce: as many of the sender's transactions come before.
\* Gap is about block; this is about any such sequence.
LEMMA NoncesCount ==
  ASSUME TypeOK, NEW txs, Ordered(txs), NEW i \in DOMAIN txs, NEW a, a = txs[i].from,
         ~ \E x, y \in DOMAIN pending[a] :
             x < y /\ Batch(a)[x] \notin ToSet(txs) /\ Batch(a)[y] \in ToSet(txs)
  PROVE  txs[i].nonce = base[a] + Cardinality({j \in 1..(i - 1) : txs[j].from = a})
<1> DEFINE n == Len(txs)
           before == {j \in 1..(i - 1) : txs[j].from = a}
           m == Len(pending[a])
<1>1. txs \in Seq(Txs) /\ n \in Nat /\ DOMAIN txs = 1..n /\ i \in 1..n
  BY DEF Ordered
<1>2. a \in Accounts
  <2>1. txs[i] \in Txs
    BY <1>1, ElementInSet
  <2> QED
    BY <2>1 DEF Txs
<1>3. /\ m \in Nat /\ DOMAIN pending[a] = 1..m /\ base[a] \in Nat
      /\ DOMAIN Batch(a) = 1..m
      /\ \A x \in 1..m : Batch(a)[x].from = a /\ Batch(a)[x].nonce = base[a] + x - 1
  <2>1. pending[a] \in Seq([gas : Gas, fee : Fees]) /\ base[a] \in Nat
    BY <1>2, PoolType
  <2>2. m \in Nat /\ DOMAIN pending[a] = 1..m
    BY <2>1
  <2>3. ASSUME NEW x \in 1..m
        PROVE  Batch(a)[x].from = a /\ Batch(a)[x].nonce = base[a] + x - 1
    <3>1. Batch(a)[x] = [from |-> a, nonce |-> base[a] + x - 1,
                         gas |-> pending[a][x].gas, fee |-> pending[a][x].fee]
      BY <2>2 DEF Batch
    <3> QED
      BY <3>1
  <2> QED
    BY <2>1, <2>2, <2>3 DEF Batch
<1> HIDE DEF m, n
<1>4. \A j \in 1..n : txs[j].from = a => \E x \in 1..m : txs[j] = Batch(a)[x]
  BY <1>1, <1>3 DEF Ordered, Pooled
<1>5. PICK z \in 1..m : txs[i] = Batch(a)[z]
  BY <1>1, <1>4
<1>6. txs[i].nonce = base[a] + z - 1
  BY <1>3, <1>5
<1>7. \A j, k \in 1..n : j < k /\ txs[j].from = a /\ txs[k].from = a => txs[j].nonce < txs[k].nonce
  BY <1>1 DEF Ordered
<1>8. \A x \in 1..m : x < z => \E j \in before : txs[j] = Batch(a)[x]
  <2> SUFFICES ASSUME NEW x \in 1..m, x < z
               PROVE  \E j \in before : txs[j] = Batch(a)[x]
    OBVIOUS
  <2>1. Batch(a)[z] \in ToSet(txs)
    BY <1>1, <1>5 DEF ToSet
  <2>2. Batch(a)[x] \in ToSet(txs)
    BY <1>3, <2>1
  <2>3. PICK j \in 1..n : txs[j] = Batch(a)[x]
    BY <1>1, <2>2 DEF ToSet
  <2>4. txs[j].from = a /\ txs[j].nonce = base[a] + x - 1
    BY <1>3, <2>3
  <2>5. txs[j].nonce < txs[i].nonce
    BY <1>3, <1>6, <2>4
  <2>6. ~(i < j) /\ i # j
    <3>1. txs[i].nonce \in Int /\ txs[j].nonce \in Int
      BY <1>3, <1>6, <2>4
    <3>2. i < j => txs[i].nonce < txs[j].nonce
      BY <1>1, <1>7, <2>4
    <3> QED
      BY <2>5, <3>1, <3>2
  <2>7. j \in 1..(i - 1)
    BY <1>1, <2>6
  <2> QED
    BY <2>3, <2>4, <2>7
<1>9. \A j \in before : \E x \in 1..(z - 1) : txs[j] = Batch(a)[x]
  <2> SUFFICES ASSUME NEW j \in before
               PROVE  \E x \in 1..(z - 1) : txs[j] = Batch(a)[x]
    OBVIOUS
  <2>1. j \in 1..n /\ j < i /\ txs[j].from = a
    BY <1>1
  <2>2. PICK x \in 1..m : txs[j] = Batch(a)[x]
    BY <1>4, <2>1
  <2>3. txs[j].nonce < txs[i].nonce
    BY <1>1, <1>7, <2>1
  <2>4. txs[j].nonce = base[a] + x - 1
    BY <1>3, <2>2
  <2>5. x \in 1..(z - 1)
    BY <1>3, <1>6, <2>3, <2>4
  <2> QED
    BY <2>2, <2>5
<1> DEFINE F == [x \in 1..(z - 1) |-> CHOOSE j \in before : txs[j] = Batch(a)[x]]
<1>10. \A x \in 1..(z - 1) : F[x] \in before /\ txs[F[x]] = Batch(a)[x]
  <2> SUFFICES ASSUME NEW x \in 1..(z - 1)
               PROVE  F[x] \in before /\ txs[F[x]] = Batch(a)[x]
    OBVIOUS
  <2>1. x \in 1..m /\ x < z
    BY <1>3
  <2>2. \E j \in before : txs[j] = Batch(a)[x]
    BY <1>8, <2>1
  <2>3. F[x] = CHOOSE j \in before : txs[j] = Batch(a)[x]
    OBVIOUS
  <2> HIDE DEF before, F
  <2> QED
    BY <2>2, <2>3
<1>11. F \in Bijection(1..(z - 1), before)
  <2> HIDE DEF F, before
  <2>1. F \in [1..(z - 1) -> before]
    BY <1>10 DEF F
  <2>2. ASSUME NEW x \in 1..(z - 1), NEW y \in 1..(z - 1), F[x] = F[y]
        PROVE  x = y
    <3>1. Batch(a)[x].nonce = Batch(a)[y].nonce
      BY <1>10, <2>2
    <3>2. x \in 1..m /\ y \in 1..m /\ base[a] \in Nat
      BY <1>3
    <3>3. base[a] + x - 1 = base[a] + y - 1
      BY <1>3, <3>1, <3>2
    <3>4. PICK b \in Nat : b = base[a]
      BY <3>2
    <3>5. b + x - 1 = b + y - 1
      BY <3>3, <3>4
    <3> QED
      BY <3>2, <3>5
  <2>3. ASSUME NEW j \in before
        PROVE  \E x \in 1..(z - 1) : F[x] = j
    <3>1. PICK x \in 1..(z - 1) : txs[j] = Batch(a)[x]
      BY <1>9
    <3>2. F[x] \in before /\ txs[F[x]] = txs[j]
      BY <1>10, <3>1
    <3>3. \A k \in before : txs[k] = txs[j] => k = j
      <4> SUFFICES ASSUME NEW k \in before, txs[k] = txs[j]
                   PROVE  k = j
        OBVIOUS
      <4>1. k \in 1..n /\ j \in 1..n /\ txs[k].from = a /\ txs[j].from = a
        BY <1>1 DEF before
      <4>2. txs[j].nonce \in Int
        BY <1>3, <3>1
      <4>3. ~(k < j) /\ ~(j < k)
        BY <1>7, <4>1, <4>2
      <4> QED
        BY <4>1, <4>3
    <3> QED
      BY <3>2, <3>3
  <2> QED
    BY <2>1, <2>2, <2>3 DEF Bijection, Injection, Surjection, IsInjective
<1>12. Cardinality(before) = z - 1
  <2>1. IsFiniteSet(1..(z - 1)) /\ Cardinality(1..(z - 1)) = z - 1
    BY IntervalCount
  <2> HIDE DEF F, before
  <2>2. ExistsBijection(1..(z - 1), before)
    BY <1>11 DEF ExistsBijection
  <2> QED
    BY <2>1, <2>2, FS_Bijection
<1> QED
  BY <1>3, <1>6, <1>12

--------------------------------------------------------------------------------
(***************************************************************************)
(* Why a block panics.                                                     *)
(***************************************************************************)

\* Gap, for the transactions txs.
GapIn(txs, a) ==
  \E x, y \in DOMAIN pending[a] :
    x < y /\ Batch(a)[x] \notin ToSet(txs) /\ Batch(a)[y] \in ToSet(txs)

\* What makes an automatic block panic: not the gas.
LEMMA AutomaticExplained ==
  ASSUME TypeOK, NEW order \in Orders, ~Applies(Select(order), Used(Select(order)))
  PROVE  \E i \in DOMAIN Select(order) :
           LET a == Select(order)[i].from
           IN \/ next[a] # base[a]
              \/ GapIn(Select(order), a)
              \/ Select(order)[i].fee < baseFee
<1> DEFINE txs == Select(order)
<1>1. PICK i \in DOMAIN txs :
        ~ /\ txs[i].nonce = next[txs[i].from]
                            + Cardinality({j \in 1..(i - 1) : txs[j].from = txs[i].from})
          /\ txs[i].fee >= baseFee
          /\ Sums(Used(txs))[i - 1] + txs[i].gas <= GasLimit
  BY DEF Applies
<1>2. Sums(Used(txs))[i - 1] + txs[i].gas <= GasLimit
  BY GasFits
<1>3. Ordered(txs)
  BY SelectChosen
<1>4. txs[i].fee \in Nat /\ baseFee \in Nat
  <2>1. txs \in Seq(Txs) /\ i \in 1..Len(txs)
    BY <1>3 DEF Ordered
  <2>2. txs[i] \in Txs
    BY <2>1, ElementInSet
  <2>3. txs[i].fee \in Fees
    BY <2>2 DEF Txs
  <2> QED
    BY <2>3, Limits DEF TypeOK
<1> HIDE DEF txs
<1> PICK a : a = txs[i].from
  OBVIOUS
<1>5. ~GapIn(txs, a) =>
        txs[i].nonce = base[a] + Cardinality({j \in 1..(i - 1) : txs[j].from = a})
  BY <1>3, NoncesCount DEF GapIn
<1>6. next[a] # base[a] \/ GapIn(txs, a) \/ ~(txs[i].fee >= baseFee)
  BY <1>1, <1>2, <1>5
<1>7. ~(txs[i].fee >= baseFee) => txs[i].fee < baseFee
  BY <1>4
<1> QED
  BY <1>6, <1>7 DEF txs

\* An operator's transaction uses no more than the maximum, which exists.
LEMMA MaxOfUsed ==
  ASSUME NEW u \in OpUsed
  PROVE  Max(OpUsed) \in Nat /\ \A v \in OpUsed : v <= Max(OpUsed)
<1> DEFINE T == {n \in 0..OpGas : (\E v \in OpUsed : v <= n) =>
                   \E x \in OpUsed : x <= n /\ \A y \in OpUsed : y <= n => x >= y}
<1>1. OpGas \in Nat /\ \A v \in OpUsed : v \in 1..OpGas
  BY Limits
<1>2. 0 \in T
  BY <1>1
<1>3. ASSUME NEW n \in 0..(OpGas - 1), n \in T
      PROVE  n + 1 \in T
  <2>1. n + 1 \in 0..OpGas
    BY <1>1
  <2>2. CASE n + 1 \in OpUsed
    BY <1>1, <2>1, <2>2
  <2>3. CASE n + 1 \notin OpUsed
    <3>1. \A y \in OpUsed : y <= n + 1 <=> y <= n
      BY <1>1, <2>3
    <3> QED
      BY <1>3, <2>1, <3>1
  <2> QED
    BY <2>2, <2>3
<1>4. \A n \in 0..OpGas : n \in T
  <2> HIDE DEF T
  <2> QED
    BY <1>1, <1>2, <1>3, Induct
<1>5. \E x \in OpUsed : \A y \in OpUsed : x >= y
  <2>1. OpGas \in T
    BY <1>1, <1>4
  <2>2. \A y \in OpUsed : y <= OpGas
    BY <1>1
  <2> QED
    BY <2>1, <2>2
<1>6. Max(OpUsed) \in OpUsed /\ \A y \in OpUsed : Max(OpUsed) >= y
  BY <1>5 DEF Max
<1> QED
  BY <1>1, <1>6

\* The numbers of transactions an operator may choose.
LEMMA CountsType ==
  ASSUME NEW o \in Operators
  PROVE  Counts(o) \subseteq Nat
<1>1. PerBlock[o] \in Nat /\ MinPerBlock[o] \in Nat /\ MaxPerBlock[o] \in Nat
  BY SelectionAssumption
<1> QED
  BY <1>1 DEF Counts

\* What makes an operator's block panic: only the gas, as its nonces are the block's.
LEMMA OperatorExplained ==
  ASSUME TypeOK, NEW o \in Operators, NEW count \in Counts(o), NEW made \in 0..count,
         NEW senders \in Picks(made), NEW used \in [1..made -> OpUsed],
         ~Applies(Made(senders), used)
  PROVE  (count - 1) * Max(OpUsed) + OpGas > GasLimit
<1> DEFINE txs == Made(senders)
<1>1. count \in Nat /\ made \in Nat /\ made <= count
  BY CountsType
<1>2. senders \in [1..made -> Accounts] /\ DOMAIN senders = 1..made
  BY DEF Picks
<1>3. DOMAIN txs = 1..made
  BY <1>2 DEF Made
<1>4. ASSUME NEW i \in 1..made
      PROVE  /\ txs[i].from = senders[i] /\ txs[i].gas = OpGas /\ txs[i].fee = baseFee
             /\ txs[i].nonce = next[senders[i]]
                               + Cardinality({j \in 1..(i - 1) : senders[j] = senders[i]})
  BY <1>2 DEF Made
<1> HIDE DEF txs
<1>5. PICK i \in 1..made :
        ~ /\ txs[i].nonce = next[txs[i].from]
                            + Cardinality({j \in 1..(i - 1) : txs[j].from = txs[i].from})
          /\ txs[i].fee >= baseFee
          /\ Sums(used)[i - 1] + txs[i].gas <= GasLimit
  BY <1>3 DEF Applies, txs
<1>6. {j \in 1..(i - 1) : txs[j].from = txs[i].from}
        = {j \in 1..(i - 1) : senders[j] = senders[i]}
  <2>1. \A j \in 1..(i - 1) : j \in 1..made
    BY <1>1
  <2>2. \A j \in 1..(i - 1) : txs[j].from = senders[j]
    BY <1>4, <2>1
  <2>3. txs[i].from = senders[i]
    BY <1>4
  <2> DEFINE P(j) == txs[j].from = txs[i].from
             Q(j) == senders[j] = senders[i]
  <2>4. \A j \in 1..(i - 1) : P(j) <=> Q(j)
    BY <2>2, <2>3
  <2>5. {j \in 1..(i - 1) : P(j)} = {j \in 1..(i - 1) : Q(j)}
    <3> HIDE DEF P, Q
    <3> QED
      BY <2>4
  <2> QED
    BY <2>5
<1>7. txs[i].fee >= baseFee
  <2>1. baseFee \in Nat
    BY Limits DEF TypeOK
  <2>2. txs[i].fee = baseFee
    BY <1>4
  <2> QED
    BY <2>1, <2>2
<1>8. ~(Sums(used)[i - 1] + OpGas <= GasLimit)
  BY <1>4, <1>5, <1>6, <1>7
<1>9. /\ used \in Seq(Nat) /\ Len(used) = made
      /\ Max(OpUsed) \in Nat /\ \A j \in 1..made : used[j] <= Max(OpUsed)
  <2>1. used[i] \in OpUsed
    OBVIOUS
  <2>2. \A v \in OpUsed : v \in Nat
    BY Limits
  <2>3. used \in Seq(OpUsed) /\ Len(used) = made
    BY <1>1
  <2>4. used \in Seq(Nat)
    BY <1>1, <2>2
  <2> QED
    BY <2>1, <2>3, <2>4, MaxOfUsed
<1>10. i - 1 \in Nat /\ count - 1 \in Nat /\ i - 1 <= count - 1 /\ i - 1 \in 0..Len(used)
  BY <1>1, <1>9
<1>11. Sums(used)[i - 1] <= (i - 1) * Max(OpUsed) /\ Sums(used)[i - 1] \in Nat
  BY <1>9, <1>10, SumsBounded, SumsEquations
<1>12. /\ (i - 1) * Max(OpUsed) <= (count - 1) * Max(OpUsed)
       /\ (i - 1) * Max(OpUsed) \in Nat /\ (count - 1) * Max(OpUsed) \in Nat
  BY <1>9, <1>10, Product
<1>13. PICK s, p, q \in Nat :
         s = Sums(used)[i - 1] /\ p = (i - 1) * Max(OpUsed) /\ q = (count - 1) * Max(OpUsed)
  BY <1>11, <1>12
<1>14. s <= p /\ p <= q /\ ~(s + OpGas <= GasLimit) /\ OpGas \in Nat /\ GasLimit \in Nat
  BY <1>8, <1>11, <1>12, <1>13, Limits
<1>15. q + OpGas > GasLimit
  BY <1>14
<1> QED
  BY <1>13, <1>15

\* No block panics but for the reasons, and after a panic nothing moves.
LEMMA ExplainedStep == TypeOK /\ PanicExplained /\ [Next]_vars => PanicExplained'
<1> SUFFICES ASSUME TypeOK, PanicExplained, [Next]_vars
             PROVE  PanicExplained'
  OBVIOUS
<1>0. "automatic" \notin Operators /\ "up" \notin Operators
  BY SelectionAssumption
<1>1. CASE status' = "up"
  BY <1>0, <1>1 DEF PanicExplained
<1>2. ASSUME NEW order \in Orders, AutomaticBlock(order), status' # "up"
      PROVE  PanicExplained'
  <2> DEFINE txs == Select(order)
  <2>1. /\ block' = txs /\ Generate(txs, Used(txs), "automatic")
        /\ UNCHANGED <<base, pending>> /\ status = "up"
    BY <1>2 DEF AutomaticBlock, Used
  <2>2. ~Applies(txs, Used(txs)) /\ status' = "automatic" /\ UNCHANGED <<next, baseFee>>
    BY <1>2, <2>1 DEF Generate
  <2>3. \E i \in DOMAIN txs :
          LET a == txs[i].from
          IN next[a] # base[a] \/ GapIn(txs, a) \/ txs[i].fee < baseFee
    BY <2>2, AutomaticExplained
  <2> HIDE DEF txs
  <2>4. PICK i \in DOMAIN txs :
          \/ next[txs[i].from] # base[txs[i].from]
          \/ GapIn(txs, txs[i].from)
          \/ txs[i].fee < baseFee
    BY <2>3
  <2>5. GapIn(block, block[i].from)' <=> GapIn(txs, txs[i].from)
    BY <2>1 DEF GapIn, Batch
  <2>6. /\ i \in DOMAIN block'
        /\ \/ next'[block'[i].from] # base'[block'[i].from]
           \/ GapIn(block, block[i].from)'
           \/ block'[i].fee < baseFee'
    BY <2>1, <2>2, <2>4, <2>5
  <2>7. AutomaticReason'
    BY <2>6 DEF AutomaticReason, Gap, GapIn
  <2> QED
    BY <1>0, <2>2, <2>7 DEF PanicExplained
<1>3. ASSUME NEW o \in Operators, OperatorBlock(o), status' # "up"
      PROVE  PanicExplained'
  <2>1. CASE Counts(o) = {} /\ status' = o
    BY <1>0, <2>1 DEF PanicExplained, OperatorReason
  <2>2. ASSUME NEW count \in Counts(o), NEW made \in 0..count, NEW senders \in Picks(made),
               NEW used \in [1..made -> OpUsed], Generate(Made(senders), used, o)
        PROVE  PanicExplained'
    <3>1. ~Applies(Made(senders), used) /\ status' = o
      BY <1>3, <2>2 DEF Generate, OperatorBlock
    <3>2. (count - 1) * Max(OpUsed) + OpGas > GasLimit
      BY <3>1, OperatorExplained
    <3> QED
      BY <1>0, <3>1, <3>2 DEF PanicExplained, OperatorReason, Counts
  <2> QED
    BY <1>3, <2>1, <2>2 DEF OperatorBlock
<1>4. CASE Panicked \/ UNCHANGED vars
  <2>1. UNCHANGED <<next, base, pending, baseFee, block, status>>
    BY <1>4 DEF Panicked, vars
  <2>2. ASSUME AutomaticReason
        PROVE  AutomaticReason'
    <3>1. PICK i \in DOMAIN block :
            \/ next[block[i].from] # base[block[i].from]
            \/ GapIn(block, block[i].from)
            \/ block[i].fee < baseFee
      BY <2>2 DEF AutomaticReason, Gap, GapIn
    <3>2. GapIn(block, block[i].from)' <=> GapIn(block, block[i].from)
      BY <2>1 DEF GapIn, Batch
    <3>3. /\ i \in DOMAIN block'
          /\ \/ next'[block'[i].from] # base'[block'[i].from]
             \/ GapIn(block, block[i].from)'
             \/ block'[i].fee < baseFee'
      BY <2>1, <3>1, <3>2
    <3> QED
      BY <3>3 DEF AutomaticReason, Gap, GapIn
  <2>3. \A o \in Operators : OperatorReason(o) <=> OperatorReason(o)'
    BY DEF OperatorReason, Counts
  <2> QED
    BY <2>1, <2>2, <2>3 DEF PanicExplained
<1>5. CASE \E a \in Accounts : Submit(a)
  BY <1>1, <1>5 DEF Submit
<1>6. CASE Reset \/ Fork
  BY <1>1, <1>6 DEF Reset, Fork
<1> QED
  BY <1>1, <1>2, <1>3, <1>4, <1>5, <1>6 DEF Next

--------------------------------------------------------------------------------
(***************************************************************************)
(* The account an automatic block begins with.                             *)
(***************************************************************************)

Begins(q, tx) == q \in Seq(Txs) /\ Len(q) \in Nat \ {0} /\ q[1] = tx

\* Whatever comes behind, the first transaction stays the first.
LEMMA BeginsConcat ==
  ASSUME NEW tx, NEW p, Begins(p, tx), NEW q \in Seq(Txs)
  PROVE  Begins(p \o q, tx)
<1>1. p \in Seq(Txs) /\ Len(p) \in Nat \ {0} /\ Len(q) \in Nat /\ 1 \in 1..Len(p)
  BY DEF Begins
<1>2. /\ p \o q \in Seq(Txs) /\ Len(p \o q) = Len(p) + Len(q)
      /\ \A i \in 1..Len(p) : (p \o q)[i] = p[i]
  BY <1>1, ConcatProperties
<1>3. Len(p \o q) \in Nat \ {0}
  BY <1>1, <1>2
<1>4. (p \o q)[1] = tx
  BY <1>1, <1>2 DEF Begins
<1> QED
  BY <1>2, <1>3, <1>4 DEF Begins

LEMMA BeginsAppend ==
  ASSUME NEW tx, NEW p, Begins(p, tx), NEW t \in Txs
  PROVE  Begins(Append(p, t), tx)
<1>1. p \in Seq(Txs) /\ Len(p) \in Nat \ {0} /\ 1 \in 1..Len(p)
  BY DEF Begins
<1>2. /\ Append(p, t) \in Seq(Txs) /\ Len(Append(p, t)) = Len(p) + 1
      /\ \A i \in 1..Len(p) : Append(p, t)[i] = p[i]
  BY <1>1, AppendProperties
<1>3. Len(Append(p, t)) \in Nat \ {0}
  BY <1>1, <1>2
<1>4. Append(p, t)[1] = tx
  BY <1>1, <1>2 DEF Begins
<1> QED
  BY <1>2, <1>3, <1>4 DEF Begins

\* The queue begins with the first transaction of the account the order begins with.
LEMMA QueueBegins ==
  ASSUME TypeOK, NEW order \in Orders, NEW a \in Accounts, a = order[1], pending[a] # << >>
  PROVE  Begins(Queue(order), Batch(a)[1]) /\ Batch(a)[1].from = a
<1> DEFINE n == Cardinality(Accounts)
           ss == [i \in DOMAIN order |-> Batch(order[i])]
           tx == Batch(a)[1]
<1>1. n \in Nat /\ n # 0
  BY Limits, FS_CardinalityType, FS_EmptySet
<1>2. order \in [1..n -> Accounts]
  BY DEF Orders, SetToSeqs
<1>3. /\ DOMAIN ss = 1..n /\ Len(ss) = n
      /\ \A i \in 1..n : ss[i] = Batch(order[i])
      /\ ss = [i \in 1..n |-> ss[i]]
  BY <1>1, <1>2
<1>4. Queue(order) = FlattenSeq(ss)
  BY DEF Queue
<1>5. Begins(Batch(a), tx) /\ tx.from = a
  <2>1. Batch(a) \in Seq(Txs) /\ \A i \in DOMAIN Batch(a) : Batch(a)[i].from = a
    BY BatchOrdered DEF Ordered
  <2>2. Len(pending[a]) \in Nat /\ Len(pending[a]) # 0 /\ DOMAIN pending[a] = 1..Len(pending[a])
    <3> DEFINE R == [gas : Gas, fee : Fees]
    <3>1. pending[a] \in Seq(R)
      BY PoolType
    <3> HIDE DEF R
    <3> QED
      BY <3>1
  <2>4. DOMAIN Batch(a) = 1..Len(pending[a]) /\ DOMAIN Batch(a) = 1..Len(Batch(a))
        /\ Len(Batch(a)) \in Nat
    BY <2>1, <2>2 DEF Batch
  <2>5. 1 \in 1..Len(pending[a])
    BY <2>2
  <2>6. 1 \in 1..Len(Batch(a))
    BY <2>4, <2>5
  <2>7. Len(Batch(a)) \in Nat \ {0}
    BY <2>4, <2>6
  <2> QED
    BY <2>1, <2>4, <2>5, <2>7 DEF Begins
<1> HIDE DEF n, ss, tx
<1>6. \A i \in 1..n : ss[i] \in Seq(Txs)
  BY <1>2, <1>3, BatchOrdered DEF Ordered
<1>7. ss \in Seq(Seq(Txs)) /\ Len(ss) # 0
  BY <1>1, <1>3, <1>6
<1>8. PICK f : /\ FlattenSeq(ss) = f[Len(ss)]
               /\ f[1] = ss[1]
               /\ \A i \in 2..Len(ss) : f[i] = f[i - 1] \o ss[i]
  BY <1>7, Flattening
<1> DEFINE T == {i \in 0..(n - 1) : Begins(f[i + 1], tx)}
           m == n - 1
<1>9. 0 \in T
  <2>1. 0 \in 0..(n - 1) /\ 1 \in 1..n /\ 0 + 1 = 1
    BY <1>1
  <2>2. f[1] = Batch(a)
    BY <1>3, <1>8, <2>1
  <2> QED
    BY <1>5, <2>1, <2>2
<1>10. ASSUME NEW i \in 0..(m - 1), i \in T
       PROVE  i + 1 \in T
  <2> DEFINE k == i + 1
  <2>1. k \in 0..(n - 1) /\ k + 1 \in 2..n /\ k + 1 \in 1..n /\ (k + 1) - 1 = k
    BY <1>1
  <2>2. Begins(f[k], tx)
    BY <1>10
  <2> HIDE DEF k
  <2>3. f[k + 1] = f[k] \o ss[k + 1]
    BY <1>3, <1>8, <2>1
  <2>4. Begins(f[k + 1], tx)
    BY <1>6, <2>1, <2>2, <2>3, BeginsConcat
  <2> QED
    BY <2>1, <2>4 DEF k
<1>11. m \in Nat /\ m \in 0..m /\ m + 1 = n
  BY <1>1
<1>12. \A i \in 0..m : i \in T
  <2> HIDE DEF T, m
  <2> QED
    BY <1>9, <1>10, <1>11, Induct
<1>13. Begins(f[n], tx)
  <2>1. m \in T
    BY <1>11, <1>12
  <2> QED
    BY <1>11, <2>1
<1> QED
  BY <1>3, <1>4, <1>5, <1>8, <1>13 DEF tx

\* It always fits, as no transaction asks for more gas than a block has.
LEMMA TakenBegins ==
  ASSUME NEW tx \in Txs, NEW queue, Begins(queue, tx)
  PROVE  Begins(Taken(queue), tx)
<1> DEFINE n == Len(queue)
           m == n - 1
<1>1. queue \in Seq(Txs) /\ n \in Nat \ {0} /\ queue[1] = tx
  BY DEF Begins
<1>2. PICK f : /\ Taken(queue) = f[n].txs
               /\ f[0] = [txs |-> << >>, gas |-> 0]
               /\ \A i \in 1..n : f[i] = Take(f[i - 1], queue[i])
  BY <1>1, Taking
<1>3. \A i \in 1..n : queue[i] \in Txs
  BY <1>1, ElementInSet
<1> HIDE DEF n
<1> DEFINE T == {i \in 0..m : Begins(f[i + 1].txs, tx)}
<1>4. 0 \in T
  <2>1. 1 \in 1..n /\ 0 \in 0..m /\ 1 - 1 = 0 /\ 0 + 1 = 1
    BY <1>1
  <2>2. f[1] = Take(f[0], tx)
    BY <1>1, <1>2, <2>1
  <2>3. tx.gas \in Nat /\ tx.gas \in 0..GasLimit /\ GasLimit \in Nat
    <3>1. << >> \in Seq(Txs)
      BY EmptySeq
    <3> QED
      BY <3>1, GasType, Limits
  <2>4. f[0].gas + tx.gas <= GasLimit /\ f[0].txs = << >>
    BY <1>2, <2>3
  <2>5. f[1].txs = Append(<< >>, tx)
    BY <2>2, <2>4 DEF Take
  <2>6. Append(<< >>, tx) = << tx >> /\ << tx >> \in Seq(Txs) /\ Len(<< tx >>) = 1
        /\ << tx >>[1] = tx
    OBVIOUS
  <2>7. Begins(f[1].txs, tx)
    BY <2>5, <2>6 DEF Begins
  <2> QED
    BY <2>1, <2>7
<1>5. ASSUME NEW i \in 0..(m - 1), i \in T
      PROVE  i + 1 \in T
  <2> DEFINE k == i + 1
             t == queue[k + 1]
  <2>1. k \in 0..m /\ k + 1 \in 1..n /\ (k + 1) - 1 = k
    BY <1>1
  <2>2. Begins(f[k].txs, tx)
    BY <1>5
  <2> HIDE DEF k, m
  <2>3. f[k + 1] = Take(f[k], t) /\ t \in Txs
    BY <1>2, <1>3, <2>1
  <2>4. f[k + 1].txs = f[k].txs \/ f[k + 1].txs = Append(f[k].txs, t)
    BY <2>3 DEF Take
  <2>5. Begins(f[k + 1].txs, tx)
    <3> HIDE DEF t
    <3>1. CASE f[k + 1].txs = f[k].txs
      BY <2>2, <3>1
    <3>2. CASE f[k + 1].txs = Append(f[k].txs, t)
      BY <2>2, <2>3, <3>2, BeginsAppend
    <3> QED
      BY <2>4, <3>1, <3>2
  <2> QED
    BY <2>1, <2>5 DEF k
<1>6. m \in Nat /\ m \in 0..m /\ m + 1 = n
  BY <1>1
<1>7. \A i \in 0..m : i \in T
  <2> HIDE DEF T, m
  <2> QED
    BY <1>4, <1>5, <1>6, Induct
<1>8. m \in T
  BY <1>6, <1>7
<1>9. Begins(f[m + 1].txs, tx)
  BY <1>8
<1> QED
  BY <1>2, <1>6, <1>9

\* With a transaction of a in it, a block sends at least one of a's.
LEMMA SendsOne ==
  ASSUME NEW txs, NEW tx, Begins(txs, tx)
  PROVE  Sent(txs, tx.from) \in Nat \ {0}
<1> DEFINE S == {i \in DOMAIN txs : txs[i].from = tx.from}
           n == Len(txs)
<1>1. n \in Nat \ {0} /\ DOMAIN txs = 1..n /\ txs[1] = tx
  BY DEF Begins
<1>2. IsFiniteSet(S)
  <2>1. S \subseteq 1..n /\ n \in Nat
    BY <1>1
  <2> QED
    BY <2>1, IntervalCount, FS_Subset
<1>3. 1 \in S
  <2>1. 1 \in 1..n
    BY <1>1
  <2> QED
    BY <1>1, <2>1
<1>4. Cardinality(S) \in Nat /\ Cardinality(S) # 0
  BY <1>2, <1>3, FS_CardinalityType, FS_EmptySet
<1> QED
  BY <1>4 DEF Sent

\* An automatic block that does not make the process panic has a transaction of the
\* account the order begins with, if the pool has one.
FirstServed ==
  \A order \in Orders :
    AutomaticBlock(order) /\ status' = "up" =>
      \A a \in Accounts : a = order[1] /\ pending[a] # << >> => next'[a] > next[a]

LEMMA FirstServedStep == TypeOK => FirstServed
<1> SUFFICES ASSUME TypeOK, NEW order \in Orders, AutomaticBlock(order), status' = "up",
                    NEW a \in Accounts, a = order[1], pending[a] # << >>
             PROVE  next'[a] > next[a]
  BY DEF FirstServed
<1> DEFINE txs == Select(order)
           tx == Batch(a)[1]
<1>1. Begins(Queue(order), tx) /\ tx.from = a
  BY QueueBegins
<1>2. tx \in Txs
  <2>1. Queue(order) \in Seq(Txs) /\ 1 \in 1..Len(Queue(order)) /\ Queue(order)[1] = tx
    BY <1>1 DEF Begins
  <2> QED
    BY <2>1, ElementInSet
<1> HIDE DEF tx
<1>3. Begins(txs, tx)
  BY <1>1, <1>2, TakenBegins DEF Select
<1>4. Sent(txs, a) \in Nat \ {0}
  BY <1>1, <1>3, SendsOne
<1>5. Generate(txs, [i \in DOMAIN txs |-> txs[i].gas], "automatic")
  BY DEF AutomaticBlock
<1>6. next' = [b \in Accounts |-> next[b] + Sent(txs, b)]
  <2> HIDE DEF txs
  <2>1. status' # "automatic"
    OBVIOUS
  <2> QED
    BY <1>5, <2>1 DEF Generate
<1>7. next'[a] = next[a] + Sent(txs, a)
  <2> HIDE DEF txs
  <2> QED
    BY <1>6
<1>8. next[a] \in Nat
  BY PoolType
<1> HIDE DEF txs
<1> QED
  BY <1>4, <1>7, <1>8

--------------------------------------------------------------------------------
(***************************************************************************)
(* Types, and the theorems.                                                *)
(***************************************************************************)

\* How many of the transactions an account has sent.
LEMMA SentType ==
  ASSUME NEW n \in Nat, NEW txs, DOMAIN txs = 1..n, NEW a
  PROVE  Sent(txs, a) \in Nat
<1> DEFINE S == {i \in DOMAIN txs : txs[i].from = a}
<1>1. S \subseteq 1..n
  OBVIOUS
<1>2. IsFiniteSet(S)
  BY <1>1, IntervalCount, FS_Subset
<1> QED
  BY <1>2, FS_CardinalityType DEF Sent

\* A block, or the panic instead of it, keeps the types.
LEMMA GenerateType ==
  ASSUME TypeOK, NEW n \in Nat, NEW txs, DOMAIN txs = 1..n, NEW used, NEW who,
         who \in Operators \cup {"automatic"}, Generate(txs, used, who)
  PROVE  /\ next' \in [Accounts -> 0..MaxNonce]
         /\ baseFee' \in Fees
         /\ status' \in {"up", "automatic"} \cup Operators
<1>1. CASE Applies(txs, used)
  <2>1. ASSUME NEW a \in Accounts
        PROVE  next[a] + Sent(txs, a) \in 0..MaxNonce
    <3>1. next[a] \in Nat /\ Sent(txs, a) \in Nat
      BY PoolType, SentType
    <3>2. next[a] + Sent(txs, a) <= MaxNonce
      BY <1>1 DEF Generate
    <3> QED
      BY <3>1, <3>2, Limits
  <2>2. next' = [a \in Accounts |-> next[a] + Sent(txs, a)] /\ baseFee' \in Fees
        /\ status' = status
    BY <1>1 DEF Generate
  <2> QED
    BY <2>1, <2>2 DEF TypeOK
<1>2. CASE ~Applies(txs, used)
  BY <1>2 DEF Generate, TypeOK
<1> QED
  BY <1>1, <1>2

\* What the pool keeps when it has caught up.
LEMMA ResetShorter ==
  ASSUME NEW S, NEW s \in Seq(S), NEW d \in Nat
  PROVE  /\ SubSeq(s, d + 1, Len(s)) \in Seq(S)
         /\ Len(SubSeq(s, d + 1, Len(s))) = IF d <= Len(s) THEN Len(s) - d ELSE 0
<1>1. Len(s) \in Nat
  OBVIOUS
<1>2. CASE d < Len(s)
  BY <1>1, <1>2, SubSeqProperties
<1>3. CASE ~(d < Len(s))
  <2>1. SubSeq(s, d + 1, Len(s)) = << >>
    BY <1>1, <1>3, SubSeqProperties
  <2> QED
    BY <1>1, <1>3, <2>1
<1> QED
  BY <1>2, <1>3

LEMMA TypeStep == TypeOK /\ [Next]_vars => TypeOK'
<1> SUFFICES ASSUME TypeOK, [Next]_vars
             PROVE  TypeOK'
  OBVIOUS
<1>0. << >> \in Seq(Txs)
  BY EmptySeq
<1> DEFINE R == [gas : Gas, fee : Fees]
<1>1. ASSUME NEW a \in Accounts, Submit(a)
      PROVE  TypeOK'
  <2>1. PICK gas \in Gas, fee \in Fees :
          pending' = [pending EXCEPT ![a] = Append(@, [gas |-> gas, fee |-> fee])]
    BY <1>1 DEF Submit
  <2>2. PICK r \in R : r = [gas |-> gas, fee |-> fee]
    OBVIOUS
  <2> HIDE DEF R
  <2>3. pending \in [Accounts -> Seq(R)]
    BY DEF TypeOK, R
  <2>4. /\ pending[a] \in Seq(R)
        /\ Append(pending[a], r) \in Seq(R)
        /\ Len(Append(pending[a], r)) = Len(pending[a]) + 1
    BY <2>3, AppendProperties
  <2>5. pending' \in [Accounts -> Seq(R)] /\ pending'[a] = Append(pending[a], r)
        /\ \A b \in Accounts : b # a => pending'[b] = pending[b]
    BY <2>1, <2>2, <2>3, <2>4
  <2>6. base[a] + Len(pending'[a]) <= MaxNonce
    <3>1. base[a] \in Nat /\ Len(pending[a]) \in Nat /\ base[a] + Len(pending[a]) < MaxNonce
      BY <1>1, <2>4, PoolType DEF Submit
    <3> QED
      BY <2>4, <2>5, <3>1, Limits
  <2>7. \A b \in Accounts : base[b] + Len(pending'[b]) <= MaxNonce
    <3>1. \A b \in Accounts : base[b] + Len(pending[b]) <= MaxNonce
      BY PoolType
    <3> QED
      BY <2>5, <2>6, <3>1
  <2>8. UNCHANGED <<next, base, baseFee, status>> /\ block' = << >>
    BY <1>1 DEF Submit
  <2> QED
    BY <1>0, <2>5, <2>7, <2>8 DEF TypeOK, R
<1>2. CASE Reset
  <2>1. /\ base' = next /\ block' = << >> /\ UNCHANGED <<next, baseFee, status>>
        /\ pending' = [a \in Accounts |->
                        IF next[a] < base[a] THEN << >>
                        ELSE SubSeq(pending[a], next[a] - base[a] + 1, Len(pending[a]))]
    BY <1>2 DEF Reset
  <2>2. ASSUME NEW a \in Accounts
        PROVE  pending'[a] \in Seq(R) /\ base'[a] + Len(pending'[a]) <= MaxNonce
    <3>1. /\ pending[a] \in Seq(R) /\ Len(pending[a]) \in Nat
          /\ base[a] \in Nat /\ next[a] \in 0..MaxNonce
          /\ base[a] + Len(pending[a]) <= MaxNonce
      <4>1. pending[a] \in Seq(R)
        BY PoolType
      <4>2. next[a] \in 0..MaxNonce
        BY DEF TypeOK
      <4> QED
        BY <4>1, <4>2, PoolType
    <3> HIDE DEF R
    <3>2. CASE next[a] < base[a]
      <4>1. pending'[a] = << >> /\ Len(<< >>) = 0 /\ << >> \in Seq(R)
        BY <2>1, <3>2, EmptySeq
      <4>2. next[a] + 0 <= MaxNonce
        BY <3>1, Limits
      <4> QED
        BY <2>1, <4>1, <4>2
    <3>3. CASE ~(next[a] < base[a])
      <4>1. PICK d \in Nat : next[a] - base[a] = d /\ next[a] = base[a] + d
        BY <3>1, <3>3, Limits
      <4>2. pending'[a] = SubSeq(pending[a], d + 1, Len(pending[a]))
        BY <2>1, <3>3, <4>1
      <4>3. /\ pending'[a] \in Seq(R)
            /\ Len(pending'[a]) = IF d <= Len(pending[a]) THEN Len(pending[a]) - d ELSE 0
        BY <3>1, <4>2, ResetShorter
      <4>4. CASE d <= Len(pending[a])
        BY <2>1, <3>1, <4>1, <4>3, <4>4, Limits
      <4>5. CASE ~(d <= Len(pending[a]))
        BY <2>1, <3>1, <4>1, <4>3, <4>5, Limits
      <4> QED
        BY <4>4, <4>5
    <3> QED
      BY <3>2, <3>3
  <2>3. pending' \in [Accounts -> Seq(R)]
    BY <2>1, <2>2
  <2> QED
    BY <1>0, <2>1, <2>2, <2>3 DEF TypeOK
<1>3. CASE Fork
  BY <1>0, <1>3 DEF Fork, TypeOK
<1>4. ASSUME NEW order \in Orders, AutomaticBlock(order)
      PROVE  TypeOK'
  <2> DEFINE txs == Select(order)
  <2>1. /\ block' = txs /\ Generate(txs, Used(txs), "automatic")
        /\ UNCHANGED <<base, pending>>
    BY <1>4 DEF AutomaticBlock, Used
  <2>2. txs \in Seq(Txs)
    BY SelectChosen DEF Ordered
  <2> HIDE DEF txs
  <2>3. Len(txs) \in Nat /\ DOMAIN txs = 1..Len(txs)
    BY <2>2
  <2>4. /\ next' \in [Accounts -> 0..MaxNonce]
        /\ baseFee' \in Fees
        /\ status' \in {"up", "automatic"} \cup Operators
    BY <2>1, <2>3, GenerateType
  <2> QED
    BY <2>1, <2>2, <2>4 DEF TypeOK
<1>5. ASSUME NEW o \in Operators, OperatorBlock(o)
      PROVE  TypeOK'
  <2>1. block' = << >> /\ UNCHANGED <<base, pending>>
    BY <1>5 DEF OperatorBlock
  <2>2. CASE status' = o /\ UNCHANGED <<next, baseFee>>
    BY <1>0, <2>1, <2>2 DEF TypeOK
  <2>3. ASSUME NEW count \in Counts(o), NEW made \in 0..count, NEW senders \in Picks(made),
               NEW used \in [1..made -> OpUsed], Generate(Made(senders), used, o)
        PROVE  TypeOK'
    <3>1. made \in Nat
      BY CountsType
    <3>2. DOMAIN Made(senders) = 1..made
      BY DEF Made, Picks
    <3>3. /\ next' \in [Accounts -> 0..MaxNonce]
          /\ baseFee' \in Fees
          /\ status' \in {"up", "automatic"} \cup Operators
      BY <2>3, <3>1, <3>2, GenerateType
    <3> QED
      BY <1>0, <2>1, <3>3 DEF TypeOK
  <2> QED
    BY <1>5, <2>2, <2>3 DEF OperatorBlock
<1>6. CASE Panicked \/ UNCHANGED vars
  BY <1>6 DEF Panicked, vars, TypeOK
<1> QED
  BY <1>1, <1>2, <1>3, <1>4, <1>5, <1>6 DEF Next

LEMMA InitType == Init => TypeOK
<1> SUFFICES ASSUME Init
             PROVE  TypeOK
  OBVIOUS
<1> DEFINE R == [gas : Gas, fee : Fees]
<1>1. << >> \in Seq(Txs) /\ << >> \in Seq(R) /\ Len(<< >>) = 0
  BY EmptySeq
<1>2. next \in [Accounts -> 0..MaxNonce] /\ base \in [Accounts -> 0..MaxNonce]
  BY Limits DEF Init
<1>3. pending \in [Accounts -> Seq(R)]
  BY <1>1 DEF Init
<1>4. \A a \in Accounts : base[a] + Len(pending[a]) <= MaxNonce
  <2>1. 0 + 0 <= MaxNonce
    BY Limits
  <2> QED
    BY <1>1, <2>1 DEF Init
<1> QED
  BY <1>1, <1>2, <1>3, <1>4 DEF Init, TypeOK

\* For any accounts, gas and fees, however far the pool lags behind the chain: its
\* transactions stay within the nonces there are, and a block consists of them.
THEOREM TypeCorrect == Spec => []TypeOK
BY InitType, TypeStep, PTL DEF Spec

\* For any number of accounts, transactions and operators: an automatic block never
\* panics for want of gas, nor for a nonce when the pool is up to date and it took
\* the transactions of an account without a gap; an operator's block panics only
\* for its configuration.
THEOREM PanicsExplained == Spec => []PanicExplained
<1>1. Init => PanicExplained
  BY SelectionAssumption DEF Init, PanicExplained
<1>2. TypeOK /\ TypeOK' /\ PanicExplained /\ [Next]_vars => PanicExplained'
  BY ExplainedStep
<1> QED
  BY <1>1, <1>2, TypeCorrect, PTL DEF Spec

\* For any number of accounts, and whatever gas the pool's transactions ask for up
\* to what a block has: the account an automatic block begins with gets on by at
\* least one transaction, so none is skipped over and over whose turn comes.
THEOREM FirstIsServed == Spec => [][FirstServed]_vars
<1>1. TypeOK /\ [Next]_vars => [FirstServed]_vars
  BY FirstServedStep
<1> QED
  BY <1>1, TypeCorrect, PTL DEF Spec

================================================================================
