------------------------------ MODULE CommonLemmas ------------------------------
(***************************************************************************)
(* Lemmas that no component is about, for the proofs of several: induction *)
(* up to a number and the functions it defines, intervals, products,       *)
(* elements of sequences, and counters that wrap.                          *)
(***************************************************************************)
EXTENDS Integers, FiniteSetTheorems, SequenceTheorems, WellFoundedInduction, TLAPS

\* Induction up to n, for a property given by the set T of the numbers that have
\* it: if some number had it not, the least of those would contradict one of the
\* hypotheses.
LEMMA Induct ==
  ASSUME NEW T, NEW n \in Nat,
         0 \in T,
         \A i \in 0..(n - 1) : i \in T => i + 1 \in T
  PROVE  \A i \in 0..n : i \in T
<1> DEFINE bad == {i \in 0..n : i \notin T}
<1>1. SUFFICES ASSUME bad # {}
               PROVE  FALSE
  OBVIOUS
<1>2. bad \subseteq Nat
  OBVIOUS
<1>3. PICK m \in bad : \A k \in bad : ~(<<k, m>> \in OpToRel(<, Nat))
  <2> HIDE DEF bad
  <2> QED
    BY <1>1, <1>2, WFMin, NatLessThanWellFounded
<1>4. \A k \in bad : ~(k < m)
  BY <1>2, <1>3 DEF OpToRel
<1>5. m # 0 /\ m - 1 \in 0..(n - 1) /\ m - 1 \notin bad
  BY <1>4
<1> QED
  BY <1>5

\* There is a function that is c at 0 and goes on from i - 1 to i as F says.
Recursion(S, c, n, F) ==
  \E f \in [0..n -> S] :
    /\ f[0] = c
    /\ \A i \in 1..n : f[i] = F[<<i, f[i - 1]>>]

\* Such a function exists: what a recursive definition over 0..n rests on.
LEMMA Recurse ==
  ASSUME NEW S, NEW c \in S, NEW n \in Nat, NEW F \in [(1..n) \X S -> S]
  PROVE  Recursion(S, c, n, F)
<1> DEFINE Good(m, f) == f[0] = c /\ \A i \in 1..m : f[i] = F[<<i, f[i - 1]>>]
           T == {m \in 0..n : \E f \in [0..m -> S] : Good(m, f)}
<1>1. 0 \in T
  <2> DEFINE f == [i \in 0..0 |-> c]
  <2>1. f \in [0..0 -> S] /\ Good(0, f)
    OBVIOUS
  <2>2. 0 \in 0..n
    OBVIOUS
  <2> HIDE DEF f, Good
  <2> QED
    BY <2>1, <2>2
<1>2. ASSUME NEW m \in 0..(n - 1), m \in T
      PROVE  m + 1 \in T
  <2>1. PICK f \in [0..m -> S] : Good(m, f)
    BY <1>2
  <2> DEFINE last == F[<<m + 1, f[m]>>]
             g == [i \in 0..(m + 1) |-> IF i = m + 1 THEN last ELSE f[i]]
  <2>2. last \in S
    OBVIOUS
  <2>3. g \in [0..(m + 1) -> S]
    <3> HIDE DEF last
    <3> QED
      BY <2>2
  <2>4. g[0] = c
    BY <2>1
  <2>5. ASSUME NEW i \in 1..(m + 1)
        PROVE  g[i] = F[<<i, g[i - 1]>>]
    <3>1. CASE i = m + 1
      <4>1. g[i] = last /\ g[i - 1] = f[m]
        BY <3>1
      <4> QED
        BY <3>1, <4>1
    <3>2. CASE i \in 1..m
      <4>1. g[i] = f[i] /\ g[i - 1] = f[i - 1]
        BY <3>2
      <4>2. f[i] = F[<<i, f[i - 1]>>]
        BY <2>1, <3>2
      <4> QED
        BY <4>1, <4>2
    <3> QED
      BY <3>1, <3>2
  <2>6. Good(m + 1, g)
    BY <2>4, <2>5
  <2>7. m + 1 \in 0..n
    OBVIOUS
  <2> HIDE DEF g, Good
  <2> QED
    BY <2>3, <2>6, <2>7
<1>3. n \in T
  <2> HIDE DEF T
  <2>1. \A i \in 0..n : i \in T
    BY <1>1, <1>2, Induct
  <2> QED
    BY <2>1
<1> QED
  BY <1>3 DEF Recursion

--------------------------------------------------------------------------------
(***************************************************************************)
(* Intervals, products and sequences.                                      *)
(***************************************************************************)

\* The interval 1..n has n elements.
LEMMA IntervalCount ==
  ASSUME NEW n \in Nat
  PROVE  IsFiniteSet(1..n) /\ Cardinality(1..n) = n
<1>1. Cardinality(1..n) = IF 1 > n THEN 0 ELSE n - 1 + 1
  BY FS_Interval
<1> QED
  BY <1>1, FS_Interval

\* Multiplication by m keeps the order.
LEMMA Product ==
  ASSUME NEW i \in Nat, NEW k \in Nat, NEW m \in Nat, i <= k
  PROVE  i * m <= k * m /\ i * m \in Nat /\ k * m \in Nat
<1>1. PICK d \in Nat : k = i + d
  <2>1. k - i \in Nat /\ k = i + (k - i)
    OBVIOUS
  <2> QED
    BY <2>1
<1>2. k * m = i * m + d * m
  BY <1>1
<1>3. i * m \in Nat /\ d * m \in Nat /\ k * m \in Nat
  OBVIOUS
<1> QED
  BY <1>2, <1>3

\* An element of a sequence over S is in S.
LEMMA ElementInSet ==
  ASSUME NEW S, NEW s \in Seq(S), NEW i \in 1..Len(s)
  PROVE  s[i] \in S
  OBVIOUS

--------------------------------------------------------------------------------
(***************************************************************************)
(* Counters that wrap.                                                     *)
(***************************************************************************)

\* Quotient and remainder are unique.
LEMMA DivisionUnique ==
  ASSUME NEW w \in Nat \ {0}, NEW q \in Int, NEW p \in Int,
         NEW r \in 0..(w - 1), NEW s \in 0..(w - 1), w * q + r = w * p + s
  PROVE  r = s
<1>1. CASE q = p
  <2>1. w * q = w * p /\ w * q \in Int
    BY <1>1
  <2>. QED
    BY <2>1
<1>2. CASE q >= p + 1
  <2>1. w * q >= w * (p + 1)
    BY <1>2
  <2>2. w * (p + 1) = w * p + w
    OBVIOUS
  <2>. QED
    BY <2>1, <2>2
<1>3. CASE p >= q + 1
  <2>1. w * p >= w * (q + 1)
    BY <1>3
  <2>2. w * (q + 1) = w * q + w
    OBVIOUS
  <2>. QED
    BY <2>1, <2>2
<1>. QED
  BY <1>1, <1>2, <1>3

LEMMA Distribute ==
  ASSUME NEW w \in Int, NEW p \in Int, NEW q \in Int
  PROVE  w * p + w * q = w * (p + q)
OBVIOUS

\* A counter of w values counts b more from a, however often it wrapped before.
LEMMA CountModulo ==
  ASSUME NEW w \in Nat \ {0}, NEW a \in Int, NEW b \in Int
  PROVE  ((a % w) + b) % w = (a + b) % w
<1>1. \A n \in Int : \E q \in Int, r \in 0..(w - 1) : n = w * q + r /\ n % w = r
  <2>1. \A n \in Int : n = w * (n \div w) + (n % w) /\ n \div w \in Int /\ n % w \in 0..(w - 1)
    OBVIOUS
  <2>. QED
    BY <2>1
<1>2. PICK q \in Int, r \in 0..(w - 1) : a = w * q + r /\ a % w = r
  BY <1>1
<1>3. PICK p \in Int, s \in 0..(w - 1) : r + b = w * p + s /\ (r + b) % w = s
  <2>1. PICK n \in Int : n = r + b
    OBVIOUS
  <2>. QED
    BY <1>1, <2>1
<1>4. PICK t \in Int, u \in 0..(w - 1) : a + b = w * t + u /\ (a + b) % w = u
  <2>1. PICK n \in Int : n = a + b
    OBVIOUS
  <2>. QED
    BY <1>1, <2>1
<1>5. w * t + u = (w * q + w * p) + s
  BY <1>2, <1>3, <1>4
<1>6. w * t + u = w * (q + p) + s
  BY <1>5, Distribute
<1>7. u = s
  BY <1>6, DivisionUnique
<1>. QED
  BY <1>2, <1>3, <1>4, <1>7

\* A counter of w values that started at s and shows m agrees with the total l.
Agrees(w, s, m, l) == (s + m) % w = l % w

\* It still does after b more.
LEMMA Recount ==
  ASSUME NEW w \in Nat \ {0}, NEW s \in Int, NEW m \in Int, NEW l \in Int, NEW b \in Int,
         Agrees(w, s, m, l)
  PROVE  Agrees(w, s, (m + b) % w, l + b)
<1>1. PICK x \in Int : x = s + m
  OBVIOUS
<1>2. PICK y \in Int : y = m + b
  OBVIOUS
<1>3. ((x % w) + b) % w = (x + b) % w
  BY CountModulo
<1>4. ((l % w) + b) % w = (l + b) % w
  BY CountModulo
<1>5. ((y % w) + s) % w = (y + s) % w
  BY CountModulo
<1>6. PICK z \in Int : z = y % w
  OBVIOUS
<1>7. s + z = z + s /\ x + b = y + s
  BY <1>1, <1>2
<1>8. x % w = l % w
  BY <1>1 DEF Agrees
<1>9. (s + ((m + b) % w)) % w = (l + b) % w
  BY <1>1, <1>2, <1>3, <1>4, <1>5, <1>6, <1>7, <1>8
<1>. QED
  BY <1>9 DEF Agrees

================================================================================
