---------------------------- MODULE NumberLemmas ----------------------------
(***************************************************************************)
(* Facts about numbers that several of the proofs need: least elements,    *)
(* induction, quotients and remainders, and functions that are defined by  *)
(* recursion from one number to the next.  Induction is stated about sets  *)
(* of numbers.                                                             *)
(***************************************************************************)
EXTENDS Integers, WellFoundedInduction, TLAPS

\* A set of natural numbers has a least element.
LEMMA NatHasMin ==
  ASSUME NEW T, T \subseteq Nat, T # {}
  PROVE  \E m \in T : \A n \in T : m <= n
<1> DEFINE R == OpToRel(<, Nat)
<1>1. IsWellFoundedOn(R, Nat)
  BY NatLessThanWellFounded, Zenon
<1>2. \A x, y \in Nat : <<x, y>> \in R <=> x < y
  BY DEF OpToRel
<1> HIDE DEF R
<1>3. \E x \in T : \A y \in T : ~ (<<y, x>> \in R)
  BY <1>1, WFMin
<1>4. PICK m \in T : \A y \in T : ~ (<<y, m>> \in R)
  BY <1>3
<1>5. ASSUME NEW n \in T PROVE m <= n
  <2>1. m \in Nat /\ n \in Nat
    OBVIOUS
  <2>2. ~ (n < m)
    BY <1>2, <1>4, <2>1, Zenon
  <2>. QED
    BY <2>1, <2>2
<1>. QED
  BY <1>5, Zenon

\* Induction on 0..m, over a set.
LEMMA UpTo ==
  ASSUME NEW m \in Nat, NEW T, 0 \in T, \A i \in 1..m : i - 1 \in T => i \in T
  PROVE  \A i \in 0..m : i \in T
<1> DEFINE Bad == {i \in 0..m : i \notin T}
<1> SUFFICES ASSUME Bad # {} PROVE FALSE
  OBVIOUS
<1>0. Bad \subseteq Nat
  OBVIOUS
<1>1. PICK k \in Bad : \A x \in Bad : k <= x
  <2> HIDE DEF Bad
  <2>. QED
    BY <1>0, NatHasMin
<1>2. k \in 1..m /\ k - 1 \in 0..m /\ ~ (k <= k - 1)
  <2>1. k \in 0..m /\ k # 0
    BY <1>1
  <2>. QED
    BY <2>1
<1>3. k - 1 \in T
  BY <1>1, <1>2, Zenon
<1>. QED
  BY <1>1, <1>2, <1>3

\* A function on 0..m that is defined by recursion from the number before.
IsRecursion(r, m, V, base, next) ==
  r \in [0..m -> V] /\ r[0] = base /\ \A i \in 1..m : r[i] = next[<<i, r[i - 1]>>]

LEMMA RecursionExists ==
  ASSUME NEW n \in Nat, NEW V, NEW base \in V, NEW next \in [(1..n) \X V -> V]
  PROVE  \E r : IsRecursion(r, n, V, base, next)
<1> DEFINE T == {m \in 0..n : \E r : IsRecursion(r, m, V, base, next)}
<1>1. 0 \in T
  <2> DEFINE r == [i \in 0..0 |-> base]
  <2>1. IsRecursion(r, 0, V, base, next)
    BY DEF IsRecursion
  <2>. QED
    BY <2>1
<1>2. ASSUME NEW m \in 1..n, m - 1 \in T PROVE m \in T
  <2>1. PICK r : IsRecursion(r, m - 1, V, base, next)
    BY <1>2
  <2> DEFINE q == [i \in 0..m |-> IF i = m THEN next[<<m, r[m - 1]>>] ELSE r[i]]
  <2>2. /\ r \in [0..(m - 1) -> V] /\ r[0] = base
        /\ \A i \in 1..(m - 1) : r[i] = next[<<i, r[i - 1]>>]
    BY <2>1 DEF IsRecursion
  <2>3. r[m - 1] \in V /\ next[<<m, r[m - 1]>>] \in V
    BY <2>2
  <2>4. q \in [0..m -> V] /\ q[0] = base
    BY <2>2, <2>3
  <2>5. ASSUME NEW i \in 1..m PROVE q[i] = next[<<i, q[i - 1]>>]
    <3>1. i - 1 \in 0..m /\ i - 1 # m
      OBVIOUS
    <3>2. q[i - 1] = r[i - 1]
      BY <3>1
    <3>3. CASE i = m
      <4>1. q[m] = next[<<m, r[m - 1]>>] /\ q[m - 1] = r[m - 1]
        BY <3>2, <3>3
      <4> HIDE DEF q
      <4>. QED
        BY <3>3, <4>1
    <3>4. CASE i # m
      <4>1. i \in 1..(m - 1) /\ q[i] = r[i]
        BY <3>4
      <4>2. r[i] = next[<<i, r[i - 1]>>]
        BY <2>2, <4>1
      <4> HIDE DEF q
      <4>. QED
        BY <3>2, <4>1, <4>2
    <3>. QED
      BY <3>3, <3>4
  <2>6. IsRecursion(q, m, V, base, next)
    <3> HIDE DEF q
    <3>. QED
      BY <2>4, <2>5 DEF IsRecursion
  <2>. QED
    BY <2>6
<1>3. \A m \in 0..n : m \in T
  <2> HIDE DEF T
  <2>. QED
    BY <1>1, <1>2, UpTo
<1>. QED
  BY <1>3

-----------------------------------------------------------------------------
(* Products, quotients and remainders.                                     *)

LEMMA Product ==
  ASSUME NEW a \in Nat, NEW b \in Nat
  PROVE  a * b \in Nat
OBVIOUS

\* Quotient and remainder of a natural number.
LEMMA Division ==
  ASSUME NEW x \in Nat, NEW w \in Nat \ {0}
  PROVE  /\ x \div w \in Nat /\ x % w \in Nat /\ x % w < w
         /\ x = (x \div w) * w + (x % w)
<1>1. /\ x \div w \in Int /\ x % w \in Int /\ 0 <= x % w /\ x % w < w
      /\ x = (x \div w) * w + (x % w)
  OBVIOUS
<1>2. PICK q \in Int : q = x \div w
  BY <1>1
<1>3. PICK r \in Nat : r = x % w
  BY <1>1
<1>4. x = q * w + r /\ r < w
  BY <1>1, <1>2, <1>3, Zenon
<1>5. q >= 0
  <2> SUFFICES ASSUME q <= -1 PROVE FALSE
    OBVIOUS
  <2>1. q * w <= -w
    OBVIOUS
  <2>. QED
    BY <1>4, <2>1
<1>6. q \in Nat
  BY <1>5
<1>7. x \div w \in Nat /\ x % w \in Nat
  BY <1>2, <1>3, <1>6, Zenon
<1>. QED
  BY <1>1, <1>7, Zenon

\* The remainder is the only number below w that differs from x by a multiple
\* of w, and negative numbers wrap around.
LEMMA RemainderIs ==
  ASSUME NEW x \in Int, NEW w \in Nat \ {0}, NEW k \in Int, NEW r \in Nat, r < w, x = k * w + r
  PROVE  x % w = r
<1>1. /\ x \div w \in Int /\ x % w \in Int /\ 0 <= x % w /\ x % w < w
      /\ x = (x \div w) * w + (x % w)
  OBVIOUS
<1>2. PICK q \in Int : q = x \div w
  BY <1>1
<1>3. PICK s \in Int : s = x % w
  BY <1>1
<1>4. x = q * w + s /\ 0 <= s /\ s < w
  BY <1>1, <1>2, <1>3, Zenon
<1>5. (q - k) * w = r - s
  BY <1>4
<1>6. ~(q - k >= 1)
  <2> SUFFICES ASSUME q - k >= 1 PROVE FALSE
    OBVIOUS
  <2>1. PICK d \in Int : d = q - k /\ d >= 1
    OBVIOUS
  <2>2. d * w >= w
    BY <2>1
  <2>. QED
    BY <1>4, <1>5, <2>1, <2>2
<1>7. ~(q - k <= -1)
  <2> SUFFICES ASSUME q - k <= -1 PROVE FALSE
    OBVIOUS
  <2>1. PICK d \in Int : d = q - k /\ d <= -1
    OBVIOUS
  <2>2. d * w <= -w
    BY <2>1
  <2>. QED
    BY <1>4, <1>5, <2>1, <2>2
<1>8. q = k
  BY <1>6, <1>7
<1>9. r = s
  BY <1>4, <1>8
<1>. QED
  BY <1>3, <1>9, Zenon

=============================================================================
