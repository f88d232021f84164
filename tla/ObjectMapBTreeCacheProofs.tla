---------------------- MODULE ObjectMapBTreeCacheProofs ----------------------
(***************************************************************************)
(* The two-level cache, for every set of keys, all block lengths and every *)
(* limit: maps, lists and counters agree, the limits hold, and what was    *)
(* recently used stays.                                                    *)
(***************************************************************************)
EXTENDS WorkingSet, FiniteSetTheorems, NumberLemmas, TLAPS

-----------------------------------------------------------------------------
(* Sums over finite sets.  MapThenSumSet is a function on sets that is     *)
(* defined by recursion and takes the elements in an order of its own;     *)
(* that there is such a function, and that the order does not matter,      *)
(* follows by induction on cardinalities, stated by least elements.        *)

Pick(s) == CHOOSE x \in s : TRUE

LEMMA PickIn == ASSUME NEW s, s # {} PROVE Pick(s) \in s
BY DEF Pick

\* c is the function on the subsets of S that sums up w.
IsSum(c, w, S) ==
  c = [s \in SUBSET S |-> IF s = {} THEN 0 ELSE w[Pick(s)] + c[s \ {Pick(s)}]]

LEMMA SumExists ==
  ASSUME NEW S, IsFiniteSet(S), NEW w \in [S -> Nat]
  PROVE  \E c : IsSum(c, w, S)
<1> DEFINE Small(n) == {s \in SUBSET S : Cardinality(s) <= n}
           Partial(g, n) == /\ g \in [Small(n) -> Nat]
                            /\ \A s \in Small(n) : g[s] = IF s = {} THEN 0 ELSE w[Pick(s)] + g[s \ {Pick(s)}]
           Bad == {n \in Nat : ~ \E g : Partial(g, n)}
<1>1. \A s \in SUBSET S : IsFiniteSet(s) /\ Cardinality(s) \in Nat /\ Cardinality(s) <= Cardinality(S)
  BY FS_Subset, FS_CardinalityType
<1>2. \A s \in SUBSET S : s # {} =>
        /\ Pick(s) \in S /\ s \ {Pick(s)} \in SUBSET S
        /\ Cardinality(s \ {Pick(s)}) = Cardinality(s) - 1
  <2> SUFFICES ASSUME NEW s \in SUBSET S, s # {}
               PROVE  /\ Pick(s) \in S /\ s \ {Pick(s)} \in SUBSET S
                      /\ Cardinality(s \ {Pick(s)}) = Cardinality(s) - 1
    OBVIOUS
  <2>1. Pick(s) \in s
    BY PickIn
  <2>. QED
    BY <1>1, <2>1, FS_RemoveElement
<1>3. Bad = {}
  <2> SUFFICES ASSUME Bad # {} PROVE FALSE
    OBVIOUS
  <2>1. PICK n \in Bad : \A x \in Bad : n <= x
    <3>1. Bad \subseteq Nat
      OBVIOUS
    <3> HIDE DEF Bad
    <3>. QED
      BY <3>1, NatHasMin
  <2>2. n # 0
    <3> DEFINE g == [s \in Small(0) |-> 0]
    <3>1. \A s \in Small(0) : s = {}
      BY <1>1, FS_EmptySet
    <3>2. g \in [Small(0) -> Nat] /\ \A s \in Small(0) : g[s] = 0
      OBVIOUS
    <3>3. Partial(g, 0)
      BY <3>1, <3>2
    <3>4. \E h : Partial(h, 0)
      BY <3>3
    <3> HIDE DEF Partial
    <3>. QED
      BY <2>1, <3>4
  <2>3. n \in Nat /\ n - 1 \in Nat /\ n - 1 \notin Bad
    <3> HIDE DEF Partial
    <3>1. n \in Nat /\ n - 1 \in Nat /\ ~ (n <= n - 1)
      BY <2>1, <2>2
    <3> HIDE DEF Bad
    <3>. QED
      BY <2>1, <3>1
  <2>4. PICK g : Partial(g, n - 1)
    BY <2>3
  <2> DEFINE h == [s \in Small(n) |-> IF Cardinality(s) = n THEN w[Pick(s)] + g[s \ {Pick(s)}] ELSE g[s]]
  <2>5. \A s \in Small(n) : Cardinality(s) # n => s \in Small(n - 1)
    BY <1>1, <2>3
  <2>6. \A s \in Small(n) : s # {} => s \ {Pick(s)} \in Small(n - 1)
    BY <1>1, <1>2, <2>3
  <2>7. \A s \in Small(n) : Cardinality(s) = n => s # {}
    BY <2>2, FS_EmptySet
  <2>8. \A s \in Small(n - 1) : g[s] \in Nat /\ s \in Small(n) /\ Cardinality(s) # n
    BY <1>1, <2>3, <2>4
  <2>9. \A s \in SUBSET S : s # {} => w[Pick(s)] \in Nat
    BY <1>2
  <2>10. \A s \in Small(n - 1) : h[s] = g[s]
    BY <2>8
  <2>11. ASSUME NEW s \in Small(n)
         PROVE  h[s] \in Nat /\ h[s] = IF s = {} THEN 0 ELSE w[Pick(s)] + h[s \ {Pick(s)}]
    <3>1. CASE Cardinality(s) = n
      <4>1. s # {} /\ h[s] = w[Pick(s)] + g[s \ {Pick(s)}]
        BY <2>7, <3>1
      <4>2. g[s \ {Pick(s)}] \in Nat /\ h[s \ {Pick(s)}] = g[s \ {Pick(s)}] /\ w[Pick(s)] \in Nat
        BY <2>6, <2>8, <2>9, <2>10, <4>1
      <4> HIDE DEF h
      <4>. QED
        BY <4>1, <4>2
    <3>2. CASE Cardinality(s) # n
      <4>1. s \in Small(n - 1)
        BY <2>5, <3>2
      <4>2. h[s] = g[s] /\ g[s] \in Nat /\ g[s] = IF s = {} THEN 0 ELSE w[Pick(s)] + g[s \ {Pick(s)}]
        BY <2>4, <2>8, <2>10, <4>1
      <4>3. s # {} => h[s \ {Pick(s)}] = g[s \ {Pick(s)}]
        BY <2>6, <2>10
      <4> HIDE DEF h
      <4>. QED
        BY <4>2, <4>3
    <3>. QED
      BY <3>1, <3>2
  <2>12. h \in [Small(n) -> Nat]
    BY <2>11
  <2> HIDE DEF h
  <2>13. Partial(h, n)
    BY <2>11, <2>12
  <2>. QED
    BY <2>1, <2>13
<1>4. Cardinality(S) \in Nat /\ Small(Cardinality(S)) = SUBSET S
  BY <1>1, FS_CardinalityType
<1>5. PICK g : Partial(g, Cardinality(S))
  BY <1>3, <1>4
<1>6. IsSum(g, w, S)
  BY <1>4, <1>5 DEF IsSum
<1>. QED
  BY <1>6

LEMMA SumOfNone ==
  ASSUME NEW S, NEW w, NEW c, IsSum(c, w, S)
  PROVE  c[{}] = 0
BY DEF IsSum

LEMMA SumUnfolds ==
  ASSUME NEW S, NEW w, NEW c, NEW s, IsSum(c, w, S), s \in SUBSET S, s # {}
  PROVE  c[s] = w[Pick(s)] + c[s \ {Pick(s)}]
BY DEF IsSum

SameOn(U, w, v) == \A x \in U : w[x] = v[x]

\* A sum depends on what it is taken of only.
LEMMA SumsAgree ==
  ASSUME NEW S, NEW T, NEW w, NEW v, NEW c, NEW d, NEW U, IsSum(c, w, S), IsSum(d, v, T),
         IsFiniteSet(U), U \subseteq S, U \subseteq T, SameOn(U, w, v)
  PROVE  c[U] = d[U]
<1> DEFINE Bad == {n \in Nat : \E s \in SUBSET U : Cardinality(s) = n /\ c[s] # d[s]}
<1>1. \A s \in SUBSET U : IsFiniteSet(s) /\ Cardinality(s) \in Nat
  BY FS_Subset, FS_CardinalityType
<1> SUFFICES ASSUME Bad # {} PROVE FALSE
  BY <1>1
<1>2. PICK n \in Bad : \A x \in Bad : n <= x
  <2>1. Bad \subseteq Nat
    OBVIOUS
  <2> HIDE DEF Bad
  <2>. QED
    BY <2>1, NatHasMin
<1>3. PICK s \in SUBSET U : Cardinality(s) = n /\ c[s] # d[s]
  BY <1>2
<1> HIDE DEF Bad
<1>4. s # {}
  <2>1. c[{}] = 0 /\ d[{}] = 0
    BY SumOfNone
  <2>. QED
    BY <1>3, <2>1
<1>5. c[s] = w[Pick(s)] + c[s \ {Pick(s)}]
  BY <1>4, SumUnfolds
<1>6. d[s] = v[Pick(s)] + d[s \ {Pick(s)}]
  BY <1>4, SumUnfolds
<1>7. Pick(s) \in s /\ w[Pick(s)] = v[Pick(s)]
  BY <1>4, PickIn DEF SameOn
<1> DEFINE r == s \ {Pick(s)}
<1>8. r \in SUBSET U /\ Cardinality(r) = n - 1 /\ Cardinality(r) \in Nat /\ n \in Nat
  BY <1>1, <1>3, <1>7, FS_RemoveElement
<1>9. ~ (n <= n - 1)
  BY <1>8
<1>10. c[r] = d[r]
  BY <1>2, <1>8, <1>9 DEF Bad
<1>. QED
  BY <1>3, <1>5, <1>6, <1>7, <1>10

LEMMA SumIsGood ==
  ASSUME NEW S, NEW w, NEW c, IsFiniteSet(S), w \in [S -> Nat], IsSum(c, w, S)
  PROVE  c[S] \in Nat /\ \A x \in S : c[S] = w[x] + c[S \ {x}]
<1> DEFINE Good(s) == c[s] \in Nat /\ \A x \in s : c[s] = w[x] + c[s \ {x}]
           Bad == {n \in Nat : \E s \in SUBSET S : Cardinality(s) = n /\ ~ Good(s)}
<1>1. \A s \in SUBSET S : IsFiniteSet(s) /\ Cardinality(s) \in Nat
  BY FS_Subset, FS_CardinalityType
<1> SUFFICES ASSUME Bad # {} PROVE FALSE
  BY <1>1
<1>2. PICK n \in Bad : \A x \in Bad : n <= x
  <2>1. Bad \subseteq Nat
    OBVIOUS
  <2> HIDE DEF Bad
  <2>. QED
    BY <2>1, NatHasMin
<1>3. PICK s \in SUBSET S : Cardinality(s) = n /\ ~ Good(s)
  BY <1>2
<1> HIDE DEF Bad
<1>4. s = {} => Good(s)
  BY SumOfNone
<1>5. s # {} /\ Pick(s) \in s /\ c[s] = w[Pick(s)] + c[s \ {Pick(s)}]
  <2>1. s # {}
    BY <1>3, <1>4
  <2> HIDE DEF Good
  <2>2. Pick(s) \in s
    BY <2>1, PickIn
  <2>3. c[s] = w[Pick(s)] + c[s \ {Pick(s)}]
    BY <2>1 DEF IsSum
  <2>. QED
    BY <2>1, <2>2, <2>3
<1>6. \A x \in s : /\ s \ {x} \in SUBSET S /\ Cardinality(s \ {x}) = n - 1
                   /\ n - 1 \in Nat
  <2> SUFFICES ASSUME NEW x \in s
               PROVE  s \ {x} \in SUBSET S /\ Cardinality(s \ {x}) = n - 1 /\ n - 1 \in Nat
    OBVIOUS
  <2>1. Cardinality(s) = n /\ IsFiniteSet(s) /\ s \ {x} \in SUBSET S
    BY <1>1, <1>3
  <2>2. Cardinality(s \ {x}) = Cardinality(s) - 1
    BY <2>1, FS_RemoveElement
  <2>3. Cardinality(s \ {x}) \in Nat
    BY <1>1, <2>1
  <2>. QED
    BY <2>1, <2>2, <2>3
<1>7. n \in Nat /\ ~ (n <= n - 1)
  <2>1. n \in Nat
    BY <1>2 DEF Bad
  <2>. QED
    BY <2>1
<1>8. \A x \in s : Good(s \ {x})
  BY <1>2, <1>6, <1>7 DEF Bad
<1> DEFINE p == Pick(s)
<1> HIDE DEF Good, p
<1>9. /\ \A x \in s : /\ w[x] \in Nat /\ c[s \ {x}] \in Nat
                      /\ \A y \in s \ {x} : c[s \ {x}] = w[y] + c[(s \ {x}) \ {y}]
      /\ c[s] = w[p] + c[s \ {p}] /\ p \in s
  BY <1>5, <1>8 DEF Good, p
<1>10. c[s] \in Nat
  <2>1. w[p] \in Nat /\ c[s \ {p}] \in Nat
    BY <1>9
  <2>2. PICK a \in Nat, b \in Nat : a = w[p] /\ b = c[s \ {p}]
    BY <2>1
  <2>3. c[s] = a + b
    BY <1>9, <2>2
  <2>. QED
    BY <2>3
<1>11. ASSUME NEW x \in s PROVE c[s] = w[x] + c[s \ {x}]
  <2>1. CASE x = p
    BY <1>9, <2>1
  <2>2. CASE x # p
    <3>1. (s \ {x}) \ {p} = (s \ {p}) \ {x}
      OBVIOUS
    <3> DEFINE e == c[(s \ {p}) \ {x}]
    <3>2. c[s \ {x}] = w[p] + e /\ c[s \ {p}] = w[x] + e
      BY <1>9, <2>2, <3>1
    <3>3. e \in Nat
      <4>1. (s \ {p}) \ {x} \in SUBSET S /\ Cardinality((s \ {p}) \ {x}) = (n - 1) - 1
        BY <1>1, <1>6, <1>9, <2>2, FS_RemoveElement
      <4>2. Cardinality((s \ {p}) \ {x}) \in Nat /\ ~ (n <= (n - 1) - 1)
        BY <1>1, <1>7, <4>1
      <4>3. Good((s \ {p}) \ {x})
        BY <1>2, <4>1, <4>2 DEF Bad
      <4>. QED
        BY <4>3 DEF Good
    <3> HIDE DEF e
    <3>4. w[x] \in Nat /\ w[p] \in Nat
      BY <1>9
    <3>5. w[p] + (w[x] + e) = w[x] + (w[p] + e)
      BY <3>3, <3>4
    <3>. QED
      BY <1>9, <3>2, <3>5, Zenon
  <2>. QED
    BY <2>1, <2>2
<1>. QED
  BY <1>3, <1>10, <1>11 DEF Good

LEMMA SumIsNat ==
  ASSUME NEW S, NEW w, NEW c, IsFiniteSet(S), w \in [S -> Nat], IsSum(c, w, S)
  PROVE  c[S] \in Nat
BY SumIsGood

LEMMA SumSplits ==
  ASSUME NEW S, NEW w, NEW c, NEW x, IsFiniteSet(S), w \in [S -> Nat], IsSum(c, w, S), x \in S
  PROVE  c[S] = w[x] + c[S \ {x}]
<1>1. c[S] \in Nat /\ \A y \in S : c[S] = w[y] + c[S \ {y}]
  BY SumIsGood
<1>. QED
  BY <1>1

\* A sum, and one without an element of it.
OneLess(c, w, A, d, v, B, i) ==
  /\ IsFiniteSet(A) /\ IsFiniteSet(B) /\ IsSum(c, w, A) /\ IsSum(d, v, B)
  /\ w \in [A -> Nat] /\ i \in A /\ A \ {i} = B /\ SameOn(B, w, v)

Adds(x, y, z) == x = y + z

LEMMA SumOfOneLess ==
  ASSUME NEW A, NEW B, NEW w, NEW v, NEW c, NEW d, NEW i, OneLess(c, w, A, d, v, B, i)
  PROVE  Adds(c[A], w[i], d[B])
<1>1. /\ IsFiniteSet(A) /\ IsFiniteSet(B) /\ IsSum(c, w, A) /\ IsSum(d, v, B)
      /\ w \in [A -> Nat] /\ i \in A /\ A \ {i} = B /\ SameOn(B, w, v)
  BY DEF OneLess
<1>2. c[A] = w[i] + c[A \ {i}]
  BY <1>1, SumSplits
<1>3. B \subseteq A /\ B \subseteq B
  BY <1>1
<1>4. c[B] = d[B]
  BY <1>1, <1>3, SumsAgree
<1>. QED
  BY <1>1, <1>2, <1>4 DEF Adds

\* The bytes held under the keys S.
Bytes(m, S) == MapThenSumSet(LAMBDA k : m[k].len, S)

LEMMA BytesIsSum ==
  ASSUME NEW m, NEW S, IsFiniteSet(S), \A k \in S : m[k].len \in Nat
  PROVE  \E c : IsSum(c, [k \in S |-> m[k].len], S) /\ Bytes(m, S) = c[S]
<1> DEFINE w == [k \in S |-> m[k].len]
           Iter(g) == g = [s \in SUBSET S |->
                             IF s = {} THEN 0 ELSE LET x == CHOOSE y \in s : TRUE IN m[x].len + g[s \ {x}]]
<1>1. PICK c : c = CHOOSE g : Iter(g)
  OBVIOUS
<1>2. Bytes(m, S) = c[S]
  BY <1>1 DEF Bytes, MapThenSumSet, MapThenFoldSet
<1>3. \A g : IsSum(g, w, S) <=> Iter(g)
  <2> SUFFICES ASSUME NEW g PROVE IsSum(g, w, S) <=> Iter(g)
    OBVIOUS
  <2>1. \A s \in SUBSET S : s # {} => w[Pick(s)] = m[Pick(s)].len
    BY PickIn
  <2>2. [s \in SUBSET S |-> IF s = {} THEN 0 ELSE w[Pick(s)] + g[s \ {Pick(s)}]]
          = [s \in SUBSET S |-> IF s = {} THEN 0 ELSE m[Pick(s)].len + g[s \ {Pick(s)}]]
    BY <2>1
  <2>. QED
    BY <2>2 DEF IsSum, Pick
<1>4. w \in [S -> Nat]
  OBVIOUS
<1>5. PICK g : IsSum(g, w, S)
  BY <1>4, SumExists
<1>6. Iter(c)
  <2>1. Iter(g)
    BY <1>3, <1>5
  <2> HIDE DEF Iter
  <2>. QED
    BY <1>1, <2>1
<1>7. IsSum(c, w, S)
  BY <1>3, <1>6
<1>. QED
  BY <1>2, <1>7

\* Every entry counts with its own length; nothing else counts.
LEMMA BytesSplit ==
  ASSUME NEW m, NEW S, IsFiniteSet(S), \A k \in S : m[k].len \in Nat
  PROVE  /\ Bytes(m, S) \in Nat /\ Bytes(m, {}) = 0
         /\ \A x \in S : Bytes(m, S) = m[x].len + Bytes(m, S \ {x})
<1> DEFINE w == [k \in S |-> m[k].len]
<1>1. PICK c : IsSum(c, w, S) /\ Bytes(m, S) = c[S]
  BY BytesIsSum
<1>2. ASSUME NEW T \in SUBSET S PROVE Bytes(m, T) = c[T]
  <2>1. IsFiniteSet(T) /\ \A k \in T : m[k].len \in Nat
    BY FS_Subset
  <2> DEFINE v == [k \in T |-> m[k].len]
  <2>2. PICK d : IsSum(d, v, T) /\ Bytes(m, T) = d[T]
    BY <2>1, BytesIsSum
  <2>3. SameOn(T, w, v) /\ T \subseteq T
    BY DEF SameOn
  <2> HIDE DEF w, v
  <2>4. c[T] = d[T]
    BY <1>1, <2>1, <2>2, <2>3, SumsAgree
  <2>. QED
    BY <2>2, <2>4
<1>3. c[S] \in Nat /\ \A x \in S : c[S] = w[x] + c[S \ {x}]
  <2>1. w \in [S -> Nat]
    OBVIOUS
  <2> HIDE DEF w
  <2>. QED
    BY <1>1, <2>1, SumIsNat, SumSplits
<1>4. c[{}] = 0
  BY <1>1, SumOfNone
<1>5. {} \in SUBSET S /\ \A x \in S : S \ {x} \in SUBSET S /\ w[x] = m[x].len
  OBVIOUS
<1> HIDE DEF w
<1>. QED
  BY <1>1, <1>2, <1>3, <1>4, <1>5

LEMMA BytesAgree ==
  ASSUME NEW m, NEW n, NEW S, IsFiniteSet(S), \A k \in S : m[k].len \in Nat /\ n[k].len = m[k].len
  PROVE  Bytes(n, S) = Bytes(m, S)
<1> DEFINE w == [k \in S |-> m[k].len]
           v == [k \in S |-> n[k].len]
<1>1. PICK c : IsSum(c, w, S) /\ Bytes(m, S) = c[S]
  BY BytesIsSum
<1>2. PICK d : IsSum(d, v, S) /\ Bytes(n, S) = d[S]
  <2>1. \A k \in S : n[k].len \in Nat
    OBVIOUS
  <2>. QED
    BY <2>1, BytesIsSum
<1>3. SameOn(S, w, v) /\ S \subseteq S
  BY DEF SameOn
<1> HIDE DEF w, v
<1>4. c[S] = d[S]
  BY <1>1, <1>2, <1>3, SumsAgree
<1>. QED
  BY <1>1, <1>2, <1>4

\* What the positions from i on hold.
LEMMA TailIsSum ==
  ASSUME NEW m, NEW order, Len(order) \in Nat, \A j \in 1..Len(order) : m[order[j]].len \in Nat,
         NEW i \in 1..(Len(order) + 1)
  PROVE  \E c : /\ IsSum(c, [j \in i..Len(order) |-> m[order[j]].len], i..Len(order))
                /\ Tail_(order, m, i) = c[i..Len(order)]
<1> DEFINE S == i..Len(order)
           w == [j \in S |-> m[order[j]].len]
           Iter(g) == g = [s \in SUBSET S |->
                             IF s = {} THEN 0
                             ELSE LET x == CHOOSE y \in s : TRUE IN m[order[x]].len + g[s \ {x}]]
<1>0. IsFiniteSet(S) /\ \A j \in S : j \in 1..Len(order)
  <2>1. i \in Int /\ Len(order) \in Int
    OBVIOUS
  <2>2. IsFiniteSet(S)
    BY <2>1, FS_Interval
  <2>. QED
    BY <2>2
<1>1. PICK c : c = CHOOSE g : Iter(g)
  OBVIOUS
<1>2. Tail_(order, m, i) = c[S]
  BY <1>1 DEF Tail_, MapThenSumSet, MapThenFoldSet
<1> HIDE DEF S
<1>3. \A g : IsSum(g, w, S) <=> Iter(g)
  <2> SUFFICES ASSUME NEW g PROVE IsSum(g, w, S) <=> Iter(g)
    OBVIOUS
  <2>1. \A s \in SUBSET S : s # {} => w[Pick(s)] = m[order[Pick(s)]].len
    BY PickIn
  <2>2. [s \in SUBSET S |-> IF s = {} THEN 0 ELSE w[Pick(s)] + g[s \ {Pick(s)}]]
          = [s \in SUBSET S |-> IF s = {} THEN 0 ELSE m[order[Pick(s)]].len + g[s \ {Pick(s)}]]
    BY <2>1
  <2>. QED
    BY <2>2 DEF IsSum, Pick
<1>4. w \in [S -> Nat]
  BY <1>0
<1>5. PICK g : IsSum(g, w, S)
  BY <1>0, <1>4, SumExists
<1>6. Iter(c)
  <2>1. Iter(g)
    BY <1>3, <1>5
  <2> HIDE DEF Iter
  <2>. QED
    BY <1>1, <2>1
<1>7. IsSum(c, w, S)
  BY <1>3, <1>6
<1>. QED
  BY <1>2, <1>7 DEF S

LensKnown(m, order) == \A j \in 1..Len(order) : m[order[j]].len \in Nat

LEMMA TailSplits ==
  ASSUME NEW m, NEW order, Len(order) \in Nat, LensKnown(m, order)
  PROVE  /\ Tail_(order, m, Len(order) + 1) = 0
         /\ \A i \in 1..Len(order) : Tail_(order, m, i) = m[order[i]].len + Tail_(order, m, i + 1)
<1> DEFINE n == Len(order)
           W(i) == [j \in i..n |-> m[order[j]].len]
<1>1. Tail_(order, m, n + 1) = 0
  <2>1. n + 1 \in 1..(n + 1) /\ (n + 1)..n = {}
    OBVIOUS
  <2>2. PICK c : IsSum(c, W(n + 1), (n + 1)..n) /\ Tail_(order, m, n + 1) = c[(n + 1)..n]
    BY <2>1, TailIsSum DEF LensKnown
  <2> HIDE DEF W, n
  <2>. QED
    BY <2>1, <2>2, SumOfNone
<1>2. ASSUME NEW i \in 1..n PROVE Tail_(order, m, i) = m[order[i]].len + Tail_(order, m, i + 1)
  <2>1. /\ i \in 1..(n + 1) /\ i + 1 \in 1..(n + 1) /\ i \in i..n
        /\ (i..n) \ {i} = (i + 1)..n /\ (i + 1)..n \subseteq i..n
    OBVIOUS
  <2>2. PICK c : IsSum(c, W(i), i..n) /\ Tail_(order, m, i) = c[i..n]
    BY <2>1, TailIsSum DEF LensKnown
  <2>3. PICK d : IsSum(d, W(i + 1), (i + 1)..n) /\ Tail_(order, m, i + 1) = d[(i + 1)..n]
    BY <2>1, TailIsSum DEF LensKnown
  <2>4. IsFiniteSet(i..n) /\ IsFiniteSet((i + 1)..n)
    BY FS_Interval
  <2>5. W(i) \in [i..n -> Nat] /\ W(i)[i] = m[order[i]].len
    <3>1. \A j \in i..n : j \in 1..n
      OBVIOUS
    <3>. QED
      BY <2>1, <3>1 DEF LensKnown
  <2>6. \A j \in (i + 1)..n : W(i)[j] = W(i + 1)[j]
    BY <2>1
  <2> DEFINE A == i..n
             B == (i + 1)..n
             w == W(i)
             v == W(i + 1)
  <2>7. /\ IsSum(c, w, A) /\ IsSum(d, v, B) /\ IsFiniteSet(A) /\ IsFiniteSet(B)
        /\ i \in A /\ A \ {i} = B /\ B \subseteq A /\ w \in [A -> Nat]
        /\ \A j \in B : w[j] = v[j]
    BY <2>1, <2>2, <2>3, <2>4, <2>5, <2>6
  <2> HIDE DEF W, n, A, B, w, v
  <2>8. SameOn(B, w, v)
    BY <2>7 DEF SameOn
  <2>9. OneLess(c, w, A, d, v, B, i)
    BY <2>7, <2>8 DEF OneLess
  <2>10. Adds(c[A], w[i], d[B])
    BY <2>9, SumOfOneLess
  <2>. QED
    BY <2>2, <2>3, <2>5, <2>10 DEF A, B, w, Adds
<1>. QED
  BY <1>1, <1>2

\* What the first n positions hold and what those after them hold add up.
LEMMA FrontAndTail ==
  ASSUME NEW S, NEW m, NEW order \in Seq(S), Distinct(order), LensKnown(m, order)
  PROVE  \A n \in 0..Len(order) :
           /\ Tail_(order, m, n + 1) \in Nat /\ Bytes(m, Keys(KeepFront(order, n))) \in Nat
           /\ Bytes(m, Keys(order)) = Bytes(m, Keys(KeepFront(order, n))) + Tail_(order, m, n + 1)
<1> DEFINE L == Len(order)
           F(n) == Keys(KeepFront(order, n))
           Claim(n) == /\ Tail_(order, m, n + 1) \in Nat /\ Bytes(m, F(n)) \in Nat
                       /\ Bytes(m, Keys(order)) = Bytes(m, F(n)) + Tail_(order, m, n + 1)
           Bad == {k \in 0..L : ~ Claim(L - k)}
<1>1. L \in Nat
  OBVIOUS
<1>2. \A n \in 0..L : F(n) = {order[i] : i \in 1..n}
  <2> SUFFICES ASSUME NEW n \in 0..L PROVE F(n) = {order[i] : i \in 1..n}
    OBVIOUS
  <2>1. Len(KeepFront(order, n)) = n /\ \A i \in 1..n : KeepFront(order, n)[i] = order[i]
    BY DEF KeepFront
  <2>. QED
    BY <2>1 DEF Keys
<1>3. \A n \in 0..L : IsFiniteSet(F(n)) /\ \A k \in F(n) : m[k].len \in Nat
  <2> SUFFICES ASSUME NEW n \in 0..L PROVE IsFiniteSet(F(n)) /\ \A k \in F(n) : m[k].len \in Nat
    OBVIOUS
  <2>1. IsFiniteSet(1..n)
    BY <1>1, FS_Interval
  <2> DEFINE f == [i \in 1..n |-> order[i]]
             T == {order[i] : i \in 1..n}
  <2>2. f \in Surjection(1..n, T)
    BY DEF Surjection
  <2>3. IsFiniteSet(T)
    BY <2>1, <2>2, FS_Surjection
  <2>4. \A i \in 1..n : i \in 1..L
    BY <1>1
  <2>5. F(n) = T
    BY <1>2
  <2>6. \A k \in T : m[k].len \in Nat
    BY <2>4 DEF LensKnown
  <2>. QED
    BY <2>3, <2>5, <2>6, Zenon
<1>4. /\ Tail_(order, m, L + 1) = 0
      /\ \A i \in 1..L : Tail_(order, m, i) = m[order[i]].len + Tail_(order, m, i + 1)
  BY <1>1, TailSplits
<1>5. \A n \in 0..L : Bytes(m, F(n)) \in Nat
  BY <1>3, BytesSplit
<1>6. \A n \in 1..L : /\ Bytes(m, F(n)) = m[order[n]].len + Bytes(m, F(n - 1))
                      /\ m[order[n]].len \in Nat
  <2> SUFFICES ASSUME NEW n \in 1..L
               PROVE  /\ Bytes(m, F(n)) = m[order[n]].len + Bytes(m, F(n - 1))
                      /\ m[order[n]].len \in Nat
    OBVIOUS
  <2>1. /\ n \in 0..L /\ n - 1 \in 0..L /\ 1..n \subseteq 1..L /\ n \in 1..n
        /\ \A i \in 1..n : i # n => i \in 1..(n - 1)
        /\ \A i \in 1..(n - 1) : i \in 1..n /\ i # n
    BY <1>1
  <2>2. F(n) = {order[i] : i \in 1..n} /\ F(n - 1) = {order[i] : i \in 1..(n - 1)}
    BY <1>2, <2>1
  <2>3. \A i, j \in 1..L : order[i] = order[j] => i = j
    BY DEF Distinct
  <2> HIDE DEF F
  <2>4. order[n] \in F(n) /\ F(n) \ {order[n]} = F(n - 1)
    BY <2>1, <2>2, <2>3
  <2>5. IsFiniteSet(F(n)) /\ \A k \in F(n) : m[k].len \in Nat
    BY <1>3, <2>1
  <2>6. \A x \in F(n) : Bytes(m, F(n)) = m[x].len + Bytes(m, F(n) \ {x})
    BY <2>5, BytesSplit
  <2>7. m[order[n]].len \in Nat
    BY <2>4, <2>5
  <2>8. Bytes(m, F(n)) = m[order[n]].len + Bytes(m, F(n) \ {order[n]})
    BY <2>4, <2>6, Zenon
  <2>. QED
    BY <2>4, <2>7, <2>8, Zenon
<1>7. Claim(L)
  <2>1. L \in 0..L
    BY <1>1
  <2>2. F(L) = Keys(order)
    BY <1>2, <2>1 DEF Keys
  <2> HIDE DEF F, L
  <2>3. PICK b \in Nat : b = Bytes(m, F(L))
    BY <1>5, <2>1
  <2>4. b = b + 0
    OBVIOUS
  <2>. QED
    BY <1>4, <2>2, <2>3, <2>4
<1>8. ASSUME NEW n \in 1..L, Claim(n) PROVE Claim(n - 1)
  <2> DEFINE len == m[order[n]].len
             tl == Tail_(order, m, n + 1)
             front == Bytes(m, F(n - 1))
             all == Bytes(m, Keys(order))
  <2>1. n - 1 \in 0..L /\ (n - 1) + 1 = n
    BY <1>1
  <2>2. Bytes(m, F(n)) = len + front /\ len \in Nat /\ front \in Nat
    BY <1>5, <1>6, <2>1
  <2>3. Tail_(order, m, n) = len + tl /\ tl \in Nat /\ all = Bytes(m, F(n)) + tl
    BY <1>4, <1>8
  <2> HIDE DEF len, tl, front, all
  <2>4. all = (len + front) + tl
    BY <2>2, <2>3, Zenon
  <2>5. (len + front) + tl = front + (len + tl) /\ len + tl \in Nat
    BY <2>2, <2>3
  <2>6. all = front + Tail_(order, m, n) /\ Tail_(order, m, n) \in Nat
    BY <2>3, <2>4, <2>5, Zenon
  <2>. QED
    BY <2>1, <2>2, <2>6, Zenon DEF all, front
<1> HIDE DEF Claim, L
<1>9. Bad = {}
  <2> SUFFICES ASSUME Bad # {} PROVE FALSE
    OBVIOUS
  <2>1. PICK k \in Bad : \A x \in Bad : k <= x
    <3>1. Bad \subseteq Nat
      OBVIOUS
    <3> HIDE DEF Bad
    <3>. QED
      BY <3>1, NatHasMin
  <2>2. k \in 0..L /\ ~ Claim(L - k)
    BY <2>1
  <2>3. L - 0 = L
    BY <1>1
  <2>4. k # 0
    BY <1>7, <2>2, <2>3
  <2>5. k - 1 \in 0..L /\ ~ (k <= k - 1) /\ L - (k - 1) \in 1..L /\ (L - (k - 1)) - 1 = L - k
    BY <1>1, <2>2, <2>4
  <2>6. Claim(L - (k - 1))
    BY <2>1, <2>5
  <2>. QED
    BY <1>8, <2>2, <2>5, <2>6
<1>10. ASSUME NEW n \in 0..L PROVE Claim(n)
  <2>1. L - n \in 0..L /\ L - (L - n) = n
    BY <1>1
  <2>. QED
    BY <1>9, <2>1
<1>. QED
  BY <1>10 DEF Claim, L

USE LimitsAssumption

-----------------------------------------------------------------------------
(* The list operations.                                                    *)

\* Pushing a new key keeps the list free of duplicates and adds that key.
LEMMA PushFrontFacts ==
  ASSUME NEW S, NEW s \in Seq(S), NEW k \in S, Distinct(s), k \notin Keys(s)
  PROVE  /\ PushFront(s, k) \in Seq(S)
         /\ Len(PushFront(s, k)) = Len(s) + 1
         /\ Distinct(PushFront(s, k))
         /\ Keys(PushFront(s, k)) = Keys(s) \cup {k}
<1> DEFINE t == PushFront(s, k)
<1>1. Len(s) \in Nat /\ \A i \in 1..Len(s) : s[i] \in S
  OBVIOUS
<1>2. t = [i \in 1..(Len(s) + 1) |-> IF i = 1 THEN k ELSE s[i - 1]]
  BY DEF PushFront
<1>3. \A i \in 1..(Len(s) + 1) : t[i] \in S
  BY <1>1, <1>2
<1>4. t \in Seq(S) /\ Len(t) = Len(s) + 1
  BY <1>1, <1>2, <1>3
<1>5. t[1] = k /\ \A i \in 2..(Len(s) + 1) : i - 1 \in 1..Len(s) /\ t[i] = s[i - 1]
  BY <1>1, <1>2
<1>6. \A i \in 1..Len(s) : i + 1 \in 1..(Len(s) + 1) /\ t[i + 1] = s[i]
  BY <1>1, <1>2
<1> HIDE DEF t
<1>7. Keys(t) = Keys(s) \cup {k}
  <2>1. ASSUME NEW x \in Keys(t) PROVE x \in Keys(s) \cup {k}
    <3>1. PICK i \in 1..(Len(s) + 1) : x = t[i]
      BY <1>4 DEF Keys
    <3>2. CASE i = 1
      BY <1>5, <3>1, <3>2
    <3>3. CASE i \in 2..(Len(s) + 1)
      BY <1>5, <3>1, <3>3 DEF Keys
    <3>. QED BY <1>1, <3>2, <3>3
  <2>2. ASSUME NEW x \in Keys(s) PROVE x \in Keys(t)
    BY <1>4, <1>6 DEF Keys
  <2>3. k \in Keys(t)
    <3>1. 1 \in 1..Len(t)
      BY <1>1, <1>4
    <3>. QED BY <1>5, <3>1 DEF Keys
  <2>. QED BY <2>1, <2>2, <2>3
<1>8. Distinct(t)
  <2> SUFFICES ASSUME NEW i \in 1..(Len(s) + 1), NEW j \in 1..(Len(s) + 1), t[i] = t[j]
               PROVE  i = j
    BY <1>4 DEF Distinct
  <2>1. ASSUME NEW m \in 2..(Len(s) + 1) PROVE t[m] # k
    BY <1>5, <2>1 DEF Keys
  <2>2. CASE i = 1 \/ j = 1
    BY <1>1, <1>5, <2>1, <2>2
  <2>3. CASE i \in 2..(Len(s) + 1) /\ j \in 2..(Len(s) + 1)
    <3>1. s[i - 1] = s[j - 1] /\ i - 1 \in 1..Len(s) /\ j - 1 \in 1..Len(s)
      BY <1>5, <2>3
    <3>2. i - 1 = j - 1
      BY <3>1 DEF Distinct
    <3>. QED BY <3>2
  <2>. QED BY <1>1, <2>2, <2>3
<1>. QED BY <1>4, <1>7, <1>8 DEF t

\* Removing a key's element removes that key and nothing else.
LEMMA RemoveKeyFacts ==
  ASSUME NEW S, NEW s \in Seq(S), NEW k \in Keys(s), Distinct(s)
  PROVE  /\ RemoveKey(s, k) \in Seq(S)
         /\ Len(RemoveKey(s, k)) = Len(s) - 1
         /\ Distinct(RemoveKey(s, k))
         /\ Keys(RemoveKey(s, k)) = Keys(s) \ {k}
<1> DEFINE n == Len(s)
           p == CHOOSE i \in 1..Len(s) : s[i] = k
           t == RemoveKey(s, k)
<1>1. n \in Nat /\ \A i \in 1..n : s[i] \in S
  OBVIOUS
<1>2. p \in 1..n /\ s[p] = k
  BY DEF Keys
<1>3. t = [j \in 1..(n - 1) |-> IF j < p THEN s[j] ELSE s[j + 1]]
  BY DEF RemoveKey, Unlink
<1>4. \A j \in 1..(n - 1) : t[j] = IF j < p THEN s[j] ELSE s[j + 1]
  BY <1>3
<1> HIDE DEF p, t
<1>5. n - 1 \in Nat /\ \A j \in 1..(n - 1) : j \in 1..n /\ j + 1 \in 1..n
  BY <1>1, <1>2
<1>6. t \in Seq(S) /\ Len(t) = n - 1
  <2>1. \A j \in 1..(n - 1) : t[j] \in S
    BY <1>1, <1>4, <1>5
  <2>2. t \in [1..(n - 1) -> S]
    BY <1>3, <1>4, <2>1
  <2>. QED BY <1>5, <2>2
<1>7. Distinct(t)
  <2> SUFFICES ASSUME NEW i \in 1..(n - 1), NEW j \in 1..(n - 1), t[i] = t[j]
               PROVE  i = j
    BY <1>6 DEF Distinct
  <2>1. \A x, y \in 1..n : s[x] = s[y] => x = y
    BY DEF Distinct
  <2>2. i \in 1..n /\ i + 1 \in 1..n /\ j \in 1..n /\ j + 1 \in 1..n
    BY <1>5
  <2>3. t[i] = (IF i < p THEN s[i] ELSE s[i + 1]) /\ t[j] = (IF j < p THEN s[j] ELSE s[j + 1])
    BY <1>4
  <2>4. CASE i < p /\ j < p
    BY <2>1, <2>2, <2>3, <2>4
  <2>5. CASE i < p /\ ~(j < p)
    <3>1. s[i] = s[j + 1]
      BY <2>3, <2>5
    <3>2. i = j + 1
      BY <2>1, <2>2, <3>1
    <3>. QED BY <1>2, <2>2, <2>5, <3>2
  <2>6. CASE ~(i < p) /\ j < p
    <3>1. s[i + 1] = s[j]
      BY <2>3, <2>6
    <3>2. i + 1 = j
      BY <2>1, <2>2, <3>1
    <3>. QED BY <1>2, <2>2, <2>6, <3>2
  <2>7. CASE ~(i < p) /\ ~(j < p)
    <3>1. s[i + 1] = s[j + 1]
      BY <2>3, <2>7
    <3>2. i + 1 = j + 1
      BY <2>1, <2>2, <3>1
    <3>. QED BY <3>2
  <2>. QED BY <2>4, <2>5, <2>6, <2>7
<1>8. Keys(t) = Keys(s) \ {k}
  <2>1. \A x, y \in 1..n : s[x] = s[y] => x = y
    BY DEF Distinct
  <2>2. ASSUME NEW x \in Keys(t) PROVE x \in Keys(s) \ {k}
    <3>1. PICK j \in 1..(n - 1) : x = t[j]
      BY <1>6 DEF Keys
    <3>2. CASE j < p
      <4>1. x = s[j] /\ j \in 1..n /\ j # p
        BY <1>2, <1>4, <1>5, <3>1, <3>2
      <4>. QED BY <1>2, <2>1, <4>1 DEF Keys
    <3>3. CASE ~(j < p)
      <4>1. x = s[j + 1] /\ j + 1 \in 1..n /\ j + 1 # p
        BY <1>2, <1>4, <1>5, <3>1, <3>3
      <4>. QED BY <1>2, <2>1, <4>1 DEF Keys
    <3>. QED BY <3>2, <3>3
  <2>3. ASSUME NEW x \in Keys(s), x # k PROVE x \in Keys(t)
    <3>1. PICK i \in 1..n : x = s[i]
      BY DEF Keys
    <3>2. i # p
      BY <1>2, <2>3, <3>1
    <3>3. CASE i < p
      <4>1. i \in 1..(n - 1) /\ t[i] = x
        BY <1>1, <1>2, <1>4, <3>1, <3>3
      <4>. QED BY <1>6, <4>1 DEF Keys
    <3>4. CASE i > p
      <4>1. i - 1 \in 1..(n - 1) /\ ~(i - 1 < p) /\ (i - 1) + 1 = i
        BY <1>1, <1>2, <3>4
      <4>2. t[i - 1] = x
        BY <1>4, <3>1, <4>1
      <4>. QED BY <1>6, <4>1, <4>2 DEF Keys
    <3>. QED BY <1>2, <3>2, <3>3, <3>4
  <2>. QED BY <2>2, <2>3
<1>. QED BY <1>6, <1>7, <1>8 DEF t

\* A use reorders the list and changes nothing else about it.
LEMMA MoveToFrontFacts ==
  ASSUME NEW S, NEW s \in Seq(S), NEW k \in Keys(s), Distinct(s)
  PROVE  /\ MoveToFront(s, k) \in Seq(S)
         /\ Len(MoveToFront(s, k)) = Len(s)
         /\ Distinct(MoveToFront(s, k))
         /\ Keys(MoveToFront(s, k)) = Keys(s)
<1> DEFINE r == RemoveKey(s, k)
<1>1. r \in Seq(S) /\ Len(r) = Len(s) - 1 /\ Distinct(r) /\ Keys(r) = Keys(s) \ {k}
  BY RemoveKeyFacts
<1>2. k \in S /\ k \notin Keys(r)
  <2>1. \A i \in 1..Len(s) : s[i] \in S
    OBVIOUS
  <2>2. k \in S
    BY <2>1 DEF Keys
  <2>3. k \notin Keys(s) \ {k}
    OBVIOUS
  <2>. QED BY <1>1, <2>2, <2>3, Zenon
<1> HIDE DEF r
<1>3. /\ PushFront(r, k) \in Seq(S) /\ Len(PushFront(r, k)) = Len(r) + 1
      /\ Distinct(PushFront(r, k)) /\ Keys(PushFront(r, k)) = Keys(r) \cup {k}
  BY <1>1, <1>2, PushFrontFacts
<1>4. MoveToFront(s, k) = PushFront(r, k)
  BY DEF MoveToFront, r
<1>5. Len(s) \in Nat /\ (Len(s) - 1) + 1 = Len(s) /\ (Keys(s) \ {k}) \cup {k} = Keys(s)
  OBVIOUS
<1>. QED BY <1>1, <1>3, <1>4, <1>5, Zenon

\* Evicting from the back leaves a duplicate-free part of the list.
LEMMA KeepFrontFacts ==
  ASSUME NEW S, NEW s \in Seq(S), NEW n \in 0..Len(s), Distinct(s)
  PROVE  /\ KeepFront(s, n) \in Seq(S)
         /\ Len(KeepFront(s, n)) = n
         /\ Distinct(KeepFront(s, n))
         /\ Keys(KeepFront(s, n)) \subseteq Keys(s)
<1>1. n \in Nat /\ Len(s) \in Nat /\ \A i \in 1..n : i \in 1..Len(s) /\ s[i] \in S
  OBVIOUS
<1>2. KeepFront(s, n) = [i \in 1..n |-> s[i]]
  BY DEF KeepFront
<1>3. KeepFront(s, n) \in Seq(S) /\ Len(KeepFront(s, n)) = n
  BY <1>1, <1>2
<1>. QED BY <1>1, <1>2, <1>3 DEF Distinct, Keys

-----------------------------------------------------------------------------
(* The node level.                                                         *)

NodeTypes ==
  /\ nodeCache \in [DOMAIN nodeCache -> Nodes]
  /\ DOMAIN nodeCache \subseteq OIDs
  /\ nodeOrder \in Seq(OIDs)
  /\ currentNodeCount \in Nat

\* Inductive with its types.  The limit alone is not, because the loop that
\* enforces it stops early when the list is empty, so the count has to be the
\* list's length.
NodeInv == NodeTypes /\ NodeLevelConsistent

LEMMA NodeInvStep ==
  ASSUME NodeInv, [Next]_vars
  PROVE  NodeInv'
<1>1. /\ nodeCache \in [DOMAIN nodeCache -> Nodes] /\ DOMAIN nodeCache \subseteq OIDs
      /\ nodeOrder \in Seq(OIDs) /\ Len(nodeOrder) \in Nat
      /\ Distinct(nodeOrder) /\ Keys(nodeOrder) = DOMAIN nodeCache
      /\ currentNodeCount = Len(nodeOrder) /\ currentNodeCount <= maxNodes
  BY DEF NodeInv, NodeTypes, NodeLevelConsistent
<1>2. ASSUME UNCHANGED nodeVars
      PROVE  NodeInv'
  BY <1>2 DEF NodeInv, NodeTypes, NodeLevelConsistent, nodeVars
<1>3. ASSUME NEW oid \in OIDs, GetNode(oid) \/ PutNodeAgain(oid)
      PROVE  NodeInv'
  <2>1. /\ nodeOrder' = MoveToFront(nodeOrder, oid)
        /\ UNCHANGED <<nodeCache, currentNodeCount>>
        /\ oid \in Keys(nodeOrder)
    BY <1>1, <1>3 DEF GetNode, PutNodeAgain
  <2>2. /\ nodeOrder' \in Seq(OIDs) /\ Len(nodeOrder') = Len(nodeOrder)
        /\ Distinct(nodeOrder') /\ Keys(nodeOrder') = Keys(nodeOrder)
    BY <1>1, <2>1, MoveToFrontFacts
  <2>. QED
    BY <1>1, <2>1, <2>2 DEF NodeInv, NodeTypes, NodeLevelConsistent
<1>4. ASSUME NEW oid \in OIDs, NEW n \in Nodes, PutNodeNew(oid, n)
      PROVE  NodeInv'
  <2> DEFINE order == PushFront(nodeOrder, oid)
             left  == NodesLeft(currentNodeCount + 1, Len(order))
             all   == With(nodeCache, oid, n)
             kept  == KeepFront(order, left)
  <2>1. oid \notin Keys(nodeOrder)
    BY <1>1, <1>4 DEF PutNodeNew
  <2>2. /\ order \in Seq(OIDs) /\ Len(order) = Len(nodeOrder) + 1
        /\ Distinct(order) /\ Keys(order) = Keys(nodeOrder) \cup {oid}
    BY <1>1, <2>1, PushFrontFacts
  <2>3. /\ nodeOrder' = kept
        /\ nodeCache' = Only(all, Keys(kept))
        /\ currentNodeCount' = currentNodeCount + 1 - (Len(order) - left)
    BY <1>4 DEF PutNodeNew
  <2>4. DOMAIN all = Keys(order) /\ all \in [DOMAIN all -> Nodes]
    BY <1>1, <2>2 DEF With
  <2>5. left \in 0..Len(order) /\ left <= maxNodes
    BY <1>1, <2>2 DEF NodesLeft
  <2> HIDE DEF order, left, all
  <2>6. /\ kept \in Seq(OIDs) /\ Len(kept) = left
        /\ Distinct(kept) /\ Keys(kept) \subseteq Keys(order)
    BY <2>2, <2>5, KeepFrontFacts
  <2> HIDE DEF kept
  <2>7. currentNodeCount' = left
    BY <1>1, <2>2, <2>3, <2>5
  <2>8. DOMAIN nodeCache' = Keys(kept) /\ nodeCache' \in [DOMAIN nodeCache' -> Nodes]
    BY <2>3, <2>4, <2>6 DEF Only
  <2>9. Keys(kept) \subseteq OIDs
    BY <1>1, <2>2, <2>6
  <2>. QED
    BY <2>3, <2>5, <2>6, <2>7, <2>8, <2>9
    DEF NodeInv, NodeTypes, NodeLevelConsistent
<1>5. ASSUME NEW oid \in OIDs, InvalidateNode(oid)
      PROVE  NodeInv'
  <2>1. /\ nodeOrder' = RemoveKey(nodeOrder, oid)
        /\ nodeCache' = Only(nodeCache, DOMAIN nodeCache \ {oid})
        /\ currentNodeCount' = currentNodeCount - 1
        /\ oid \in Keys(nodeOrder)
    BY <1>1, <1>5 DEF InvalidateNode
  <2>2. /\ nodeOrder' \in Seq(OIDs) /\ Len(nodeOrder') = Len(nodeOrder) - 1
        /\ Distinct(nodeOrder') /\ Keys(nodeOrder') = Keys(nodeOrder) \ {oid}
    BY <1>1, <2>1, RemoveKeyFacts
  <2>3. Len(nodeOrder') \in Nat /\ currentNodeCount' = Len(nodeOrder')
        /\ currentNodeCount' <= maxNodes
    BY <1>1, <2>1, <2>2
  <2>4. DOMAIN nodeCache' = DOMAIN nodeCache \ {oid}
        /\ nodeCache' \in [DOMAIN nodeCache' -> Nodes]
    BY <1>1, <2>1 DEF Only
  <2>. QED
    BY <1>1, <2>1, <2>2, <2>3, <2>4
    DEF NodeInv, NodeTypes, NodeLevelConsistent
<1>6. ASSUME ClearNodeCache \/ Clear
      PROVE  NodeInv'
  <2>1. nodeCache' = Empty /\ nodeOrder' = <<>> /\ currentNodeCount' = 0
    BY <1>6 DEF ClearNodeCache, Clear
  <2>2. DOMAIN nodeCache' = {} /\ nodeCache' \in [DOMAIN nodeCache' -> Nodes]
    BY <2>1 DEF Empty
  <2>3. nodeOrder' \in Seq(OIDs) /\ Len(nodeOrder') = 0
    BY <2>1
  <2>4. Distinct(nodeOrder') /\ Keys(nodeOrder') = {}
    BY <2>3 DEF Distinct, Keys
  <2>. QED
    BY <2>1, <2>2, <2>3, <2>4
    DEF NodeInv, NodeTypes, NodeLevelConsistent
<1>. QED
  BY <1>2, <1>3, <1>4, <1>5, <1>6
  DEF Next, PutNode, GetBlock, PutBlock, PutBlockAgain, PutBlockNew, InvalidateBlock,
      ClearBlockCache, vars, nodeVars

LEMMA NodeInvInit == Init => NodeInv
<1> SUFFICES ASSUME Init PROVE NodeInv
  OBVIOUS
<1>1. nodeCache = Empty /\ nodeOrder = <<>> /\ currentNodeCount = 0
  BY DEF Init
<1>2. DOMAIN nodeCache = {} /\ nodeCache \in [DOMAIN nodeCache -> Nodes]
  BY <1>1 DEF Empty
<1>3. nodeOrder \in Seq(OIDs) /\ Len(nodeOrder) = 0
  BY <1>1
<1>. QED
  BY <1>1, <1>2, <1>3
  DEF NodeInv, NodeTypes, NodeLevelConsistent, Distinct, Keys

\* The map and the LRU list of the node level always hold the same OIDs, each
\* once, and the counter is their number, which never exceeds maxNodes.
THEOREM NodeLevelStaysConsistent == Spec => []NodeLevelConsistent
<1>1. NodeInv /\ [Next]_vars => NodeInv'
  BY NodeInvStep
<1>2. NodeInv => NodeLevelConsistent
  BY DEF NodeInv
<1>. QED
  BY NodeInvInit, <1>1, <1>2, PTL DEF Spec

-----------------------------------------------------------------------------
(* The block level.                                                        *)

LEMMA MaxIn ==
  ASSUME NEW n \in Nat, NEW s \in SUBSET (0..n), s # {}
  PROVE  Max(s) \in s
<1> DEFINE Below == {n - x : x \in s}
<1>1. \A x \in s : n - x \in Nat
  OBVIOUS
<1>2. Below \subseteq Nat /\ Below # {}
  BY <1>1
<1>3. PICK m \in Below : \A x \in Below : m <= x
  <2> HIDE DEF Below
  <2>. QED
    BY <1>2, NatHasMin
<1>4. PICK x \in s : m = n - x
  BY <1>3
<1>5. \A y \in s : x >= y
  <2> SUFFICES ASSUME NEW y \in s PROVE x >= y
    OBVIOUS
  <2>1. n - y \in Below
    OBVIOUS
  <2>2. n - x <= n - y
    BY <1>3, <1>4, <2>1
  <2>. QED
    BY <2>2
<1>. QED
  BY <1>5 DEF Max

BlockTypes ==
  /\ blockCache \in [DOMAIN blockCache -> Blocks]
  /\ DOMAIN blockCache \subseteq BlockNums
  /\ blockOrder \in Seq(BlockNums)
  /\ currentBlockSize \in Nat

\* Inductive with its types: the counter is brought down by what the list's last
\* elements hold, so it has to be the sum over the list, and the list has to name
\* every cached block once.
BlockInv == BlockTypes /\ BlockLevelConsistent

\* The sum over the list is that over the map.
LEMMA SizeIsBytes ==
  ASSUME NEW order \in Seq(BlockNums), Distinct(order), NEW m, m \in [Keys(order) -> Blocks]
  PROVE  /\ Tail_(order, m, 1) = Bytes(m, Keys(order)) /\ Bytes(m, Keys(order)) \in Nat
         /\ LensKnown(m, order) /\ IsFiniteSet(Keys(order))
         /\ \A k \in Keys(order) : m[k].len \in Nat
<1>1. Len(order) \in Nat /\ \A i \in 1..Len(order) : order[i] \in Keys(order)
  BY DEF Keys
<1>2. \A k \in Keys(order) : m[k].len \in Nat
  OBVIOUS
<1>3. LensKnown(m, order)
  BY <1>1, <1>2 DEF LensKnown
<1>4. 0 \in 0..Len(order) /\ 0 + 1 = 1
  BY <1>1
<1>5. Keys(KeepFront(order, 0)) = {}
  BY DEF KeepFront, Keys
<1>6. IsFiniteSet(Keys(order))
  <2> DEFINE f == [i \in 1..Len(order) |-> order[i]]
  <2>1. IsFiniteSet(1..Len(order))
    BY <1>1, FS_Interval
  <2>2. f \in Surjection(1..Len(order), Keys(order))
    BY DEF Surjection, Keys
  <2>. QED
    BY <2>1, <2>2, FS_Surjection
<1>7. Bytes(m, {}) = 0 /\ Bytes(m, Keys(order)) \in Nat
  BY <1>2, <1>6, BytesSplit
<1>8. /\ Tail_(order, m, 1) \in Nat
      /\ Bytes(m, Keys(order)) = Bytes(m, Keys(KeepFront(order, 0))) + Tail_(order, m, 1)
  BY <1>3, <1>4, FrontAndTail
<1>9. Bytes(m, Keys(order)) = 0 + Tail_(order, m, 1)
  BY <1>5, <1>7, <1>8
<1>10. PICK t \in Nat : t = Tail_(order, m, 1)
  BY <1>8
<1>11. 0 + t = t
  OBVIOUS
<1>12. Tail_(order, m, 1) = Bytes(m, Keys(order))
  BY <1>9, <1>10, <1>11, Zenon
<1>. QED
  BY <1>2, <1>3, <1>6, <1>7, <1>12

LEMMA BlockInvInit == Init => BlockInv
<1> SUFFICES ASSUME Init PROVE BlockInv
  OBVIOUS
<1>1. blockCache = Empty /\ blockOrder = <<>> /\ currentBlockSize = 0
  BY DEF Init
<1>2. DOMAIN blockCache = {} /\ blockCache \in [DOMAIN blockCache -> Blocks]
  BY <1>1 DEF Empty
<1>3. blockOrder \in Seq(BlockNums) /\ Len(blockOrder) = 0
  BY <1>1
<1>4. Distinct(blockOrder) /\ Keys(blockOrder) = {}
  BY <1>3 DEF Distinct, Keys
<1>5. Tail_(blockOrder, blockCache, 1) = Bytes(blockCache, {})
  BY <1>2, <1>3, <1>4, SizeIsBytes
<1>6. Bytes(blockCache, {}) = 0
  <2>1. IsFiniteSet({}) /\ \A k \in {} : blockCache[k].len \in Nat
    BY FS_EmptySet
  <2>. QED
    BY <2>1, BytesSplit
<1>. QED
  BY <1>1, <1>2, <1>3, <1>4, <1>5, <1>6 DEF BlockInv, BlockTypes, BlockLevelConsistent

\* A new block is put in front, and the last ones leave until the rest fits.
LEMMA BlockPut ==
  ASSUME BlockInv, NEW b \in BlockNums, NEW data \in Blocks, PutBlockNew(b, data)
  PROVE  BlockInv'
<1> DEFINE order == PushFront(blockOrder, b)
           all   == With(blockCache, b, data)
           size  == currentBlockSize + data.len
           left  == BlocksLeft(order, all, size)
           kept  == KeepFront(order, left)
<1>1. /\ blockCache \in [DOMAIN blockCache -> Blocks] /\ DOMAIN blockCache \subseteq BlockNums
      /\ blockOrder \in Seq(BlockNums) /\ Distinct(blockOrder) /\ Keys(blockOrder) = DOMAIN blockCache
      /\ currentBlockSize = Tail_(blockOrder, blockCache, 1)
  BY DEF BlockInv, BlockTypes, BlockLevelConsistent
<1>2. /\ b \notin Keys(blockOrder)
      /\ blockOrder' = kept /\ blockCache' = Only(all, Keys(kept))
      /\ currentBlockSize' = size - Tail_(order, all, left + 1)
  BY <1>1 DEF PutBlockNew
<1>3. /\ order \in Seq(BlockNums) /\ Len(order) = Len(blockOrder) + 1
      /\ Distinct(order) /\ Keys(order) = Keys(blockOrder) \cup {b}
  BY <1>1, <1>2, PushFrontFacts
<1>4. /\ all \in [Keys(order) -> Blocks] /\ all[b] = data
      /\ \A k \in Keys(blockOrder) : all[k] = blockCache[k]
  BY <1>1, <1>2, <1>3 DEF With
<1>5. data.len \in Nat /\ Len(order) \in Nat
  BY <1>3
<1> HIDE DEF order, all
<1>6. currentBlockSize = Bytes(blockCache, Keys(blockOrder)) /\ currentBlockSize \in Nat
      /\ IsFiniteSet(Keys(blockOrder)) /\ \A k \in Keys(blockOrder) : blockCache[k].len \in Nat
  BY <1>1, SizeIsBytes
<1>7. /\ IsFiniteSet(Keys(order)) /\ LensKnown(all, order)
      /\ \A k \in Keys(order) : all[k].len \in Nat
      /\ Bytes(all, Keys(order)) \in Nat
  BY <1>3, <1>4, SizeIsBytes
<1>8. Bytes(all, Keys(order)) = size
  <2>1. Bytes(all, Keys(order)) = all[b].len + Bytes(all, Keys(order) \ {b})
    <3>1. \A x \in Keys(order) : Bytes(all, Keys(order)) = all[x].len + Bytes(all, Keys(order) \ {x})
      BY <1>7, BytesSplit
    <3>2. b \in Keys(order)
      BY <1>3
    <3>. QED
      BY <3>1, <3>2, Zenon
  <2>2. Keys(order) \ {b} = Keys(blockOrder)
    BY <1>2, <1>3
  <2>3. Bytes(all, Keys(blockOrder)) = Bytes(blockCache, Keys(blockOrder))
    <3>1. \A k \in Keys(blockOrder) : blockCache[k].len \in Nat /\ all[k].len = blockCache[k].len
      BY <1>4, <1>6
    <3>. QED
      BY <1>6, <3>1, BytesAgree
  <2>4. Bytes(all, Keys(order)) = data.len + currentBlockSize
    BY <1>4, <1>6, <2>1, <2>2, <2>3, Zenon
  <2>5. data.len + currentBlockSize = currentBlockSize + data.len
    BY <1>5, <1>6
  <2>. QED
    BY <2>4, <2>5, Zenon
<1>9. \A n \in 0..Len(order) :
        /\ Tail_(order, all, n + 1) \in Nat /\ Bytes(all, Keys(KeepFront(order, n))) \in Nat
        /\ size = Bytes(all, Keys(KeepFront(order, n))) + Tail_(order, all, n + 1)
  BY <1>3, <1>7, <1>8, FrontAndTail
<1>10. size \in Nat
  BY <1>7, <1>8
<1> HIDE DEF size
<1>11. left \in 0..Len(order) /\ size - Tail_(order, all, left + 1) <= maxBlockSize
  <2> DEFINE Fits == {n \in 0..Len(order) : size - Tail_(order, all, n + 1) <= maxBlockSize}
  <2>1. 0 \in Fits
    <3>1. 0 \in 0..Len(order) /\ KeepFront(order, 0) = <<>>
      BY <1>5 DEF KeepFront
    <3>2. Keys(KeepFront(order, 0)) = {}
      BY DEF KeepFront, Keys
    <3>3. Bytes(all, {}) = 0
      BY <1>7, BytesSplit
    <3>4. PICK t \in Nat : t = Tail_(order, all, 0 + 1)
      BY <1>9, <3>1
    <3>5. size = 0 + t
      BY <1>9, <3>1, <3>2, <3>3, <3>4
    <3>6. size - t <= maxBlockSize
      BY <3>5
    <3>. QED
      BY <3>1, <3>4, <3>6
  <2>2. left = Max({0} \cup Fits)
    BY DEF BlocksLeft
  <2>3. Fits \in SUBSET (0..Len(order)) /\ {0} \cup Fits = Fits /\ Fits # {}
    BY <2>1
  <2>4. Max(Fits) \in Fits
    <3> HIDE DEF Fits
    <3>. QED
      BY <1>5, <2>3, MaxIn
  <2>5. left \in Fits
    BY <2>2, <2>3, <2>4
  <2>. QED
    BY <2>5
<1> HIDE DEF left
<1>12. /\ kept \in Seq(BlockNums) /\ Len(kept) = left
       /\ Distinct(kept) /\ Keys(kept) \subseteq Keys(order)
  BY <1>3, <1>11, KeepFrontFacts
<1>13. currentBlockSize' = Bytes(all, Keys(kept)) /\ currentBlockSize' \in Nat /\ currentBlockSize' <= maxBlockSize
  <2>1. /\ Tail_(order, all, left + 1) \in Nat /\ Bytes(all, Keys(kept)) \in Nat
        /\ size = Bytes(all, Keys(kept)) + Tail_(order, all, left + 1)
    BY <1>9, <1>11
  <2>2. PICK t \in Nat, f \in Nat : t = Tail_(order, all, left + 1) /\ f = Bytes(all, Keys(kept))
    BY <2>1
  <2>3. size = f + t /\ size - t = f
    BY <2>1, <2>2
  <2>. QED
    BY <1>2, <1>11, <2>2, <2>3
<1> HIDE DEF kept
<1>14. /\ DOMAIN blockCache' = Keys(kept) /\ blockCache' \in [Keys(kept) -> Blocks]
       /\ \A k \in Keys(kept) : blockCache'[k] = all[k]
  BY <1>2, <1>4, <1>12 DEF Only
<1>15. Tail_(kept, blockCache', 1) = Bytes(blockCache', Keys(kept)) /\ IsFiniteSet(Keys(kept))
  BY <1>12, <1>14, SizeIsBytes
<1>16. Bytes(blockCache', Keys(kept)) = Bytes(all, Keys(kept))
  <2>1. \A k \in Keys(kept) : all[k].len \in Nat /\ blockCache'[k].len = all[k].len
    BY <1>7, <1>12, <1>14
  <2>. QED
    BY <1>15, <2>1, BytesAgree
<1>17. Keys(kept) \subseteq BlockNums
  BY <1>1, <1>3, <1>12
<1>18. blockOrder' = kept /\ Tail_(blockOrder', blockCache', 1) = currentBlockSize'
  BY <1>2, <1>13, <1>15, <1>16
<1>. QED
  BY <1>12, <1>13, <1>14, <1>17, <1>18
  DEF BlockInv, BlockTypes, BlockLevelConsistent

LEMMA BlockInvStep ==
  ASSUME BlockInv, [Next]_vars
  PROVE  BlockInv'
<1>1. /\ blockCache \in [DOMAIN blockCache -> Blocks] /\ DOMAIN blockCache \subseteq BlockNums
      /\ blockOrder \in Seq(BlockNums) /\ Distinct(blockOrder) /\ Keys(blockOrder) = DOMAIN blockCache
      /\ currentBlockSize = Tail_(blockOrder, blockCache, 1)
      /\ currentBlockSize \in Nat /\ currentBlockSize <= maxBlockSize
  BY DEF BlockInv, BlockTypes, BlockLevelConsistent
<1>2. ASSUME UNCHANGED blockVars
      PROVE  BlockInv'
  <2>1. /\ blockCache' = blockCache /\ blockOrder' = blockOrder
        /\ currentBlockSize' = currentBlockSize
    BY <1>2 DEF blockVars
  <2>2. Tail_(blockOrder', blockCache', 1) = Tail_(blockOrder, blockCache, 1)
    BY <2>1, Zenon
  <2>. QED
    BY <1>1, <2>1, <2>2 DEF BlockInv, BlockTypes, BlockLevelConsistent
<1>3. ASSUME NEW b \in BlockNums, GetBlock(b) \/ PutBlockAgain(b)
      PROVE  BlockInv'
  <2>1. /\ blockOrder' = MoveToFront(blockOrder, b)
        /\ UNCHANGED <<blockCache, currentBlockSize>>
        /\ b \in Keys(blockOrder)
    BY <1>1, <1>3 DEF GetBlock, PutBlockAgain
  <2>2. /\ blockOrder' \in Seq(BlockNums) /\ Distinct(blockOrder') /\ Keys(blockOrder') = Keys(blockOrder)
    BY <1>1, <2>1, MoveToFrontFacts
  <2>3. blockCache \in [Keys(blockOrder) -> Blocks] /\ blockCache \in [Keys(blockOrder') -> Blocks]
    BY <1>1, <2>2
  <2>4. Tail_(blockOrder', blockCache, 1) = Bytes(blockCache, Keys(blockOrder'))
    BY <2>2, <2>3, SizeIsBytes
  <2>5. currentBlockSize = Bytes(blockCache, Keys(blockOrder))
    BY <1>1, <2>3, SizeIsBytes
  <2>6. Tail_(blockOrder', blockCache', 1) = currentBlockSize'
    BY <2>1, <2>2, <2>4, <2>5
  <2>. QED
    BY <1>1, <2>1, <2>2, <2>6 DEF BlockInv, BlockTypes, BlockLevelConsistent
<1>4. ASSUME NEW b \in BlockNums, NEW data \in Blocks, PutBlockNew(b, data)
      PROVE  BlockInv'
  BY <1>4, BlockPut
<1>5. ASSUME NEW b \in BlockNums, InvalidateBlock(b)
      PROVE  BlockInv'
  <2> DEFINE rest == Keys(blockOrder) \ {b}
  <2>1. /\ blockOrder' = RemoveKey(blockOrder, b)
        /\ blockCache' = Only(blockCache, DOMAIN blockCache \ {b})
        /\ currentBlockSize' = currentBlockSize - blockCache[b].len
        /\ b \in Keys(blockOrder)
    BY <1>1, <1>5 DEF InvalidateBlock
  <2>2. /\ blockOrder' \in Seq(BlockNums) /\ Distinct(blockOrder') /\ Keys(blockOrder') = rest
    BY <1>1, <2>1, RemoveKeyFacts
  <2>3. /\ DOMAIN blockCache' = rest /\ blockCache' \in [rest -> Blocks]
        /\ \A k \in rest : blockCache'[k] = blockCache[k]
    BY <1>1, <2>1 DEF Only
  <2>4. Tail_(blockOrder', blockCache', 1) = Bytes(blockCache', rest) /\ IsFiniteSet(rest)
    BY <2>2, <2>3, SizeIsBytes
  <2>5. /\ currentBlockSize = Bytes(blockCache, Keys(blockOrder)) /\ IsFiniteSet(Keys(blockOrder))
        /\ \A k \in Keys(blockOrder) : blockCache[k].len \in Nat
    BY <1>1, SizeIsBytes
  <2>6. Bytes(blockCache', rest) = Bytes(blockCache, rest) /\ Bytes(blockCache, rest) \in Nat
    <3>1. \A k \in rest : blockCache[k].len \in Nat /\ blockCache'[k].len = blockCache[k].len
      BY <2>3, <2>5
    <3>2. Bytes(blockCache', rest) = Bytes(blockCache, rest)
      BY <2>4, <3>1, BytesAgree
    <3>3. Bytes(blockCache, rest) \in Nat
      BY <2>4, <3>1, BytesSplit
    <3>. QED
      BY <3>2, <3>3
  <2>7. Bytes(blockCache, Keys(blockOrder)) = blockCache[b].len + Bytes(blockCache, rest)
    BY <2>1, <2>5, BytesSplit
  <2>8. PICK l \in Nat, r \in Nat : l = blockCache[b].len /\ r = Bytes(blockCache, rest)
    BY <2>1, <2>5, <2>6
  <2> HIDE DEF rest
  <2>9. currentBlockSize = l + r
    BY <2>5, <2>7, <2>8, Zenon
  <2>10. currentBlockSize' = r /\ r <= maxBlockSize
    BY <1>1, <2>1, <2>8, <2>9
  <2>11. Tail_(blockOrder', blockCache', 1) = currentBlockSize'
    BY <2>4, <2>6, <2>8, <2>10, Zenon
  <2>12. rest \subseteq BlockNums
    BY <1>1 DEF rest
  <2>. QED
    BY <2>2, <2>3, <2>8, <2>10, <2>11, <2>12 DEF BlockInv, BlockTypes, BlockLevelConsistent
<1>6. ASSUME ClearBlockCache \/ Clear
      PROVE  BlockInv'
  <2>1. blockCache' = Empty /\ blockOrder' = <<>> /\ currentBlockSize' = 0
    BY <1>6 DEF ClearBlockCache, Clear
  <2>2. DOMAIN blockCache' = {} /\ blockCache' \in [DOMAIN blockCache' -> Blocks]
    BY <2>1 DEF Empty
  <2>3. blockOrder' \in Seq(BlockNums) /\ Len(blockOrder') = 0
    BY <2>1
  <2>4. Distinct(blockOrder') /\ Keys(blockOrder') = {}
    BY <2>3 DEF Distinct, Keys
  <2>5. Tail_(blockOrder', blockCache', 1) = Bytes(blockCache', {})
    BY <2>2, <2>3, <2>4, SizeIsBytes
  <2>6. Bytes(blockCache', {}) = 0
    <3>1. IsFiniteSet({}) /\ \A k \in {} : blockCache'[k].len \in Nat
      BY FS_EmptySet
    <3>. QED
      BY <3>1, BytesSplit
  <2>. QED
    BY <2>1, <2>2, <2>3, <2>4, <2>5, <2>6
    DEF BlockInv, BlockTypes, BlockLevelConsistent
<1>. QED
  BY <1>2, <1>3, <1>4, <1>5, <1>6
  DEF Next, PutBlock, GetNode, PutNode, PutNodeAgain, PutNodeNew, InvalidateNode,
      ClearNodeCache, vars, blockVars

\* The map and the LRU list of the block level always hold the same blocks, each
\* once; the counter is the sum of their lengths and never exceeds maxBlockSize,
\* whatever the lengths of the blocks that are put.
THEOREM BlockLevelStaysConsistent == Spec => []BlockLevelConsistent
<1>1. BlockInv /\ [Next]_vars => BlockInv'
  BY BlockInvStep
<1>2. BlockInv => BlockLevelConsistent
  BY DEF BlockInv
<1>. QED
  BY BlockInvInit, <1>1, <1>2, PTL DEF Spec

-----------------------------------------------------------------------------
(* Which OIDs stay cached.                                                 *)

\* The keys used after o's last use, as the list has them.
Ahead(s, o) == {x \in Keys(s) : \E i, j \in 1..Len(s) : i < j /\ s[i] = x /\ s[j] = o}

LEMMA AheadOfPush ==
  ASSUME NEW S, NEW s \in Seq(S), NEW k \in S, Distinct(s), k \notin Keys(s)
  PROVE  /\ Ahead(PushFront(s, k), k) = {}
         /\ \A o \in Keys(s) : Ahead(PushFront(s, k), o) \subseteq Ahead(s, o) \cup {k}
<1> DEFINE t == PushFront(s, k)
<1>1. Len(s) \in Nat /\ t \in Seq(S) /\ Len(t) = Len(s) + 1 /\ Distinct(t) /\ Keys(t) = Keys(s) \cup {k}
  BY PushFrontFacts
<1>2. t[1] = k /\ \A i \in 2..(Len(s) + 1) : i - 1 \in 1..Len(s) /\ t[i] = s[i - 1]
  BY <1>1 DEF PushFront
<1> HIDE DEF t
<1>3. ASSUME NEW x \in Ahead(t, k) PROVE FALSE
  <2>1. PICK i \in 1..Len(t), j \in 1..Len(t) : i < j /\ t[i] = x /\ t[j] = k
    BY <1>3 DEF Ahead
  <2>2. 1 \in 1..Len(t)
    BY <1>1
  <2>3. j = 1
    BY <1>1, <1>2, <2>1, <2>2 DEF Distinct
  <2>. QED
    BY <1>1, <2>1, <2>3
<1>4. ASSUME NEW o \in Keys(s), NEW x \in Ahead(t, o), x # k
      PROVE  x \in Ahead(s, o)
  <2>1. PICK i \in 1..Len(t), j \in 1..Len(t) : i < j /\ t[i] = x /\ t[j] = o
    BY <1>4 DEF Ahead
  <2>2. i # 1
    BY <1>2, <1>4, <2>1
  <2>3. i \in 2..(Len(s) + 1) /\ j \in 2..(Len(s) + 1)
    BY <1>1, <2>1, <2>2
  <2>4. /\ i - 1 \in 1..Len(s) /\ j - 1 \in 1..Len(s)
        /\ s[i - 1] = x /\ s[j - 1] = o
    BY <1>2, <2>1, <2>3
  <2>5. i - 1 < j - 1
    BY <2>1
  <2>. QED
    BY <2>4, <2>5 DEF Ahead, Keys
<1>5. Ahead(t, k) = {}
  BY <1>3
<1>6. \A o \in Keys(s) : Ahead(t, o) \subseteq Ahead(s, o) \cup {k}
  BY <1>4
<1>. QED
  BY <1>5, <1>6 DEF t

LEMMA AheadOfRemove ==
  ASSUME NEW S, NEW s \in Seq(S), NEW k \in Keys(s), Distinct(s)
  PROVE  \A o : Ahead(RemoveKey(s, k), o) \subseteq Ahead(s, o)
<1> DEFINE n == Len(s)
           p == CHOOSE i \in 1..Len(s) : s[i] = k
           t == RemoveKey(s, k)
           At(j) == IF j < p THEN j ELSE j + 1
<1>1. n \in Nat /\ Len(t) = n - 1
  BY RemoveKeyFacts
<1>2. p \in 1..n /\ s[p] = k
  BY DEF Keys
<1>3. \A j \in 1..(n - 1) : t[j] = IF j < p THEN s[j] ELSE s[j + 1]
  BY DEF RemoveKey, Unlink
<1> HIDE DEF p, t
<1>4. \A j \in 1..(n - 1) : At(j) \in 1..n /\ t[j] = s[At(j)]
  BY <1>1, <1>2, <1>3
<1>5. \A i, j \in 1..(n - 1) : i < j => At(i) < At(j)
  BY <1>1, <1>2
<1> HIDE DEF At, n
<1>6. ASSUME NEW o, NEW x \in Ahead(t, o) PROVE x \in Ahead(s, o)
  <2>1. PICK i \in 1..(n - 1), j \in 1..(n - 1) : i < j /\ t[i] = x /\ t[j] = o
    BY <1>1, <1>6 DEF Ahead
  <2>2. At(i) \in 1..n /\ At(j) \in 1..n /\ At(i) < At(j) /\ s[At(i)] = x /\ s[At(j)] = o
    BY <1>4, <1>5, <2>1
  <2>. QED
    BY <2>2 DEF Ahead, Keys, n
<1>. QED
  BY <1>6 DEF t

LEMMA AheadOfMove ==
  ASSUME NEW S, NEW s \in Seq(S), NEW k \in Keys(s), Distinct(s)
  PROVE  /\ Ahead(MoveToFront(s, k), k) = {}
         /\ \A o \in Keys(s) : o # k => Ahead(MoveToFront(s, k), o) \subseteq Ahead(s, o) \cup {k}
<1> DEFINE r == RemoveKey(s, k)
<1>1. r \in Seq(S) /\ Distinct(r) /\ Keys(r) = Keys(s) \ {k}
  BY RemoveKeyFacts
<1>2. k \in S
  <2>1. \A i \in 1..Len(s) : s[i] \in S
    OBVIOUS
  <2>. QED
    BY <2>1 DEF Keys
<1>3. \A o : Ahead(r, o) \subseteq Ahead(s, o)
  BY AheadOfRemove
<1>4. MoveToFront(s, k) = PushFront(r, k)
  BY DEF MoveToFront
<1> HIDE DEF r
<1>5. k \notin Keys(r)
  BY <1>1
<1>6. /\ Ahead(PushFront(r, k), k) = {}
      /\ \A o \in Keys(r) : Ahead(PushFront(r, k), o) \subseteq Ahead(r, o) \cup {k}
  BY <1>1, <1>2, <1>5, AheadOfPush
<1>. QED
  BY <1>1, <1>3, <1>4, <1>6

\* What is kept is ahead of what is evicted, and as many keys as places.
LEMMA KeptIsAhead ==
  ASSUME NEW S, NEW s \in Seq(S), NEW n \in 0..Len(s), Distinct(s)
  PROVE  /\ \A o : Ahead(KeepFront(s, n), o) \subseteq Ahead(s, o)
         /\ \A o \in Keys(s) : o \notin Keys(KeepFront(s, n)) => Keys(KeepFront(s, n)) \subseteq Ahead(s, o)
         /\ IsFiniteSet(Keys(KeepFront(s, n))) /\ Cardinality(Keys(KeepFront(s, n))) = n
<1> DEFINE t == KeepFront(s, n)
<1>1. n \in Nat /\ Len(s) \in Nat /\ \A i \in 1..n : i \in 1..Len(s)
  OBVIOUS
<1>2. Len(t) = n /\ \A i \in 1..n : t[i] = s[i]
  BY <1>1 DEF KeepFront
<1> HIDE DEF t
<1>3. ASSUME NEW o, NEW x \in Ahead(t, o) PROVE x \in Ahead(s, o)
  <2>1. PICK i \in 1..n, j \in 1..n : i < j /\ t[i] = x /\ t[j] = o
    BY <1>2, <1>3 DEF Ahead
  <2>. QED
    BY <1>1, <1>2, <2>1 DEF Ahead, Keys
<1>4. ASSUME NEW o \in Keys(s), o \notin Keys(t), NEW x \in Keys(t)
      PROVE  x \in Ahead(s, o)
  <2>1. PICK i \in 1..n : t[i] = x
    BY <1>2 DEF Keys
  <2>2. PICK j \in 1..Len(s) : s[j] = o
    BY DEF Keys
  <2>3. ~(j \in 1..n)
    BY <1>2, <1>4, <2>2 DEF Keys
  <2>4. i < j
    BY <1>1, <2>3
  <2>. QED
    BY <1>1, <1>2, <2>1, <2>2, <2>4 DEF Ahead, Keys
<1>5. IsFiniteSet(Keys(t)) /\ Cardinality(Keys(t)) = n
  <2> DEFINE f == [i \in 1..n |-> s[i]]
  <2>1. Keys(t) = {s[i] : i \in 1..n}
    BY <1>2 DEF Keys
  <2>2. \A i, j \in 1..n : s[i] = s[j] => i = j
    BY <1>1 DEF Distinct
  <2>3. f \in Bijection(1..n, Keys(t))
    BY <2>1, <2>2 DEF Bijection, Injection, Surjection, IsInjective
  <2>4. ExistsBijection(1..n, Keys(t))
    BY <2>3 DEF ExistsBijection
  <2>. QED
    BY <1>1, <2>4, FS_CountingElements, FS_NatBijection
<1>6. \A o : Ahead(t, o) \subseteq Ahead(s, o)
  BY <1>3
<1>7. \A o \in Keys(s) : o \notin Keys(t) => Keys(t) \subseteq Ahead(s, o)
  BY <1>4
<1>. QED
  BY <1>5, <1>6, <1>7, Zenon DEF t

\* The list knows no more than the history: whatever is ahead of an OID was used
\* since, and an OID is evicted by as many others as there are places.
UseOf(o, u, order) ==
  /\ IsFiniteSet(u)
  /\ o \in Keys(order) => Ahead(order, o) \subseteq u
  /\ o \notin Keys(order) => Cardinality(u) >= maxNodes

UseInv ==
  /\ DOMAIN since = OIDs
  /\ \A o \in OIDs : since[o] # Gone => UseOf(o, since[o], nodeOrder)

\* More uses of other OIDs.
LEMMA MoreUses ==
  ASSUME NEW u, NEW k, IsFiniteSet(u)
  PROVE  /\ IsFiniteSet(u \cup {k}) /\ Cardinality(u \cup {k}) \in Nat
         /\ Cardinality(u) >= maxNodes => Cardinality(u \cup {k}) >= maxNodes
<1>1. IsFiniteSet(u \cup {k})
  BY FS_AddElement
<1>2. Cardinality(u) <= Cardinality(u \cup {k})
  BY <1>1, FS_Subset
<1>3. Cardinality(u) \in Nat /\ Cardinality(u \cup {k}) \in Nat
  BY <1>1, FS_CardinalityType
<1>. QED
  BY <1>1, <1>2, <1>3

\* A use of an OID, of which the list takes note by order.
LEMMA UseTouch ==
  ASSUME NEW oid \in OIDs, UseInv, Touch(oid), NEW order,
         oid \in Keys(order), Ahead(order, oid) = {},
         \A o \in OIDs : \A u : o # oid /\ UseOf(o, u, nodeOrder) => UseOf(o, u \cup {oid}, order)
  PROVE  /\ DOMAIN since' = OIDs
         /\ \A o \in OIDs : since'[o] # Gone => UseOf(o, since'[o], order)
<1>1. since' = [o \in OIDs |-> IF o = oid THEN {} ELSE IF since[o] = Gone THEN Gone ELSE since[o] \cup {oid}]
  BY DEF Touch
<1>2. DOMAIN since' = OIDs /\ since'[oid] = {}
  BY <1>1
<1>3. UseOf(oid, {}, order)
  BY FS_EmptySet DEF UseOf
<1>4. ASSUME NEW o \in OIDs, o # oid, since'[o] # Gone
      PROVE  UseOf(o, since'[o], order)
  <2>1. since[o] # Gone /\ since'[o] = since[o] \cup {oid}
    BY <1>1, <1>4
  <2>2. UseOf(o, since[o], nodeOrder)
    BY <2>1 DEF UseInv
  <2>. QED
    BY <1>4, <2>1, <2>2, Zenon
<1>. QED
  BY <1>2, <1>3, <1>4

LEMMA UseAgain ==
  ASSUME NodeInv, UseInv, NEW oid \in OIDs, GetNode(oid) \/ PutNodeAgain(oid), Touch(oid)
  PROVE  UseInv'
<1> DEFINE order == MoveToFront(nodeOrder, oid)
<1>1. /\ nodeOrder \in Seq(OIDs) /\ Distinct(nodeOrder) /\ oid \in Keys(nodeOrder)
      /\ nodeOrder' = order
  BY DEF NodeInv, NodeTypes, NodeLevelConsistent, GetNode, PutNodeAgain
<1>2. /\ Keys(order) = Keys(nodeOrder) /\ Ahead(order, oid) = {}
      /\ \A o \in Keys(nodeOrder) : o # oid => Ahead(order, o) \subseteq Ahead(nodeOrder, o) \cup {oid}
  BY <1>1, MoveToFrontFacts, AheadOfMove
<1> HIDE DEF order
<1>3. ASSUME NEW o \in OIDs, NEW u, o # oid, UseOf(o, u, nodeOrder)
      PROVE  UseOf(o, u \cup {oid}, order)
  BY <1>2, <1>3, MoreUses DEF UseOf
<1>4. /\ DOMAIN since' = OIDs
      /\ \A o \in OIDs : since'[o] # Gone => UseOf(o, since'[o], order)
  BY <1>1, <1>2, <1>3, UseTouch
<1>. QED
  BY <1>1, <1>4 DEF UseInv, UseOf

\* The new OID is in front; only when all places are taken is another evicted.
LEMMA UseNew ==
  ASSUME NodeInv, UseInv, NEW oid \in OIDs, NEW node \in Nodes, PutNodeNew(oid, node), Touch(oid)
  PROVE  UseInv'
<1> DEFINE order == PushFront(nodeOrder, oid)
           left  == NodesLeft(currentNodeCount + 1, Len(order))
           kept  == KeepFront(order, left)
<1>1. /\ nodeOrder \in Seq(OIDs) /\ Distinct(nodeOrder) /\ oid \notin Keys(nodeOrder)
      /\ Len(nodeOrder) \in Nat /\ currentNodeCount = Len(nodeOrder)
      /\ nodeOrder' = kept
  BY DEF NodeInv, NodeTypes, NodeLevelConsistent, PutNodeNew
<1>2. /\ order \in Seq(OIDs) /\ Len(order) = Len(nodeOrder) + 1 /\ order[1] = oid
      /\ Distinct(order) /\ Keys(order) = Keys(nodeOrder) \cup {oid}
  BY <1>1, PushFrontFacts DEF PushFront
<1>3. /\ Ahead(order, oid) = {}
      /\ \A o \in Keys(nodeOrder) : Ahead(order, o) \subseteq Ahead(nodeOrder, o) \cup {oid}
  BY <1>1, AheadOfPush
<1>4. /\ left \in 0..Len(order) /\ left >= 1 /\ left \in Nat
      /\ left # Len(order) => left = maxNodes
  BY <1>1, <1>2 DEF NodesLeft
<1> HIDE DEF order, left
<1>5. /\ \A o : Ahead(kept, o) \subseteq Ahead(order, o)
      /\ \A o \in Keys(order) : o \notin Keys(kept) => Keys(kept) \subseteq Ahead(order, o)
      /\ IsFiniteSet(Keys(kept)) /\ Cardinality(Keys(kept)) = left
  BY <1>2, <1>4, KeptIsAhead
<1>6. Keys(kept) \subseteq Keys(order) /\ Len(kept) = left
  BY <1>2, <1>4, KeepFrontFacts
<1>7. oid \in Keys(kept) /\ Ahead(kept, oid) = {}
  <2>1. 1 \in 1..left /\ kept[1] = oid
    BY <1>2, <1>4 DEF KeepFront
  <2>. QED
    BY <1>3, <1>5, <1>6, <2>1 DEF Keys
<1>8. left = Len(order) => Keys(kept) = Keys(order)
  BY <1>4, <1>6 DEF KeepFront, Keys
<1> HIDE DEF kept
<1>9. ASSUME NEW o \in OIDs, NEW u, o # oid, UseOf(o, u, nodeOrder)
      PROVE  UseOf(o, u \cup {oid}, kept)
  <2>1. IsFiniteSet(u \cup {oid}) /\ Cardinality(u \cup {oid}) \in Nat
    BY <1>9, MoreUses DEF UseOf
  <2>2. CASE o \notin Keys(nodeOrder)
    <3>1. Cardinality(u \cup {oid}) >= maxNodes
      BY <1>9, <2>2, MoreUses DEF UseOf
    <3>2. o \notin Keys(kept)
      BY <1>2, <1>6, <1>9, <2>2
    <3>. QED
      BY <2>1, <3>1, <3>2 DEF UseOf
  <2>3. CASE o \in Keys(nodeOrder)
    <3>1. Ahead(order, o) \subseteq u \cup {oid}
      BY <1>3, <1>9, <2>3 DEF UseOf
    <3>2. CASE o \in Keys(kept)
      BY <1>5, <2>1, <3>1, <3>2 DEF UseOf
    <3>3. CASE o \notin Keys(kept)
      <4>1. Keys(kept) \subseteq u \cup {oid} /\ left = maxNodes
        BY <1>2, <1>4, <1>5, <1>8, <2>3, <3>1, <3>3
      <4>2. Cardinality(Keys(kept)) <= Cardinality(u \cup {oid})
        BY <2>1, <4>1, FS_Subset
      <4>3. Cardinality(u \cup {oid}) >= maxNodes
        BY <1>5, <2>1, <4>1, <4>2
      <4>. QED
        BY <2>1, <3>3, <4>3 DEF UseOf
    <3>. QED
      BY <3>2, <3>3
  <2>. QED
    BY <2>2, <2>3
<1>10. /\ DOMAIN since' = OIDs
       /\ \A o \in OIDs : since'[o] # Gone => UseOf(o, since'[o], kept)
  BY <1>7, <1>9, UseTouch
<1>. QED
  BY <1>1, <1>10 DEF UseInv, UseOf

LEMMA UseInvStep ==
  ASSUME NodeInv, UseInv, [HNext]_<<vars, since>>
  PROVE  UseInv'
<1>1. /\ nodeOrder \in Seq(OIDs) /\ Distinct(nodeOrder) /\ Keys(nodeOrder) = DOMAIN nodeCache
  BY DEF NodeInv, NodeTypes, NodeLevelConsistent
<1>2. ASSUME NEW oid \in OIDs, NEW n \in Nodes, PutNode(oid, n), Touch(oid)
      PROVE  UseInv'
  BY <1>2, UseAgain, UseNew DEF PutNode
<1>3. ASSUME NEW oid \in OIDs, InvalidateNode(oid), since' = [since EXCEPT ![oid] = Gone]
      PROVE  UseInv'
  <2>1. nodeOrder' = RemoveKey(nodeOrder, oid) /\ oid \in Keys(nodeOrder)
    BY <1>1, <1>3 DEF InvalidateNode
  <2>2. /\ Keys(nodeOrder') = Keys(nodeOrder) \ {oid}
        /\ \A o : Ahead(nodeOrder', o) \subseteq Ahead(nodeOrder, o)
    BY <1>1, <2>1, RemoveKeyFacts, AheadOfRemove
  <2>3. DOMAIN since' = OIDs
    BY <1>3 DEF UseInv
  <2>4. ASSUME NEW o \in OIDs, since'[o] # Gone
        PROVE  UseOf(o, since'[o], nodeOrder')
    <3>1. o # oid /\ since'[o] = since[o]
      BY <1>3, <2>4 DEF UseInv
    <3>2. UseOf(o, since[o], nodeOrder)
      BY <2>4, <3>1 DEF UseInv
    <3>. QED
      BY <2>2, <3>1, <3>2 DEF UseOf
  <2>. QED
    BY <2>3, <2>4 DEF UseInv, UseOf
<1>4. ASSUME since' = [o \in OIDs |-> Gone]
      PROVE  UseInv'
  BY <1>4 DEF UseInv
<1>5. ASSUME UNCHANGED <<nodeOrder, since>>
      PROVE  UseInv'
  BY <1>5 DEF UseInv, UseOf
<1>6. ASSUME NEW b \in BlockNums, NEW d \in Blocks, GetBlock(b) \/ InvalidateBlock(b) \/ PutBlock(b, d)
      PROVE  UNCHANGED nodeOrder
  BY <1>6 DEF GetBlock, InvalidateBlock, PutBlock, PutBlockAgain, PutBlockNew, nodeVars
<1>7. ASSUME ClearBlockCache PROVE UNCHANGED nodeOrder
  BY <1>7 DEF ClearBlockCache, nodeVars
<1>8. ASSUME NEW b \in BlockNums, GetBlock(b) \/ InvalidateBlock(b)
      PROVE  UNCHANGED nodeOrder
  BY <1>8 DEF GetBlock, InvalidateBlock, nodeVars
<1>. QED
  BY <1>2, <1>3, <1>4, <1>5, <1>6, <1>7, <1>8, UseAgain DEF HNext, vars

\* With any number of places, in any sequence of uses: a node stays cached as long
\* as fewer other OIDs have been used since than there are places.
THEOREM RecentlyUsedStay == HSpec => []WorkingSetStays
<1>1. HInit => NodeInv /\ UseInv
  BY NodeInvInit DEF HInit, UseInv
<1>2. [HNext]_<<vars, since>> => [Next]_vars
  BY DEF HNext, Next, vars
<1>3. NodeInv /\ [HNext]_<<vars, since>> => NodeInv'
  BY <1>2, NodeInvStep
<1>4. NodeInv /\ UseInv => WorkingSetStays
  <2> SUFFICES ASSUME NodeInv, UseInv, NEW o \in OIDs, since[o] # Gone, Cardinality(since[o]) < maxNodes
               PROVE  o \in DOMAIN nodeCache
    BY DEF WorkingSetStays
  <2>1. UseOf(o, since[o], nodeOrder) /\ Keys(nodeOrder) = DOMAIN nodeCache
    BY DEF UseInv, NodeInv, NodeLevelConsistent
  <2>2. Cardinality(since[o]) \in Nat
    BY <2>1, FS_CardinalityType DEF UseOf
  <2>. QED
    BY <2>1, <2>2 DEF UseOf
<1>. QED
  BY <1>1, <1>3, <1>4, UseInvStep, PTL DEF HSpec

=============================================================================
