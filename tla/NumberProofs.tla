---------------------------- MODULE NumberProofs ----------------------------
(***************************************************************************)
(* What the proofs about lists and recursive definitions count with: a set *)
(* of numbers has a least member, induction over a set of numbers,         *)
(* functions that are defined by recursion over them, the places of the    *)
(* members of a set in order, and the order of lists of numbers.           *)
(***************************************************************************)
EXTENDS Integers, Sequences, FiniteSetTheorems, WellFoundedInduction, TLAPS

\* A set of numbers has a least member: of the sets of its members up to one of them,
\* one is the smallest.
LEMMA LeastOf ==
    ASSUME NEW S \in SUBSET Nat, S # {}
    PROVE  \E n \in S : \A m \in S : n <= m
<1> DEFINE upTo(n) == {m \in S : m <= n}
           T == {upTo(n) : n \in S}
<1>1. \A n \in S : upTo(n) \in FiniteSubsetsOf(S)
  <2>1. ASSUME NEW n \in S PROVE IsFiniteSet(upTo(n))
    BY FS_BoundedSetOfNaturals, upTo(n) \in SUBSET Nat, n \in Nat, \A m \in upTo(n) : m <= n
  <2>2. QED
    BY <2>1 DEF FiniteSubsetsOf
<1>2. T \subseteq FiniteSubsetsOf(S) /\ T # {}
  BY <1>1
<1>3. \E A \in T : \A B \in T : ~(<<B, A>> \in StrictSubsetOrdering(S))
  <2> HIDE DEF T
  <2> QED
    BY <1>2, WFMin, FS_StrictSubsetOrderingWellFounded, Zenon
<1>4. PICK n \in S : \A m \in S : ~(<<upTo(m), upTo(n)>> \in StrictSubsetOrdering(S))
  BY <1>3
<1>5. ASSUME NEW m \in S, ~(n <= m)
      PROVE  FALSE
  <2>1. m \in Nat /\ n \in Nat /\ m < n
    BY <1>5
  <2>2. n <= n /\ \A k \in S : k <= m => k <= n
    BY <2>1
  <2>3. upTo(m) \subseteq upTo(n) /\ n \in upTo(n) /\ n \notin upTo(m)
    BY <1>5, <2>2
  <2>4. <<upTo(m), upTo(n)>> \in StrictSubsetOrdering(S)
    BY <2>3 DEF StrictSubsetOrdering
  <2> QED
    BY <1>4, <2>4
<1>6. QED
  BY <1>5

\* Induction, over a set of numbers: of the numbers that are not in it, one would be
\* the least.
LEMMA EveryNumber ==
    ASSUME NEW S \in SUBSET Nat, 0 \in S, \A n \in S : n + 1 \in S
    PROVE  S = Nat
<1>1. SUFFICES ASSUME Nat \ S # {} PROVE FALSE
  OBVIOUS
<1>2. PICK n \in Nat \ S : \A m \in Nat \ S : n <= m
  BY <1>1, LeastOf, Nat \ S \in SUBSET Nat
<1>3. n # 0 /\ n - 1 \in Nat /\ (n - 1) + 1 = n /\ ~(n <= n - 1)
  BY <1>2
<1>4. n - 1 \in S
  BY <1>2, <1>3
<1>5. QED
  BY <1>2, <1>3, <1>4

\* The values of V that a recursion from b runs through, g[k] its step to the k-th.
Steps(V) == [Nat -> [V -> V]]
Run(f, V, b, g) == f \in [Nat -> V] /\ f[0] = b /\ \A k \in Nat : f[k + 1] = g[k + 1][f[k]]

\* A recursion defines a function: each step has one value.
LEMMA Stepped ==
    ASSUME NEW V, NEW b \in V, NEW g \in Steps(V)
    PROVE  \E f : Run(f, V, b, g)
<1> DEFINE upTo(n) == {h \in [0..n -> V] : h[0] = b /\ \A k \in 0..n - 1 : h[k + 1] = g[k + 1][h[k]]}
           one == {n \in Nat : upTo(n) # {}}
           same == {n \in Nat : \A m, l \in Nat : n <= m /\ n <= l =>
                       \A h \in upTo(m), e \in upTo(l) : h[n] = e[n]}
<1>0. \A k \in Nat : g[k + 1] \in [V -> V]
  BY DEF Steps
<1>1. one = Nat
  <2>1. 0 \in one
    <3>1. [k \in 0..0 |-> b] \in upTo(0)
      OBVIOUS
    <3>2. QED
      BY <3>1
  <2>2. ASSUME NEW n \in one PROVE n + 1 \in one
    <3>1. PICK h \in [0..n -> V] : h[0] = b /\ \A k \in 0..n - 1 : h[k + 1] = g[k + 1][h[k]]
      BY <2>2
    <3> DEFINE e == [k \in 0..n + 1 |-> IF k = n + 1 THEN g[n + 1][h[n]] ELSE h[k]]
    <3>2. n \in Nat /\ h[n] \in V
      BY <3>1
    <3>3. e \in [0..n + 1 -> V]
      BY <1>0, <3>1, <3>2
    <3>4. e[0] = b
      BY <3>1, <3>2
    <3>5. ASSUME NEW k \in 0..n PROVE e[k + 1] = g[k + 1][e[k]]
      BY <3>1, <3>2
    <3>6. (n + 1) - 1 = n /\ n + 1 \in Nat
      BY <3>2
    <3> HIDE DEF e
    <3>7. e \in upTo(n + 1)
      BY <3>3, <3>4, <3>5, <3>6
    <3>8. QED
      BY <3>6, <3>7
  <2> HIDE DEF upTo
  <2>3. QED
    BY <2>1, <2>2, EveryNumber
<1> HIDE DEF upTo
<1>2. \A n \in Nat : n \in same
  <2>1. 0 \in same
    <3>1. ASSUME NEW m \in Nat, NEW h \in upTo(m) PROVE h[0] = b
      BY DEF upTo
    <3>2. QED
      BY <3>1
  <2>2. ASSUME NEW n \in same PROVE n + 1 \in same
    <3>1. SUFFICES ASSUME NEW m \in Nat, NEW l \in Nat, n + 1 <= m, n + 1 <= l,
                          NEW h \in upTo(m), NEW e \in upTo(l)
                   PROVE  h[n + 1] = e[n + 1]
      BY <2>2
    <3>2. n \in Nat /\ n <= m /\ n <= l /\ n \in 0..m - 1 /\ n \in 0..l - 1
      BY <2>2, <3>1
    <3>3. h[n + 1] = g[n + 1][h[n]] /\ e[n + 1] = g[n + 1][e[n]]
      BY <3>2 DEF upTo
    <3>4. h[n] = e[n]
      BY <2>2, <3>2
    <3>5. QED
      BY <3>3, <3>4
  <2> HIDE DEF same
  <2>3. same \in SUBSET Nat
    BY DEF same
  <2>4. QED
    BY <2>1, <2>2, <2>3, EveryNumber
<1> DEFINE f == [n \in Nat |-> (CHOOSE h \in upTo(n) : TRUE)[n]]
<1>3. \A n \in Nat : (CHOOSE h \in upTo(n) : TRUE) \in upTo(n)
  BY <1>1
<1>4. ASSUME NEW n \in Nat, NEW h \in upTo(n) PROVE h[n] \in V
  BY DEF upTo
<1>5. f \in [Nat -> V]
  BY <1>3, <1>4
<1>6. f[0] = b
  BY <1>3 DEF upTo
<1>7. ASSUME NEW k \in Nat PROVE f[k + 1] = g[k + 1][f[k]]
  <2>1. k + 1 \in Nat /\ k <= k + 1 /\ k <= k /\ k \in 0..(k + 1) - 1
    OBVIOUS
  <2>2. PICK h \in upTo(k + 1) : f[k + 1] = h[k + 1]
    BY <1>3, <2>1
  <2>3. PICK e \in upTo(k) : f[k] = e[k]
    BY <1>3
  <2>4. h[k] = e[k]
    <3>1. \A m, l \in Nat : k <= m /\ k <= l => \A x \in upTo(m), y \in upTo(l) : x[k] = y[k]
      BY <1>2
    <3>2. QED
      BY <2>1, <3>1
  <2>5. h[k + 1] = g[k + 1][h[k]]
    BY <2>1 DEF upTo
  <2> QED
    BY <2>2, <2>3, <2>4, <2>5
<1> HIDE DEF f
<1>8. QED
  BY <1>5, <1>6, <1>7 DEF Run

\* The same with one step for all numbers.
LEMMA Iterated ==
    ASSUME NEW V, NEW b \in V, NEW g \in [V -> V]
    PROVE  \E f \in [Nat -> V] : f[0] = b /\ \A k \in Nat : f[k + 1] = g[f[k]]
<1>1. PICK e : e = [k \in Nat |-> g]
  OBVIOUS
<1>2. \A k \in Nat : e[k + 1] = g
  BY <1>1
<1>3. e \in Steps(V)
  BY <1>1 DEF Steps
<1>4. PICK f : Run(f, V, b, e)
  BY <1>3, Stepped
<1>5. QED
  BY <1>2, <1>4 DEF Run

\* A recursion up to its n-th step.
LEMMA SteppedTo ==
    ASSUME NEW n \in Nat, NEW V, NEW b \in V, NEW g \in Steps(V)
    PROVE  \E l : /\ l = [i \in 0..n |-> l[i]] /\ l[0] = b
                  /\ \A k \in 0..n : l[k] \in V
                  /\ \A k \in 1..n : l[k] = g[k][l[k - 1]]
<1>1. PICK f : Run(f, V, b, g)
  BY Stepped
<1>2. f[0] = b /\ \A k \in Nat : f[k] \in V /\ f[k + 1] = g[k + 1][f[k]]
  BY <1>1 DEF Run
<1> DEFINE l == [i \in 0..n |-> f[i]]
<1>3. l = [i \in 0..n |-> l[i]] /\ l[0] = b /\ \A k \in 0..n : l[k] \in V
  BY <1>2
<1>4. ASSUME NEW k \in 1..n PROVE l[k] = g[k][l[k - 1]]
  <2>1. k - 1 \in Nat /\ (k - 1) + 1 = k /\ k - 1 \in 0..n /\ k \in 0..n
    OBVIOUS
  <2>2. f[k] = g[k][f[k - 1]]
    BY <1>2, <2>1
  <2> QED
    BY <2>1, <2>2
<1> HIDE DEF l
<1> QED
  BY <1>3, <1>4

\* What every step keeps holds up to the n-th.
LEMMA StaysIn ==
    ASSUME NEW n \in Nat, NEW r, NEW V, r[0] \in V,
           \A k \in 1..n : r[k - 1] \in V => r[k] \in V
    PROVE  \A k \in 0..n : r[k] \in V
<1> DEFINE S == {k \in Nat : k <= n => r[k] \in V}
<1>1. 0 \in S
  OBVIOUS
<1>2. ASSUME NEW k \in S PROVE k + 1 \in S
  <2>1. k \in Nat /\ (k + 1 <= n => k <= n /\ k + 1 \in 1..n /\ (k + 1) - 1 = k)
    OBVIOUS
  <2>2. k + 1 <= n => r[k + 1] \in V
    BY <1>2, <2>1
  <2> QED
    BY <2>1, <2>2
<1>3. S \in SUBSET Nat
  OBVIOUS
<1>4. S = Nat
  <2> HIDE DEF S
  <2> QED
    BY <1>1, <1>2, <1>3, EveryNumber
<1> QED
  BY <1>4

\* Lists of numbers in the order of their first difference.
Lex(a, b) ==
    \E i \in DOMAIN b : /\ \A j \in 1..(i - 1) : j \in DOMAIN a /\ a[j] = b[j]
                        /\ i \notin DOMAIN a \/ a[i] < b[i]

\* No list precedes itself.
LEMMA LexIrreflexive ==
    ASSUME NEW a \in Seq(Int)
    PROVE  ~Lex(a, a)
BY DEF Lex

LEMMA LexTransitive ==
    ASSUME NEW a \in Seq(Int), NEW b \in Seq(Int), NEW c \in Seq(Int), Lex(a, b), Lex(b, c)
    PROVE  Lex(a, c)
<1>1. PICK i \in DOMAIN b : /\ \A j \in 1..(i - 1) : j \in DOMAIN a /\ a[j] = b[j]
                            /\ i \notin DOMAIN a \/ a[i] < b[i]
  BY DEF Lex
<1>2. PICK k \in DOMAIN c : /\ \A j \in 1..(k - 1) : j \in DOMAIN b /\ b[j] = c[j]
                            /\ k \notin DOMAIN b \/ b[k] < c[k]
  BY DEF Lex
<1>3. /\ DOMAIN a = 1..Len(a) /\ DOMAIN b = 1..Len(b) /\ DOMAIN c = 1..Len(c)
      /\ Len(a) \in Nat /\ Len(b) \in Nat /\ Len(c) \in Nat
      /\ \A j \in DOMAIN a : a[j] \in Int
      /\ \A j \in DOMAIN b : b[j] \in Int
      /\ \A j \in DOMAIN c : c[j] \in Int
  OBVIOUS
<1>4. i \in Int /\ k \in Int
  BY <1>3
<1>5. CASE i < k
  <2>1. i \in DOMAIN c /\ i \in 1..k - 1
    BY <1>3, <1>4, <1>5
  <2>2. \A j \in 1..(i - 1) : j \in 1..(k - 1)
    BY <1>4, <1>5
  <2>3. \A j \in 1..(i - 1) : j \in DOMAIN a /\ a[j] = c[j]
    BY <1>1, <1>2, <2>2
  <2>4. b[i] = c[i]
    BY <1>2, <2>1
  <2>5. i \notin DOMAIN a \/ a[i] < c[i]
    BY <1>1, <2>4
  <2> QED
    BY <2>1, <2>3, <2>5 DEF Lex
<1>6. CASE k <= i
  <2>2. \A j \in 1..(k - 1) : j \in 1..(i - 1)
    BY <1>4, <1>6
  <2>3. \A j \in 1..(k - 1) : j \in DOMAIN a /\ a[j] = c[j]
    BY <1>1, <1>2, <2>2
  <2>4. k \in DOMAIN b
    BY <1>3, <1>4, <1>6
  <2>5. b[k] < c[k]
    BY <1>2, <2>4
  <2>6. k \notin DOMAIN a \/ a[k] < c[k]
    <3>1. CASE k = i
      BY <1>1, <1>3, <2>4, <2>5, <3>1
    <3>2. CASE k < i
      <4>1. k \in 1..(i - 1)
        BY <1>3, <1>4, <3>2
      <4>2. QED
        BY <1>1, <2>5, <4>1
    <3> QED
      BY <1>4, <1>6, <3>1, <3>2
  <2> QED
    BY <2>3, <2>6 DEF Lex
<1> QED
  BY <1>4, <1>5, <1>6

LEMMA LexTotal ==
    ASSUME NEW a \in Seq(Int), NEW b \in Seq(Int), a # b
    PROVE  Lex(a, b) \/ Lex(b, a)
<1>1. /\ DOMAIN a = 1..Len(a) /\ DOMAIN b = 1..Len(b)
      /\ Len(a) \in Nat /\ Len(b) \in Nat
      /\ \A j \in DOMAIN a : a[j] \in Int
      /\ \A j \in DOMAIN b : b[j] \in Int
  OBVIOUS
<1> DEFINE S == {i \in Nat \ {0} : i \notin DOMAIN a \/ i \notin DOMAIN b \/ a[i] # b[i]}
<1>2. PICK i \in S : \A m \in S : i <= m
  <2>1. Len(a) + 1 \in S
    BY <1>1
  <2>2. S \in SUBSET Nat /\ S # {}
    BY <2>1
  <2> HIDE DEF S
  <2> QED
    BY <2>2, LeastOf
<1>3. \A j \in 1..(i - 1) : j \in DOMAIN a /\ j \in DOMAIN b /\ a[j] = b[j]
  <2>1. SUFFICES ASSUME NEW j \in 1..(i - 1), j \in S PROVE FALSE
    OBVIOUS
  <2>2. i \in Nat /\ j \in Nat /\ ~(i <= j)
    BY <1>2
  <2> HIDE DEF S
  <2> QED
    BY <1>2, <2>1, <2>2
<1>4. i \in DOMAIN a \/ i \in DOMAIN b
  <2>1. SUFFICES ASSUME i \notin DOMAIN a, i \notin DOMAIN b PROVE FALSE
    OBVIOUS
  <2>2. i \in Nat /\ i # 0
    BY <1>2
  <2>3. i = 1 \/ i - 1 \in 1..(i - 1)
    BY <2>2
  <2>4. Len(a) = i - 1 /\ Len(b) = i - 1
    BY <1>1, <1>3, <2>1, <2>2, <2>3
  <2>5. DOMAIN a = DOMAIN b /\ \A j \in DOMAIN a : a[j] = b[j]
    BY <1>1, <1>3, <2>4
  <2>6. a = b
    <3>1. a = [j \in DOMAIN a |-> a[j]] /\ b = [j \in DOMAIN b |-> b[j]]
      OBVIOUS
    <3> QED
      BY <2>5, <3>1
  <2> QED
    BY <2>6
<1>5. i \notin DOMAIN a \/ i \notin DOMAIN b \/ a[i] < b[i] \/ b[i] < a[i]
  BY <1>1, <1>2
<1> HIDE DEF S
<1>6. CASE i \notin DOMAIN a \/ (i \in DOMAIN b /\ a[i] < b[i])
  <2>1. i \in DOMAIN b
    BY <1>4, <1>6
  <2>2. Lex(a, b)
    BY <1>3, <1>6, <2>1 DEF Lex
  <2> QED
    BY <2>2
<1>7. CASE i \notin DOMAIN b \/ (i \in DOMAIN a /\ b[i] < a[i])
  <2>1. i \in DOMAIN a
    BY <1>4, <1>7
  <2>2. Lex(b, a)
    BY <1>3, <1>7, <2>1 DEF Lex
  <2> QED
    BY <2>2
<1> QED
  BY <1>5, <1>6, <1>7

\* Members of S in an order: below[a] are those before a.
Ordering(S, below) ==
    /\ below \in [S -> SUBSET S]
    /\ \A a \in S : a \notin below[a]
    /\ \A a, b \in S : b \in below[a] => below[b] \subseteq below[a]
    /\ \A a, b \in S : a = b \/ a \in below[b] \/ b \in below[a]

\* A member of a finite set in order has its place: so many are before it, and for no
\* other as many.
LEMMA Ranked ==
    ASSUME NEW S, IsFiniteSet(S), NEW below, Ordering(S, below)
    PROVE  /\ Cardinality(S) \in Nat
           /\ \A a \in S : Cardinality(below[a]) \in 0..Cardinality(S) - 1
           /\ \A a, b \in S : b \in below[a] => Cardinality(below[b]) < Cardinality(below[a])
           /\ \A a, b \in S : Cardinality(below[a]) = Cardinality(below[b]) => a = b
           /\ \A i \in 0..Cardinality(S) - 1 : \E a \in S : Cardinality(below[a]) = i
<1> DEFINE size == Cardinality(S)
           rank == [a \in S |-> Cardinality(below[a])]
<1>1. size \in Nat
  BY FS_CardinalityType
<1>2. ASSUME NEW a \in S
      PROVE  /\ IsFiniteSet(below[a]) /\ Cardinality(below[a]) \in Nat
             /\ Cardinality(below[a]) < size
  <2>1. below[a] \in SUBSET S /\ a \notin below[a]
    BY DEF Ordering
  <2>2. IsFiniteSet(below[a]) /\ Cardinality(below[a]) <= size /\ Cardinality(below[a]) # size
    BY <1>2, <2>1, FS_Subset
  <2>3. Cardinality(below[a]) \in Nat
    BY <2>2, FS_CardinalityType
  <2> QED
    BY <1>1, <2>2, <2>3
<1>3. ASSUME NEW a \in S, NEW b \in S, b \in below[a]
      PROVE  Cardinality(below[b]) < Cardinality(below[a])
  <2>1. below[b] \in SUBSET below[a] /\ below[b] # below[a]
    BY <1>3 DEF Ordering
  <2>2. Cardinality(below[b]) <= Cardinality(below[a]) /\ Cardinality(below[b]) # Cardinality(below[a])
    BY <1>2, <2>1, FS_Subset
  <2> QED
    BY <1>2, <2>2
<1>4. ASSUME NEW a \in S, NEW b \in S, Cardinality(below[a]) = Cardinality(below[b])
      PROVE  a = b
  BY <1>2, <1>3, <1>4 DEF Ordering
<1>5. rank \in [S -> 0..size - 1]
  <2> HIDE DEF size
  <2> QED
    BY <1>1, <1>2
<1>6. rank \in Injection(S, 0..size - 1)
  BY <1>4, <1>5 DEF Injection, IsInjective
<1>7. IsFiniteSet(0..size - 1) /\ Cardinality(0..size - 1) = size
  <2> HIDE DEF size
  <2>1. 0 \in Int /\ size - 1 \in Int /\ (IF 0 > size - 1 THEN 0 ELSE (size - 1) - 0 + 1) = size
    BY <1>1
  <2> QED
    BY <2>1, FS_Interval
<1>8. rank \in Surjection(S, 0..size - 1)
  BY <1>6, <1>7, FS_Injection
<1>9. \A i \in 0..size - 1 : \E a \in S : Cardinality(below[a]) = i
  BY <1>8 DEF Surjection
<1>10. \A a \in S : Cardinality(below[a]) \in 0..size - 1
  <2> HIDE DEF size
  <2> QED
    BY <1>1, <1>2
<1> QED
  BY <1>1, <1>3, <1>4, <1>9, <1>10

\* The first of them.
LEMMA FirstIn ==
    ASSUME NEW S, IsFiniteSet(S), S # {}, NEW below, Ordering(S, below)
    PROVE  \E a \in S : \A b \in S : a = b \/ a \in below[b]
<1>1. Cardinality(S) \in Nat /\ Cardinality(S) # 0
  BY FS_CardinalityType, FS_EmptySet
<1>2. 0 \in 0..Cardinality(S) - 1
  BY <1>1
<1>3. PICK a \in S : Cardinality(below[a]) = 0
  BY <1>2, Ranked
<1>4. below[a] \in SUBSET S
  BY DEF Ordering
<1>5. below[a] = {}
  BY <1>3, <1>4, FS_Subset, FS_EmptySet
<1> QED
  BY <1>5 DEF Ordering
=============================================================================
