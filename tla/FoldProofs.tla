------------------------------ MODULE FoldProofs ------------------------------
(***************************************************************************)
(* Induction and recursion in a form the provers can use: over sets of     *)
(* numbers, not over predicates.  A set of naturals that holds 0 and the   *)
(* successor of each of its members is Nat; a function by recursion over   *)
(* the subsets of a finite set exists, so that the LET function of the     *)
(* community modules' MapThenFoldSet is what its equation says.  Proofs    *)
(* about folds state their claim as a set of numbers, or of sets, and      *)
(* cite these lemmas.                                                      *)
(***************************************************************************)
EXTENDS Integers, FiniteSets, FiniteSetsExt, FiniteSetTheorems, WellFoundedInduction, TLAPS

LEMMA NatSetInduction ==
  ASSUME NEW T \in SUBSET Nat, 0 \in T, \A n \in T : n + 1 \in T
  PROVE  T = Nat
<1> SUFFICES ASSUME T # Nat PROVE FALSE
  OBVIOUS
<1> DEFINE R == OpToRel(<, Nat)
           U == Nat \ T
<1>1. IsWellFoundedOn(R, Nat)
  BY NatLessThanWellFounded
<1>2. U \subseteq Nat /\ U # {}
  OBVIOUS
<1>3. \A x, y \in Nat : x < y => <<x, y>> \in R
  BY DEF OpToRel
<1> HIDE DEF R, U
<1>4. PICK n \in U : \A m \in U : ~ (<<m, n>> \in R)
  BY <1>1, <1>2, WFMin
<1>5. n \in Nat /\ n \notin T /\ n # 0
  BY <1>4 DEF U
<1>6. n - 1 \in Nat /\ n - 1 < n /\ n = (n - 1) + 1
  BY <1>5
<1>7. n - 1 \notin U
  BY <1>2, <1>3, <1>4, <1>6
<1>. QED
  BY <1>5, <1>6, <1>7 DEF U

\* The same, up to a bound.
LEMMA IntervalInduction ==
  ASSUME NEW N \in Nat, NEW T, 0 \in T, \A n \in 0..(N - 1) : n \in T => n + 1 \in T
  PROVE  \A n \in 0..N : n \in T
<1> DEFINE U == {n \in Nat : n <= N => n \in T}
<1>1. 0 \in U /\ \A n \in U : n + 1 \in U
  OBVIOUS
<1> HIDE DEF U
<1>2. U = Nat
  <2>1. U \in SUBSET Nat
    BY DEF U
  <2>. QED
    BY <1>1, <2>1, NatSetInduction
<1>. QED
  BY <1>2 DEF U

-----------------------------------------------------------------------------

\* Every claim about the subsets of a finite set that holds of the empty set and
\* of a set when it holds of the set without one of its members.
LEMMA SubsetInduction ==
  ASSUME NEW S, IsFiniteSet(S), NEW T,
         {} \in T,
         \A s \in SUBSET S : s # {} => \E x \in s : s \ {x} \in T => s \in T
  PROVE  \A s \in SUBSET S : s \in T
<1> DEFINE U == {n \in Nat : \A s \in SUBSET S : Cardinality(s) = n => s \in T}
<1>1. \A s \in SUBSET S : IsFiniteSet(s) /\ Cardinality(s) \in Nat
  BY FS_Subset, FS_CardinalityType
<1>2. 0 \in U
  BY <1>1, FS_EmptySet
<1>3. ASSUME NEW n \in U PROVE n + 1 \in U
  <2> SUFFICES ASSUME NEW s \in SUBSET S, Cardinality(s) = n + 1 PROVE s \in T
    OBVIOUS
  <2>0. n \in Nat /\ IsFiniteSet(s)
    BY <1>1
  <2>1. s # {}
    BY <2>0, FS_EmptySet
  <2>2. PICK x \in s : s \ {x} \in T => s \in T
    BY <2>1
  <2>3. Cardinality(s \ {x}) = n /\ s \ {x} \in SUBSET S
    <3>1. Cardinality(s \ {x}) = Cardinality(s) - 1
      BY <2>0, <2>2, FS_RemoveElement
    <3>. QED
      BY <2>0, <3>1
  <2>. QED
    BY <2>0, <2>2, <2>3
<1> HIDE DEF U
<1>4. U = Nat
  <2>1. U \in SUBSET Nat
    BY DEF U
  <2>. QED
    BY <1>2, <1>3, <2>1, NatSetInduction
<1>. QED
  BY <1>1, <1>4 DEF U

\* A function by recursion over the subsets of a finite set: the value of a set
\* comes from the member that is picked of it and the value of the others.
Picks(pick, S) == \A s \in SUBSET S : s # {} => pick[s] \in s

FoldsBy(g, S, base, pick, step) ==
  \A s \in SUBSET S : g[s] = IF s = {} THEN base ELSE step[<<pick[s], g[s \ {pick[s]}]>>]

LEMMA SubsetRecursion ==
  ASSUME NEW S, IsFiniteSet(S), NEW V, NEW base \in V,
         NEW pick, Picks(pick, S), NEW step \in [S \X V -> V]
  PROVE  \E g \in [SUBSET S -> V] : FoldsBy(g, S, base, pick, step)
<1> DEFINE Upto(n) == {s \in SUBSET S : Cardinality(s) <= n}
           Eq(g, s) == g[s] = IF s = {} THEN base ELSE step[<<pick[s], g[s \ {pick[s]}]>>]
           U == {n \in Nat : \E g \in [Upto(n) -> V] : \A s \in Upto(n) : Eq(g, s)}
<1>1. \A s \in SUBSET S : IsFiniteSet(s) /\ Cardinality(s) \in Nat
  BY FS_Subset, FS_CardinalityType
<1> USE DEF Picks
<1>2. \A s \in SUBSET S : s # {} => /\ Cardinality(s \ {pick[s]}) = Cardinality(s) - 1
                                    /\ s \ {pick[s]} \in SUBSET S
                                    /\ pick[s] \in S
  BY <1>1, FS_RemoveElement
<1>3. 0 \in U
  <2>1. \A s \in Upto(0) : s = {}
    BY <1>1, FS_EmptySet
  <2>2. [s \in Upto(0) |-> base] \in [Upto(0) -> V] /\ \A s \in Upto(0) : Eq([t \in Upto(0) |-> base], s)
    BY <2>1
  <2>. QED
    BY <2>2
<1>4. ASSUME NEW n \in U PROVE n + 1 \in U
  <2>1. PICK g \in [Upto(n) -> V] : \A s \in Upto(n) : Eq(g, s)
    OBVIOUS
  <2> DEFINE Val(s) == IF s = {} THEN base ELSE step[<<pick[s], g[s \ {pick[s]}]>>]
             h == [s \in Upto(n + 1) |-> Val(s)]
  <2>2. \A s \in Upto(n + 1) : s # {} => s \ {pick[s]} \in Upto(n)
    BY <1>1, <1>2
  <2>3. \A s \in Upto(n + 1) : Val(s) \in V
    BY <1>2, <2>2
  <2>4. h \in [Upto(n + 1) -> V]
    BY <2>3
  <2>5. \A s \in Upto(n) : s \in Upto(n + 1) /\ h[s] = g[s]
    BY <1>1, <2>1
  <2>6. \A s \in Upto(n + 1) : Eq(h, s)
    BY <2>2, <2>5
  <2> HIDE DEF h
  <2>7. n + 1 \in Nat
    OBVIOUS
  <2> HIDE DEF Upto, Eq, Val
  <2>8. \E f \in [Upto(n + 1) -> V] : \A s \in Upto(n + 1) : Eq(f, s)
    BY <2>4, <2>6
  <2>. QED
    BY <2>7, <2>8
<1> HIDE DEF U
<1>5. U = Nat
  <2>1. U \in SUBSET Nat
    BY DEF U
  <2>. QED
    BY <1>3, <1>4, <2>1, NatSetInduction
<1>6. Cardinality(S) \in U
  BY <1>1, <1>5
<1>7. Upto(Cardinality(S)) = SUBSET S
  BY FS_Subset
<1>. QED
  BY <1>6, <1>7 DEF U, FoldsBy

-----------------------------------------------------------------------------
(* Sums. *)

\* g is the sum of f over the subsets of S, taken in the order that pick gives.
SumsBy(g, S, pick, f) ==
  \A s \in SUBSET S : g[s] = IF s = {} THEN 0 ELSE f[pick[s]] + g[s \ {pick[s]}]

LEMMA SumIsInt ==
  ASSUME NEW S, IsFiniteSet(S), NEW pick, Picks(pick, S), NEW f \in [S -> Int],
         NEW g, SumsBy(g, S, pick, f)
  PROVE  \A s \in SUBSET S : g[s] \in Int
<1> DEFINE T == {s \in SUBSET S : g[s] \in Int}
<1>1. {} \in T
  BY DEF SumsBy
<1>2. ASSUME NEW s \in SUBSET S, s # {} PROVE \E x \in s : s \ {x} \in T => s \in T
  <2>1. pick[s] \in s /\ f[pick[s]] \in Int
    BY <1>2 DEF Picks
  <2>2. g[s] = f[pick[s]] + g[s \ {pick[s]}]
    BY <1>2 DEF SumsBy
  <2>3. s \ {pick[s]} \in T => s \in T
    BY <2>1, <2>2
  <2>. QED
    BY <2>1, <2>3
<1>3. \A s \in SUBSET S : s \in T
  <2> HIDE DEF T
  <2>. QED
    BY <1>1, <1>2, SubsetInduction
<1>. QED
  BY <1>3

LEMMA SumOfZeros ==
  ASSUME NEW S, IsFiniteSet(S), NEW pick, Picks(pick, S), NEW f,
         NEW g, SumsBy(g, S, pick, f), \A x \in S : f[x] = 0
  PROVE  g[S] = 0
<1> DEFINE T == {s \in SUBSET S : g[s] = 0}
<1>1. {} \in T
  BY DEF SumsBy
<1>2. ASSUME NEW s \in SUBSET S, s # {} PROVE \E x \in s : s \ {x} \in T => s \in T
  <2>1. pick[s] \in s /\ f[pick[s]] = 0
    BY <1>2 DEF Picks
  <2>2. g[s] = 0 + g[s \ {pick[s]}]
    BY <1>2, <2>1 DEF SumsBy
  <2>3. s \ {pick[s]} \in T => s \in T
    BY <2>2
  <2>. QED
    BY <2>1, <2>3
<1>3. \A s \in SUBSET S : s \in T
  <2> HIDE DEF T
  <2>. QED
    BY <1>1, <1>2, SubsetInduction
<1>. QED
  BY <1>3

\* A change of one summand changes the sum by as much.
LEMMA SumChange ==
  ASSUME NEW S, IsFiniteSet(S), NEW pick, Picks(pick, S),
         NEW f \in [S -> Int], NEW g, SumsBy(g, S, pick, f),
         NEW e \in [S -> Int], NEW h, SumsBy(h, S, pick, e),
         NEW d \in S, \A x \in S \ {d} : e[x] = f[x]
  PROVE  h[S] = g[S] + (e[d] - f[d])
<1> DEFINE k == e[d] - f[d]
           T == {s \in SUBSET S : h[s] = g[s] + (IF d \in s THEN k ELSE 0)}
<1>1. (\A s \in SUBSET S : g[s] \in Int) /\ (\A s \in SUBSET S : h[s] \in Int)
  BY SumIsInt
<1>2. {} \in T
  <2>1. g[{}] = 0 /\ h[{}] = 0
    BY DEF SumsBy
  <2>. QED
    BY <2>1
<1>3. ASSUME NEW s \in SUBSET S, s # {} PROVE \E x \in s : s \ {x} \in T => s \in T
  <2> DEFINE x == pick[s]
             r == s \ {x}
  <2>1. x \in s /\ f[x] \in Int /\ e[x] \in Int
    BY <1>3 DEF Picks
  <2>2. g[s] = f[x] + g[r] /\ h[s] = e[x] + h[r]
    BY <1>3 DEF SumsBy
  <2>3. g[r] \in Int /\ h[r] \in Int /\ e[d] \in Int /\ f[d] \in Int
    BY <1>1
  <2>4. x = d => d \notin r
    OBVIOUS
  <2>5. x # d => (d \in s <=> d \in r) /\ e[x] = f[x]
    BY <2>1
  <2> HIDE DEF x, r
  <2>6. ASSUME h[r] = g[r] + (IF d \in r THEN k ELSE 0)
        PROVE  h[s] = g[s] + (IF d \in s THEN k ELSE 0)
    BY <2>1, <2>2, <2>3, <2>4, <2>5, <2>6
  <2>. QED
    BY <2>1, <2>6 DEF r
<1>4. \A s \in SUBSET S : s \in T
  <2> HIDE DEF T
  <2>. QED
    BY <1>2, <1>3, SubsetInduction
<1>. QED
  BY <1>4
-----------------------------------------------------------------------------
(* Sorting. *)

\* B is a strict order in which every two members of S can be compared.
OrderedBy(B, S) ==
  /\ \A x, y, z \in S : <<x, y>> \in B /\ <<y, z>> \in B => <<x, z>> \in B
  /\ \A x, y \in S : x # y => <<x, y>> \in B \/ <<y, x>> \in B

\* r lists S in that order.
Sorts(r, S, B) ==
  /\ r \in [1..Cardinality(S) -> S]
  /\ \A x \in S : \E i \in DOMAIN r : r[i] = x
  /\ \A i, j \in DOMAIN r : i < j => <<r[i], r[j]>> \in B

LastOf(m, s, B) == m \in s /\ \A x \in s : x # m => <<x, m>> \in B

LEMMA LastExists ==
  ASSUME NEW S, IsFiniteSet(S), NEW B, OrderedBy(B, S)
  PROVE  \A s \in SUBSET S : s # {} => \E m : LastOf(m, s, B)
<1> DEFINE T == {s \in SUBSET S : s # {} => \E m : LastOf(m, s, B)}
<1>1. {} \in T
  OBVIOUS
<1>2. ASSUME NEW s \in SUBSET S, s # {} PROVE \E x \in s : s \ {x} \in T => s \in T
  <2>1. PICK x \in s : TRUE
    BY <1>2
  <2>2. ASSUME s \ {x} \in T PROVE s \in T
    <3>1. CASE s \ {x} = {}
      <4>1. LastOf(x, s, B)
        BY <3>1 DEF LastOf
      <4>. QED
        BY <4>1
    <3>2. CASE s \ {x} # {}
      <4>1. PICK m : LastOf(m, s \ {x}, B)
        BY <2>2, <3>2
      <4>2. m \in s /\ m # x /\ m \in S /\ x \in S
        BY <4>1 DEF LastOf
      <4>3. CASE <<x, m>> \in B
        <5>1. LastOf(m, s, B)
          BY <4>1, <4>3 DEF LastOf
        <5>. QED
          BY <5>1
      <4>4. CASE <<m, x>> \in B
        <5>1. \A y \in s : y # x => <<y, x>> \in B
          BY <4>1, <4>2, <4>4 DEF LastOf, OrderedBy
        <5>2. LastOf(x, s, B)
          BY <5>1 DEF LastOf
        <5>. QED
          BY <5>2
      <4>. QED
        BY <4>2, <4>3, <4>4 DEF OrderedBy
    <3>. QED
      BY <3>1, <3>2
  <2>. QED
    BY <2>2
<1> HIDE DEF T
<1>3. \A s \in SUBSET S : s \in T
  BY <1>1, <1>2, SubsetInduction
<1>. QED
  BY <1>3 DEF T

LEMMA SortExists ==
  ASSUME NEW S, IsFiniteSet(S), NEW B, OrderedBy(B, S)
  PROVE  \E r : Sorts(r, S, B)
<1> DEFINE T == {s \in SUBSET S : \E r : Sorts(r, s, B)}
<1>1. {} \in T
  <2>1. Cardinality({}) = 0
    BY FS_EmptySet
  <2>2. Sorts([i \in 1..0 |-> i], {}, B)
    BY <2>1 DEF Sorts
  <2>. QED
    BY <2>2
<1>2. ASSUME NEW s \in SUBSET S, s # {} PROVE \E x \in s : s \ {x} \in T => s \in T
  <2>1. PICK m : LastOf(m, s, B)
    BY <1>2, LastExists
  <2>2. m \in s
    BY <2>1 DEF LastOf
  <2>3. ASSUME s \ {m} \in T PROVE s \in T
    <3>1. PICK r : Sorts(r, s \ {m}, B)
      BY <2>3
    <3> DEFINE n == Cardinality(s \ {m})
    <3>2. n \in Nat /\ Cardinality(s) = n + 1
      <4>1. IsFiniteSet(s) /\ Cardinality(s) \in Nat
        BY FS_Subset, FS_CardinalityType
      <4>2. IsFiniteSet(s \ {m}) /\ n \in Nat /\ n = Cardinality(s) - 1
        BY <2>2, <4>1, FS_RemoveElement, FS_CardinalityType
      <4>. QED
        BY <4>1, <4>2
    <3>3. /\ DOMAIN r = 1..n /\ \A i \in 1..n : r[i] \in s \ {m}
          /\ \A x \in s \ {m} : \E i \in 1..n : r[i] = x
          /\ \A i, j \in 1..n : i < j => <<r[i], r[j]>> \in B
      BY <3>1 DEF Sorts
    <3> HIDE DEF n
    <3> DEFINE q == [i \in 1..(n + 1) |-> IF i <= n THEN r[i] ELSE m]
    <3>4. /\ DOMAIN q = 1..(n + 1) /\ q[n + 1] = m
          /\ \A i \in 1..n : i \in 1..(n + 1) /\ q[i] = r[i]
          /\ \A i \in 1..(n + 1) : i \in 1..n \/ i = n + 1
      BY <3>2
    <3>5. q \in [1..(n + 1) -> s]
      BY <2>2, <3>2, <3>3
    <3> HIDE DEF q
    <3>6. \A x \in s : \E i \in 1..(n + 1) : q[i] = x
      <4> SUFFICES ASSUME NEW x \in s PROVE \E i \in 1..(n + 1) : q[i] = x
        OBVIOUS
      <4>1. CASE x = m
        <5>1. n + 1 \in 1..(n + 1)
          BY <3>2
        <5>. QED
          BY <3>4, <4>1, <5>1
      <4>2. CASE x # m
        <5>1. PICK i \in 1..n : r[i] = x
          BY <3>3, <4>2
        <5>. QED
          BY <3>4, <5>1
      <4>. QED
        BY <4>1, <4>2
    <3>7. \A i, j \in 1..(n + 1) : i < j => <<q[i], q[j]>> \in B
      <4> SUFFICES ASSUME NEW i \in 1..(n + 1), NEW j \in 1..(n + 1), i < j PROVE <<q[i], q[j]>> \in B
        OBVIOUS
      <4>1. i \in 1..n
        BY <3>2
      <4>2. CASE j \in 1..n
        BY <3>3, <3>4, <4>1, <4>2
      <4>3. CASE j = n + 1
        BY <2>1, <3>3, <3>4, <4>1, <4>3 DEF LastOf
      <4>. QED
        BY <3>4, <4>2, <4>3
    <3>8. Sorts(q, s, B)
      BY <3>2, <3>4, <3>5, <3>6, <3>7 DEF Sorts
    <3>. QED
      BY <3>8
  <2>. QED
    BY <2>2, <2>3
<1> HIDE DEF T
<1>3. S \in T
  BY <1>1, <1>2, SubsetInduction
<1>. QED
  BY <1>3 DEF T
-----------------------------------------------------------------------------
(* Folds from the left: over the indices of a sequence, the last one outermost, *)
(* which is how the community modules define FoldLeft.                          *)

TopOf(n) == [s \in SUBSET (1..n) |-> Max(s)]

LEMMA TopPicks ==
  ASSUME NEW n \in Nat
  PROVE  /\ IsFiniteSet(1..n) /\ Picks(TopOf(n), 1..n)
         /\ \A s \in SUBSET (1..n) : s # {} => Max(s) \in s /\ \A i \in s : i <= Max(s)
<1> DEFINE S == 1..n
           B == {p \in S \X S : p[1] < p[2]}
<1>1. IsFiniteSet(S)
  BY FS_Interval
<1>2. OrderedBy(B, S)
  BY DEF OrderedBy
<1>3. ASSUME NEW s \in SUBSET S, s # {}
      PROVE  Max(s) \in s /\ \A i \in s : i <= Max(s)
  <2>1. PICK m : LastOf(m, s, B)
    <3> HIDE DEF S, B
    <3>. QED
      BY <1>1, <1>2, <1>3, LastExists
  <2>2. m \in s /\ \A i \in s : m >= i
    <3>1. m \in s /\ \A i \in s : i # m => <<i, m>> \in B
      <4> HIDE DEF B
      <4>. QED
        BY <2>1 DEF LastOf
    <3>2. ASSUME NEW i \in s PROVE m >= i
      <4>1. i \in Nat /\ m \in Nat
        BY <3>1
      <4>2. CASE i = m
        BY <4>1, <4>2
      <4>3. CASE i # m
        <5>1. <<i, m>> \in B
          BY <3>1, <4>3
        <5>2. i < m
          BY <5>1
        <5>. QED
          BY <4>1, <5>2
      <4>. QED
        BY <4>2, <4>3
    <3>. QED
      BY <3>1, <3>2
  <2>3. Max(s) \in s /\ \A i \in s : Max(s) >= i
    BY <2>2 DEF Max
  <2>. QED
    BY <2>3
<1>. QED
  BY <1>1, <1>3 DEF Picks, TopOf

LEMMA PrefixFold ==
  ASSUME NEW n \in Nat, NEW V, NEW base \in V, NEW step \in [(1..n) \X V -> V]
  PROVE  \E g \in [SUBSET (1..n) -> V] : FoldsBy(g, 1..n, base, TopOf(n), step)
<1> DEFINE S == 1..n
<1>1. IsFiniteSet(S) /\ Picks(TopOf(n), S)
  BY TopPicks
<1> HIDE DEF S
<1>2. step \in [S \X V -> V]
  BY DEF S
<1>3. \E g \in [SUBSET S -> V] : FoldsBy(g, S, base, TopOf(n), step)
  BY <1>1, <1>2, SubsetRecursion
<1>. QED
  BY <1>3 DEF S

\* The last index of a prefix is taken off first.
LEMMA TopOfPrefix ==
  ASSUME NEW n \in Nat, NEW k \in 0..(n - 1)
  PROVE  /\ 1..(k + 1) \in SUBSET (1..n) /\ 1..(k + 1) # {}
         /\ Max(1..(k + 1)) = k + 1 /\ (1..(k + 1)) \ {k + 1} = 1..k
<1>1. 1..(k + 1) \in SUBSET (1..n)
  OBVIOUS
<1>2. k + 1 \in 1..(k + 1)
  OBVIOUS
<1>3. (1..(k + 1)) \ {k + 1} = 1..k
  OBVIOUS
<1> DEFINE s == 1..(k + 1)
<1>4. Max(s) \in s /\ \A i \in s : i <= Max(s)
  BY <1>1, <1>2, TopPicks
<1>5. Max(s) \in 1..(k + 1) /\ k + 1 <= Max(s)
  BY <1>2, <1>4
<1>6. Max(s) = k + 1
  BY <1>5
<1>. QED
  BY <1>1, <1>2, <1>3, <1>6

\* p[k] is what k steps make of base.
Stepwise(p, n, V, base, step) ==
  /\ p \in [0..n -> V]
  /\ p[0] = base
  /\ \A k \in 0..(n - 1) : p[k + 1] = step[<<k + 1, p[k]>>]

\* f folds the indices of a sequence, as far as its values are in V.
Folds(f, n, V, base, step) ==
  /\ f[{}] = base
  /\ \A s \in SUBSET (1..n) :
       s # {} /\ f[s \ {Max(s)}] \in V => f[s] = step[<<Max(s), f[s \ {Max(s)}]>>]

InStepwise(f, n, V, base, step) == \E p : Stepwise(p, n, V, base, step) /\ p[n] = f[1..n]

LEMMA FoldInSteps ==
  ASSUME NEW n \in Nat, NEW V, NEW base \in V, NEW step \in [(1..n) \X V -> V],
         NEW f, Folds(f, n, V, base, step)
  PROVE  InStepwise(f, n, V, base, step)
<1> DEFINE p == [k \in 0..n |-> f[1..k]]
           T == {k \in 0..n : f[1..k] \in V}
<1>1. f[1..0] = base
  <2>1. 1..0 = {}
    OBVIOUS
  <2>. QED
    BY <2>1 DEF Folds
<1>2. ASSUME NEW k \in 0..(n - 1), f[1..k] \in V
      PROVE  /\ f[1..(k + 1)] = step[<<k + 1, f[1..k]>>]
             /\ f[1..(k + 1)] \in V
  <2>1. /\ 1..(k + 1) \in SUBSET (1..n) /\ 1..(k + 1) # {}
        /\ Max(1..(k + 1)) = k + 1 /\ (1..(k + 1)) \ {k + 1} = 1..k
    BY TopOfPrefix
  <2>2. f[1..(k + 1)] = step[<<k + 1, f[1..k]>>]
    BY <1>2, <2>1 DEF Folds
  <2>3. k + 1 \in 1..n
    OBVIOUS
  <2>. QED
    BY <1>2, <2>2, <2>3
<1>3. \A k \in 0..n : k \in T
  <2>1. 0 \in T
    BY <1>1
  <2>2. \A k \in 0..(n - 1) : k \in T => k + 1 \in T
    <3> SUFFICES ASSUME NEW k \in 0..(n - 1), k \in T PROVE k + 1 \in T
      OBVIOUS
    <3>1. k + 1 \in 0..n /\ f[1..k] \in V
      OBVIOUS
    <3>. QED
      BY <1>2, <3>1
  <2> HIDE DEF T
  <2>. QED
    BY <2>1, <2>2, IntervalInduction
<1>4. p \in [0..n -> V] /\ p[0] = base /\ p[n] = f[1..n]
  BY <1>1, <1>3
<1>5. ASSUME NEW k \in 0..(n - 1) PROVE p[k + 1] = step[<<k + 1, p[k]>>]
  <2>1. k \in 0..n /\ k + 1 \in 0..n
    OBVIOUS
  <2>2. f[1..k] \in V
    BY <1>3, <2>1
  <2>3. f[1..(k + 1)] = step[<<k + 1, f[1..k]>>]
    BY <1>2, <2>2
  <2>. QED
    BY <2>1, <2>3
<1> HIDE DEF p
<1>. QED
  BY <1>4, <1>5 DEF Stepwise, InStepwise

LEMMA StepsExist ==
  ASSUME NEW n \in Nat, NEW V, NEW base \in V, NEW step \in [(1..n) \X V -> V]
  PROVE  \E p : Stepwise(p, n, V, base, step)
<1>1. PICK g \in [SUBSET (1..n) -> V] : FoldsBy(g, 1..n, base, TopOf(n), step)
  BY PrefixFold
<1>2. Folds(g, n, V, base, step)
  BY <1>1 DEF FoldsBy, Folds, TopOf
<1>. QED
  BY <1>2, FoldInSteps DEF InStepwise

\* A recursion on the way to n + 1, that may leap.
Descends(g, n, base, leap, step) ==
  g[n + 1] = base /\ \A i \in 1..n : g[i] = step[<<i, g[leap[i]]>>]

LEMMA DescentExists ==
  ASSUME NEW n \in Nat, NEW V, NEW base \in V, NEW step \in [(1..n) \X V -> V],
         NEW leap, \A i \in 1..n : leap[i] \in (i + 1)..(n + 1)
  PROVE  \E g \in [1..(n + 1) -> V] : Descends(g, n, base, leap, step)
<1> DEFINE Down(m) == (n + 1 - m)..(n + 1)
           Good(g, m) == g[n + 1] = base /\ \A i \in Down(m) : i # n + 1 => g[i] = step[<<i, g[leap[i]]>>]
           T == {m \in 0..n : \E g \in [Down(m) -> V] : Good(g, m)}
<1>1. 0 \in T
  <2>1. Down(0) = {n + 1}
    OBVIOUS
  <2>2. [i \in Down(0) |-> base] \in [Down(0) -> V] /\ Good([i \in Down(0) |-> base], 0)
    BY <2>1
  <2>3. 0 \in 0..n
    OBVIOUS
  <2> HIDE DEF Good, Down
  <2>. QED
    BY <2>2, <2>3
<1>2. ASSUME NEW m \in 0..(n - 1), m \in T PROVE m + 1 \in T
  <2>1. PICK g \in [Down(m) -> V] : Good(g, m)
    BY <1>2
  <2> DEFINE j == n - m
             Val == step[<<j, g[leap[j]]>>]
             h == [i \in Down(m + 1) |-> IF i = j THEN Val ELSE g[i]]
  <2>2. j \in 1..n /\ \A i : i \in Down(m + 1) <=> (i = j \/ i \in Down(m))
    OBVIOUS
  <2>3. j \notin Down(m) /\ n + 1 \in Down(m)
    OBVIOUS
  <2>4. leap[j] \in Down(m)
    BY <2>2
  <2>5. Val \in V
    BY <2>1, <2>2, <2>4
  <2>6. \A i \in Down(m) : i # n + 1 => leap[i] \in Down(m)
    <3> SUFFICES ASSUME NEW i \in Down(m), i # n + 1 PROVE leap[i] \in Down(m)
      OBVIOUS
    <3>1. i \in 1..n
      OBVIOUS
    <3>2. leap[i] \in (i + 1)..(n + 1)
      BY <3>1
    <3>. QED
      BY <3>1, <3>2
  <2> HIDE DEF Down, Val, j
  <2>7. h \in [Down(m + 1) -> V] /\ h[j] = Val /\ \A i \in Down(m) : h[i] = g[i]
    BY <2>1, <2>2, <2>3, <2>5
  <2> HIDE DEF h
  <2>8. Good(h, m + 1)
    <3>1. h[n + 1] = base
      BY <2>1, <2>3, <2>7
    <3>2. ASSUME NEW i \in Down(m + 1), i # n + 1 PROVE h[i] = step[<<i, h[leap[i]]>>]
      <4>1. CASE i = j
        BY <2>4, <2>7, <4>1 DEF Val
      <4>2. CASE i \in Down(m)
        BY <2>1, <2>6, <2>7, <3>2, <4>2
      <4>. QED
        BY <2>2, <4>1, <4>2
    <3>. QED
      BY <3>1, <3>2
  <2>9. m + 1 \in 0..n
    OBVIOUS
  <2>. QED
    BY <2>7, <2>8, <2>9
<1>3. n \in T
  <2> HIDE DEF T
  <2>1. \A m \in 0..n : m \in T
    BY <1>1, <1>2, IntervalInduction
  <2>2. n \in 0..n
    OBVIOUS
  <2>. QED
    BY <2>1, <2>2
<1>4. Down(n) = 1..(n + 1) /\ \A i \in 1..n : i \in Down(n) /\ i # n + 1
  OBVIOUS
<1>. QED
  BY <1>3, <1>4 DEF Descends
=============================================================================
