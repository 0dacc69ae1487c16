---------------------------- MODULE FiniteSetLemmas ----------------------------
(***************************************************************************)
(* What the proofs need of finite sets and the library does not state: a   *)
(* finite set of integers has a greatest and a least element, the ones     *)
(* that Max and Min name; recursive definitions define functions; and the  *)
(* totals of finite sets of numbers can be taken in any order, added,      *)
(* compared and exchanged.                                                 *)
(*                                                                         *)
(* An induction here is over a set: of the subsets, or of the numbers, for *)
(* which the claim holds. A step that uses one defines that set.           *)
(***************************************************************************)
EXTENDS Integers, FiniteSetsExt, FiniteSetTheorems, WellFoundedInduction, TLAPS

\* A nonempty finite set of integers has a greatest element. A smallest one without would
\* still be without after it loses an element.
LEMMA GreatestExists ==
  ASSUME NEW S \in SUBSET Int, IsFiniteSet(S), S # {}
  PROVE  \E m \in S : \A y \in S : m >= y
<1> DEFINE Bad == {T \in FiniteSubsetsOf(S) : T # {} /\ ~\E m \in T : \A y \in T : m >= y}
<1>1. SUFFICES ASSUME Bad # {} PROVE FALSE
  <2>1. S \in FiniteSubsetsOf(S)
    BY DEF FiniteSubsetsOf
  <2> QED
    BY <1>1, <2>1
<1>2. PICK T \in Bad : \A U \in Bad : <<U, T>> \notin StrictSubsetOrdering(S)
  <2>1. Bad \subseteq FiniteSubsetsOf(S)
    OBVIOUS
  <2> HIDE DEF Bad
  <2> QED
    BY <1>1, <2>1, FS_StrictSubsetOrderingWellFounded, WFMin
<1>3. T \subseteq Int /\ IsFiniteSet(T) /\ T \in SUBSET S
  BY DEF FiniteSubsetsOf
<1>4. PICK x \in T : TRUE
  OBVIOUS
<1>5. T \ {x} \in FiniteSubsetsOf(S)
  BY <1>3, FS_RemoveElement DEF FiniteSubsetsOf
<1>6. T \ {x} \notin Bad
  <2>1. <<T \ {x}, T>> \in StrictSubsetOrdering(S)
    BY <1>3, <1>4 DEF StrictSubsetOrdering
  <2> QED
    BY <1>2, <2>1
<1>7. CASE T = {x}
  BY <1>3, <1>7
<1>8. CASE T # {x}
  <2>1. PICK m \in T \ {x} : \A y \in T \ {x} : m >= y
    BY <1>4, <1>5, <1>6, <1>8
  <2>2. \E n \in T : \A y \in T : n >= y
    <3>1. CASE m >= x
      BY <2>1, <3>1
    <3>2. CASE ~(m >= x)
      <4>1. m \in Int /\ x \in Int /\ \A y \in T : y \in Int
        BY <1>3
      <4>2. \A y \in T : x >= y
        BY <2>1, <3>2, <4>1
      <4> QED
        BY <4>2
    <3> QED
      BY <3>1, <3>2
  <2> QED
    BY <2>2
<1> QED
  BY <1>7, <1>8

\* Max names the greatest element.
LEMMA MaxProperties ==
  ASSUME NEW S \in SUBSET Int, IsFiniteSet(S), S # {}
  PROVE  Max(S) \in S /\ \A y \in S : y <= Max(S)
<1>1. Max(S) \in S /\ \A y \in S : Max(S) >= y
  BY GreatestExists DEF Max
<1> QED
  BY <1>1

\* Min names the least element: the greatest with its sign changed.
LEMMA MinProperties ==
  ASSUME NEW S \in SUBSET Int, IsFiniteSet(S), S # {}
  PROVE  Min(S) \in S /\ \A y \in S : Min(S) <= y
<1> DEFINE N == {-x : x \in S}
<1>1. N \in SUBSET Int /\ N # {} /\ IsFiniteSet(N)
  <2>1. IsFiniteSet(N)
    <3> DEFINE f == [x \in S |-> -x]
    <3>1. \A n \in N : \E x \in S : f[x] = n
      OBVIOUS
    <3>2. f \in [S -> N]
      OBVIOUS
    <3>3. f \in Surjection(S, N)
      <4> HIDE DEF f, N
      <4> QED
        BY <3>1, <3>2 DEF Surjection
    <3> QED
      BY <3>3, FS_Surjection
  <2>2. N \in SUBSET Int
    OBVIOUS
  <2>3. N # {}
    <3>1. PICK x \in S : TRUE
      OBVIOUS
    <3>2. -x \in N
      OBVIOUS
    <3> QED
      BY <3>2
  <2> HIDE DEF N
  <2> QED
    BY <2>1, <2>2, <2>3
<1>2. PICK m \in N : \A y \in N : m >= y
  BY <1>1, GreatestExists
<1>3. PICK x \in S : m = -x
  OBVIOUS
<1>4. ASSUME NEW y \in S PROVE x <= y
  <2>1. -y \in N /\ x \in Int /\ y \in Int
    OBVIOUS
  <2> QED
    BY <1>2, <1>3, <2>1
<1>5. \E z \in S : \A y \in S : z <= y
  BY <1>4
<1> QED
  BY <1>5 DEF Min

-----------------------------------------------------------------------------
(* Induction and recursion.                                                *)

\* Induction on the natural numbers, for a set of them.
LEMMA NatSetInduction ==
  ASSUME NEW G, 0 \in G, \A n \in Nat : n \in G => n + 1 \in G
  PROVE  Nat \subseteq G
<1> DEFINE Bad == Nat \ G
<1>1. SUFFICES ASSUME Bad # {} PROVE FALSE
  OBVIOUS
<1>2. PICK n \in Bad : \A m \in Bad : <<m, n>> \notin OpToRel(<, Nat)
  <2>1. Bad \subseteq Nat
    OBVIOUS
  <2> HIDE DEF Bad
  <2> QED
    BY <1>1, <2>1, NatLessThanWellFounded, WFMin
<1>3. n # 0 /\ n - 1 \in Nat
  OBVIOUS
<1>4. n - 1 \in G
  <2>1. <<n - 1, n>> \in OpToRel(<, Nat)
    BY <1>3 DEF OpToRel
  <2> QED
    BY <1>2, <1>3, <2>1
<1> QED
  BY <1>3, <1>4

\* Induction on the subsets of a finite set, for a set of them.
LEMMA SubsetInduction ==
  ASSUME NEW S, IsFiniteSet(S), NEW G,
         \A T \in SUBSET S : (\A U \in SUBSET T : U # T => U \in G) => T \in G
  PROVE  SUBSET S \subseteq G
<1> DEFINE Bad == {T \in SUBSET S : T \notin G}
<1>1. SUFFICES ASSUME Bad # {} PROVE FALSE
  OBVIOUS
<1>2. PICK T \in Bad : \A U \in Bad : <<U, T>> \notin StrictSubsetOrdering(S)
  <2>1. Bad \subseteq FiniteSubsetsOf(S)
    BY FS_Subset DEF FiniteSubsetsOf
  <2> HIDE DEF Bad
  <2> QED
    BY <1>1, <2>1, FS_StrictSubsetOrderingWellFounded, WFMin
<1>3. ASSUME NEW U \in SUBSET T, U # T PROVE U \in G
  <2>1. <<U, T>> \in StrictSubsetOrdering(S)
    BY <1>3 DEF StrictSubsetOrdering
  <2> QED
    BY <1>2, <2>1
<1> QED
  BY <1>3

\* A set of pairs, closed under a recursion.
ClosedUnder(X, D, V, base, b, p, h) ==
  /\ \A d \in base : <<d, b[d]>> \in X
  /\ \A d \in D \ base, v \in V : <<p[d], v>> \in X => <<d, h[<<d, v>>]>> \in X

\* What a function defined by recursion satisfies: b on the base, h elsewhere.
Solves(f, D, base, b, p, h) ==
  \A d \in D : f[d] = IF d \in base THEN b[d] ELSE h[<<d, f[p[d]]>>]

\* A recursion whose argument gets smaller defines a function.
LEMMA RecursionExists ==
  ASSUME NEW D, NEW V, NEW base \in SUBSET D, NEW b \in [base -> V],
         NEW p \in [D \ base -> D], NEW h \in [(D \ base) \X V -> V],
         NEW r \in [D -> Nat], \A d \in D \ base : r[p[d]] < r[d]
  PROVE  \E f \in [D -> V] : Solves(f, D, base, b, p, h)
<1> DEFINE C(X) == ClosedUnder(X, D, V, base, b, p, h)
           R == {z \in D \X V : \A X \in SUBSET (D \X V) : C(X) => z \in X}
           One(d) == \E v \in V : <<d, v>> \in R /\ \A w \in V : <<d, w>> \in R => w = v
           G == {n \in Nat : \A d \in D : r[d] < n => One(d)}
<1>1. R \in SUBSET (D \X V)
  OBVIOUS
<1>2. ASSUME NEW X \in SUBSET (D \X V), C(X) PROVE R \subseteq X
  BY <1>2
<1>3. \A d \in base : <<d, b[d]>> \in R
  BY DEF ClosedUnder
<1>4. ASSUME NEW d \in D \ base, NEW v \in V, <<p[d], v>> \in R PROVE <<d, h[<<d, v>>]>> \in R
  <2>1. h[<<d, v>>] \in V
    OBVIOUS
  <2>2. ASSUME NEW X \in SUBSET (D \X V), C(X) PROVE <<d, h[<<d, v>>]>> \in X
    BY <1>4, <2>2 DEF ClosedUnder
  <2> QED
    BY <2>1, <2>2
<1>5. ASSUME NEW d \in D, NEW v \in V, d \in base => v = b[d],
             d \notin base => \A u \in V : <<p[d], u>> \in R => v = h[<<d, u>>]
      PROVE  \A w \in V : <<d, w>> \in R => w = v
  <2> SUFFICES ASSUME NEW w \in V, <<d, w>> \in R, w # v PROVE FALSE
    OBVIOUS
  <2> DEFINE X == R \ {<<d, w>>}
  <2>1. \A c \in base : <<c, b[c]>> \in X
    BY <1>3, <1>5
  <2>2. ASSUME NEW c \in D \ base, NEW u \in V, <<p[c], u>> \in X PROVE <<c, h[<<c, u>>]>> \in X
    <3>1. <<p[c], u>> \in R
      BY <2>2
    <3>2. <<c, h[<<c, u>>]>> \in R
      BY <1>4, <3>1
    <3>3. c = d => h[<<c, u>>] = v
      BY <1>5, <3>1
    <3> HIDE DEF R
    <3> QED
      BY <3>2, <3>3
  <2>3. C(X)
    <3> HIDE DEF R, X
    <3> QED
      BY <2>1, <2>2 DEF ClosedUnder
  <2>4. X \in SUBSET (D \X V)
    BY <1>1
  <2> HIDE DEF R
  <2> QED
    BY <1>2, <2>3, <2>4
<1> HIDE DEF R
<1>6. ASSUME NEW n \in Nat, n \in G PROVE n + 1 \in G
  <2> SUFFICES ASSUME NEW d \in D, r[d] < n + 1 PROVE One(d)
    OBVIOUS
  <2>1. CASE d \in base
    <3>1. b[d] \in V /\ <<d, b[d]>> \in R
      BY <1>3, <2>1
    <3> QED
      BY <1>5, <2>1, <3>1
  <2>2. CASE d \notin base
    <3>1. p[d] \in D /\ r[p[d]] < n
      BY <2>2
    <3>2. PICK v \in V : <<p[d], v>> \in R /\ \A w \in V : <<p[d], w>> \in R => w = v
      BY <1>6, <3>1
    <3>3. h[<<d, v>>] \in V /\ <<d, h[<<d, v>>]>> \in R
      BY <1>4, <2>2, <3>2
    <3> QED
      BY <1>5, <2>2, <3>2, <3>3
  <2> QED
    BY <2>1, <2>2
<1>7. Nat \subseteq G
  <2>1. 0 \in G
    OBVIOUS
  <2> HIDE DEF G
  <2> QED
    BY <1>6, <2>1, NatSetInduction
<1>8. \A d \in D : One(d)
  <2> SUFFICES ASSUME NEW d \in D PROVE One(d)
    OBVIOUS
  <2>1. r[d] \in Nat /\ r[d] + 1 \in Nat /\ r[d] < r[d] + 1
    OBVIOUS
  <2>2. \A c \in D : r[c] < r[d] + 1 => One(c)
    <3>1. r[d] + 1 \in G
      <4> HIDE DEF G
      <4> QED
        BY <1>7, <2>1
    <3> HIDE DEF One
    <3> QED
      BY <3>1
  <2> HIDE DEF One
  <2> QED
    BY <2>1, <2>2
<1> DEFINE f == [d \in D |-> CHOOSE v \in V : <<d, v>> \in R]
<1>9. \A d \in D : f[d] \in V /\ <<d, f[d]>> \in R /\ \A w \in V : <<d, w>> \in R => w = f[d]
  BY <1>8
<1>10. f \in [D -> V]
  BY <1>9
<1>11. ASSUME NEW d \in D PROVE f[d] = IF d \in base THEN b[d] ELSE h[<<d, f[p[d]]>>]
  <2> HIDE DEF f
  <2>1. CASE d \in base
    BY <1>3, <1>9, <2>1
  <2>2. CASE d \notin base
    <3>1. p[d] \in D /\ f[p[d]] \in V
      BY <1>10, <2>2
    <3>2. <<d, h[<<d, f[p[d]]>>]>> \in R /\ h[<<d, f[p[d]]>>] \in V
      BY <1>4, <1>9, <2>2, <3>1
    <3> QED
      BY <1>9, <2>2, <3>2
  <2> QED
    BY <2>1, <2>2
<1> HIDE DEF f
<1> QED
  BY <1>10, <1>11 DEF Solves

-----------------------------------------------------------------------------
(* Folds and sums over a finite set.                                       *)

\* What a sequence satisfies that starts with b and goes on with h.
Iterates(g, b, h) == \A n \in Nat : g[n] = IF n = 0 THEN b ELSE h[<<n, g[n - 1]>>]

\* Such a sequence exists.
LEMMA IterationExists ==
  ASSUME NEW V, NEW b \in V, NEW h \in [Nat \X V -> V]
  PROVE  \E g \in [Nat -> V] : Iterates(g, b, h)
<1> DEFINE base == {0}
           first == [n \in base |-> b]
           p == [n \in Nat \ base |-> n - 1]
           k == [z \in (Nat \ base) \X V |-> h[z]]
           r == [n \in Nat |-> n]
<1>1. /\ base \in SUBSET Nat /\ first \in [base -> V] /\ p \in [Nat \ base -> Nat]
      /\ r \in [Nat -> Nat] /\ \A n \in Nat \ base : r[p[n]] < r[n]
  OBVIOUS
<1>2. /\ k \in [(Nat \ base) \X V -> V]
      /\ \A n \in Nat \ base, v \in V : k[<<n, v>>] = h[<<n, v>>]
  OBVIOUS
<1>3. PICK g \in [Nat -> V] : Solves(g, Nat, base, first, p, k)
  <2> HIDE DEF base, first, p, k, r
  <2> QED
    BY <1>1, <1>2, RecursionExists
<1>4. ASSUME NEW n \in Nat PROVE g[n] = IF n = 0 THEN b ELSE h[<<n, g[n - 1]>>]
  <2>1. CASE n = 0
    BY <1>3, <2>1 DEF Solves
  <2>2. CASE n # 0
    <3>1. n \in Nat \ base /\ p[n] = n - 1 /\ g[n - 1] \in V
      BY <2>2
    <3>2. g[n] = k[<<n, g[p[n]]>>]
      BY <1>3, <3>1 DEF Solves
    <3> HIDE DEF k, p, base
    <3> QED
      BY <1>2, <2>2, <3>1, <3>2
  <2> QED
    BY <2>1, <2>2
<1> QED
  BY <1>4 DEF Iterates

\* What a fold satisfies that takes the elements of a set in the order x, starting from b.
FoldsBy(g, S, b, x, h) ==
  \A T \in SUBSET S : g[T] = IF T = {} THEN b ELSE h[<<x[T], g[T \ {x[T]}]>>]

\* A recursion that takes one element after the other from a finite set.
LEMMA FoldExists ==
  ASSUME NEW S, IsFiniteSet(S), NEW V, NEW b \in V, NEW h \in [S \X V -> V],
         NEW x, \A T \in SUBSET S : T # {} => x[T] \in T
  PROVE  \E g \in [SUBSET S -> V] : FoldsBy(g, S, b, x, h)
<1> DEFINE D == SUBSET S
           base == {{}}
           r == [T \in D |-> Cardinality(T)]
           p == [T \in D \ base |-> T \ {x[T]}]
           e == [T \in base |-> b]
           k == [z \in (D \ base) \X V |-> h[<<x[z[1]], z[2]>>]]
<1>1. base \in SUBSET D /\ e \in [base -> V] /\ p \in [D \ base -> D]
  OBVIOUS
<1>2. k \in [(D \ base) \X V -> V]
  <2>1. ASSUME NEW T \in D \ base, NEW v \in V PROVE h[<<x[T], v>>] \in V
    OBVIOUS
  <2> QED
    BY <2>1
<1>3. r \in [D -> Nat] /\ \A T \in D \ base : r[p[T]] < r[T]
  <2>1. ASSUME NEW T \in D PROVE IsFiniteSet(T) /\ Cardinality(T) \in Nat
    BY FS_Subset, FS_CardinalityType
  <2>2. ASSUME NEW T \in D \ base PROVE r[p[T]] < r[T]
    <3>1. T \in D /\ T # {} /\ x[T] \in T /\ T \ {x[T]} \in D
      OBVIOUS
    <3>2. Cardinality(T \ {x[T]}) = Cardinality(T) - 1
      BY <2>1, <3>1, FS_RemoveElement
    <3> QED
      BY <2>1, <3>1, <3>2
  <2> QED
    BY <2>1, <2>2
<1>4. PICK g \in [D -> V] : Solves(g, D, base, e, p, k)
  <2> HIDE DEF D, base, r, p, e, k
  <2> QED
    BY <1>1, <1>2, <1>3, RecursionExists
<1>5. ASSUME NEW T \in D PROVE g[T] = IF T = {} THEN b ELSE h[<<x[T], g[T \ {x[T]}]>>]
  <2>1. CASE T = {}
    BY <1>4, <2>1 DEF Solves
  <2>2. CASE T # {}
    <3>1. T \in D \ base /\ p[T] = T \ {x[T]} /\ g[T \ {x[T]}] \in V
      BY <2>2
    <3>2. g[T] = k[<<T, g[p[T]]>>]
      BY <1>4, <2>2 DEF Solves
    <3> QED
      BY <2>2, <3>1, <3>2
  <2> QED
    BY <2>1, <2>2
<1> QED
  BY <1>5 DEF FoldsBy

Total(f, S) == MapThenSumSet(LAMBDA x : f[x], S)

\* The sums over the subsets of S, one by one.
Sums(g, f, S) ==
  \A T \in SUBSET S :
    g[T] = IF T = {} THEN 0 ELSE f[CHOOSE x \in T : TRUE] + g[T \ {CHOOSE x \in T : TRUE}]

\* A total is the end of its recursion.
LEMMA TotalFold ==
  ASSUME NEW S, IsFiniteSet(S), NEW f, \A x \in S : f[x] \in Int
  PROVE  \E g \in [SUBSET S -> Int] : Total(f, S) = g[S] /\ Sums(g, f, S)
<1> DEFINE x == [T \in SUBSET S |-> CHOOSE y \in T : TRUE]
           h == [z \in S \X Int |-> f[z[1]] + z[2]]
           eq(g) == g = [T \in SUBSET S |-> IF T = {} THEN 0 ELSE
                           f[CHOOSE y \in T : TRUE] + g[T \ {CHOOSE y \in T : TRUE}]]
<1>1. \A T \in SUBSET S : T # {} => x[T] \in T
  OBVIOUS
<1>2. h \in [S \X Int -> Int] /\ \A y \in S, n \in Int : h[<<y, n>>] = f[y] + n
  OBVIOUS
<1>3. PICK g \in [SUBSET S -> Int] : FoldsBy(g, S, 0, x, h)
  <2>1. 0 \in Int
    OBVIOUS
  <2> HIDE DEF x, h
  <2> QED
    BY <1>1, <1>2, <2>1, FoldExists
<1>4. eq(g)
  <2>1. ASSUME NEW T \in SUBSET S
        PROVE  (IF T = {} THEN 0 ELSE h[<<x[T], g[T \ {x[T]}]>>])
               = IF T = {} THEN 0 ELSE f[CHOOSE y \in T : TRUE] + g[T \ {CHOOSE y \in T : TRUE}]
    <3>1. CASE T # {}
      <4>1. x[T] \in S /\ g[T \ {x[T]}] \in Int
        BY <1>1, <3>1
      <4>2. h[<<x[T], g[T \ {x[T]}]>>] = f[x[T]] + g[T \ {x[T]}]
        <5> HIDE DEF x, h
        <5> QED
          BY <1>2, <4>1
      <4> HIDE DEF h
      <4> QED
        BY <3>1, <4>2
    <3> QED
      BY <3>1
  <2> HIDE DEF x, h
  <2> QED
    BY <1>3, <2>1 DEF FoldsBy
<1>5. \A k : eq(k) => k = g
  <2> SUFFICES ASSUME NEW k, eq(k) PROVE k = g
    OBVIOUS
  <2> DEFINE G == {T \in SUBSET S : k[T] = g[T]}
  <2>1. ASSUME NEW T \in SUBSET S, \A U \in SUBSET T : U # T => U \in G PROVE T \in G
    <3>1. CASE T = {}
      BY <1>4, <3>1
    <3>2. CASE T # {}
      <4> DEFINE y == CHOOSE y \in T : TRUE
      <4>1. y \in T
        BY <3>2
      <4>2. T \ {y} \in G
        <5>1. T \ {y} \in SUBSET T /\ T \ {y} # T
          BY <4>1
        <5> HIDE DEF G, y
        <5> QED
          BY <2>1, <5>1
      <4>3. k[T] = f[y] + k[T \ {y}] /\ g[T] = f[y] + g[T \ {y}]
        BY <1>4, <3>2
      <4> QED
        BY <4>2, <4>3
    <3> QED
      BY <3>1, <3>2
  <2>2. SUBSET S \subseteq G
    <3> HIDE DEF G
    <3> QED
      BY <2>1, SubsetInduction
  <2>3. \A T \in SUBSET S : k[T] = g[T]
    BY <2>2
  <2>4. k = [T \in SUBSET S |-> k[T]] /\ g = [T \in SUBSET S |-> g[T]]
    OBVIOUS
  <2> HIDE DEF eq
  <2> QED
    BY <2>3, <2>4
<1>6. Total(f, S) = (CHOOSE k : eq(k))[S]
  BY DEF Total, MapThenSumSet, MapThenFoldSet
<1>7. (CHOOSE k : eq(k)) = g
  <2> HIDE DEF eq
  <2> QED
    BY <1>4, <1>5
<1>8. Sums(g, f, S)
  BY <1>4 DEF Sums
<1>9. Total(f, S) = g[S]
  BY <1>6, <1>7
<1> HIDE DEF eq
<1> QED
  BY <1>4, <1>8, <1>9

\* A total of integers is an integer.
LEMMA TotalType ==
  ASSUME NEW S, IsFiniteSet(S), NEW f, \A x \in S : f[x] \in Int
  PROVE  Total(f, S) \in Int
<1>1. PICK g \in [SUBSET S -> Int] : Total(f, S) = g[S]
  BY TotalFold
<1> QED
  BY <1>1

\* That of nothing is zero.
LEMMA TotalEmpty == ASSUME NEW f PROVE Total(f, {}) = 0
<1>1. IsFiniteSet({})
  BY FS_EmptySet
<1>2. PICK g \in [SUBSET {} -> Int] : Total(f, {}) = g[{}] /\ Sums(g, f, {})
  BY <1>1, TotalFold
<1> QED
  BY <1>2 DEF Sums

\* The total of a set that is not empty, by its recursion.
LEMMA TotalFirst ==
  ASSUME NEW S, IsFiniteSet(S), S # {}, NEW f, \A x \in S : f[x] \in Int
  PROVE  LET c == CHOOSE x \in S : TRUE IN Total(f, S) = f[c] + Total(f, S \ {c})
<1> DEFINE c == CHOOSE x \in S : TRUE
           R == S \ {c}
           y(T) == CHOOSE x \in T : TRUE
<1>1. PICK g \in [SUBSET S -> Int] : Total(f, S) = g[S] /\ Sums(g, f, S)
  BY TotalFold
<1>2. PICK k \in [SUBSET R -> Int] : Total(f, R) = k[R] /\ Sums(k, f, R)
  <2>1. IsFiniteSet(R) /\ \A x \in R : f[x] \in Int
    BY FS_Subset
  <2> HIDE DEF R
  <2> QED
    BY <2>1, TotalFold
<1> DEFINE G == {T \in SUBSET R : k[T] = g[T]}
<1>3. ASSUME NEW T \in SUBSET R, \A U \in SUBSET T : U # T => U \in G PROVE T \in G
  <2>1. CASE T = {}
    BY <1>1, <1>2, <2>1 DEF Sums
  <2>2. CASE T # {}
    <3>1. y(T) \in T
      BY <2>2
    <3> HIDE DEF y
    <3>2. T \ {y(T)} \in G
      <4>1. T \ {y(T)} \in SUBSET T /\ T \ {y(T)} # T
        BY <3>1
      <4> HIDE DEF G
      <4> QED
        BY <1>3, <4>1
    <3>3. k[T] = f[y(T)] + k[T \ {y(T)}] /\ g[T] = f[y(T)] + g[T \ {y(T)}]
      BY <1>1, <1>2, <2>2 DEF Sums, y
    <3> QED
      BY <3>2, <3>3
  <2> QED
    BY <2>1, <2>2
<1>4. R \in G
  <2>1. IsFiniteSet(R) /\ R \in SUBSET R
    BY FS_Subset
  <2>2. SUBSET R \subseteq G
    <3> HIDE DEF G, R
    <3> QED
      BY <1>3, <2>1, SubsetInduction
  <2> QED
    BY <2>2
<1>5. g[S] = f[c] + g[R]
  BY <1>1 DEF Sums
<1> QED
  BY <1>1, <1>2, <1>4, <1>5

\* Any element may be counted first.
LEMMA TotalTake ==
  ASSUME NEW S, IsFiniteSet(S), NEW f, \A x \in S : f[x] \in Int, NEW x \in S
  PROVE  Total(f, S) = f[x] + Total(f, S \ {x})
<1> DEFINE G == {T \in SUBSET S : \A y \in T : Total(f, T) = f[y] + Total(f, T \ {y})}
<1>1. ASSUME NEW T \in SUBSET S PROVE IsFiniteSet(T) /\ Total(f, T) \in Int
  <2>1. IsFiniteSet(T)
    BY FS_Subset
  <2> QED
    BY <2>1, TotalType
<1>2. ASSUME NEW T \in SUBSET S, \A U \in SUBSET T : U # T => U \in G PROVE T \in G
  <2> SUFFICES ASSUME NEW y \in T PROVE Total(f, T) = f[y] + Total(f, T \ {y})
    OBVIOUS
  <2> DEFINE c == CHOOSE z \in T : TRUE
  <2>1. c \in T /\ Total(f, T) = f[c] + Total(f, T \ {c})
    BY <1>1, TotalFirst
  <2> HIDE DEF c
  <2>2. CASE y = c
    BY <2>1, <2>2
  <2>3. CASE y # c
    <3>1. T \ {c} \in G /\ T \ {y} \in G
      <4>1. T \ {c} \in SUBSET T /\ T \ {c} # T /\ T \ {y} \in SUBSET T /\ T \ {y} # T
        BY <2>1
      <4> HIDE DEF G
      <4> QED
        BY <1>2, <4>1
    <3>2. /\ Total(f, T \ {c}) = f[y] + Total(f, (T \ {c}) \ {y})
          /\ Total(f, T \ {y}) = f[c] + Total(f, (T \ {y}) \ {c})
      BY <2>1, <2>3, <3>1
    <3>3. (T \ {c}) \ {y} = (T \ {y}) \ {c}
      OBVIOUS
    <3>4. f[c] \in Int /\ f[y] \in Int /\ Total(f, (T \ {c}) \ {y}) \in Int
      BY <1>1, <2>1
    <3> DEFINE n == Total(f, (T \ {c}) \ {y})
    <3>5. /\ Total(f, T \ {c}) = f[y] + n /\ Total(f, T \ {y}) = f[c] + n
          /\ Total(f, T) = f[c] + Total(f, T \ {c})
      BY <2>1, <3>2, <3>3
    <3>6. n \in Int
      BY <3>4
    <3> HIDE DEF n
    <3> QED
      BY <3>4, <3>5, <3>6
  <2> QED
    BY <2>2, <2>3
<1>3. S \in G
  <2> HIDE DEF G
  <2> QED
    BY <1>2, SubsetInduction
<1> QED
  BY <1>3

\* Greater terms have a greater total.
LEMMA TotalMonotone ==
  ASSUME NEW S, IsFiniteSet(S), NEW f, NEW g,
         \A x \in S : f[x] \in Int /\ g[x] \in Int /\ f[x] <= g[x]
  PROVE  Total(f, S) <= Total(g, S)
<1> DEFINE G == {T \in SUBSET S : Total(f, T) <= Total(g, T)}
<1>1. ASSUME NEW T \in SUBSET S, \A U \in SUBSET T : U # T => U \in G PROVE T \in G
  <2>1. IsFiniteSet(T)
    BY FS_Subset
  <2>2. CASE T = {}
    BY <2>2, TotalEmpty
  <2>3. CASE T # {}
    <3>1. PICK x \in T : TRUE
      BY <2>3
    <3> DEFINE U == T \ {x}
    <3>2. U \in G /\ IsFiniteSet(U) /\ U \in SUBSET S
      <4>1. U \in SUBSET T /\ U # T
        BY <3>1
      <4> HIDE DEF G, U
      <4> QED
        BY <1>1, <2>1, <4>1, FS_Subset
    <3>3. Total(f, U) \in Int /\ Total(g, U) \in Int /\ Total(f, U) <= Total(g, U)
      BY <3>2, TotalType
    <3>4. Total(f, T) = f[x] + Total(f, U) /\ Total(g, T) = g[x] + Total(g, U)
      BY <2>1, TotalTake
    <3> HIDE DEF U
    <3> QED
      BY <3>3, <3>4
  <2> QED
    BY <2>2, <2>3
<1>2. S \in G
  <2> HIDE DEF G
  <2> QED
    BY <1>1, SubsetInduction
<1> QED
  BY <1>2

\* Equal terms have equal totals.
LEMMA TotalSame ==
  ASSUME NEW S, IsFiniteSet(S), NEW f, NEW g, \A x \in S : f[x] \in Int /\ f[x] = g[x]
  PROVE  Total(f, S) = Total(g, S)
<1>1. Total(f, S) <= Total(g, S) /\ Total(g, S) <= Total(f, S)
  BY TotalMonotone
<1>2. Total(f, S) \in Int /\ Total(g, S) \in Int
  BY TotalType
<1> QED
  BY <1>1, <1>2

\* The total of sums is the sum of the totals.
LEMMA TotalAdd ==
  ASSUME NEW S, IsFiniteSet(S), NEW f, NEW g, NEW h,
         \A x \in S : f[x] \in Int /\ g[x] \in Int /\ h[x] = f[x] + g[x]
  PROVE  Total(h, S) = Total(f, S) + Total(g, S)
<1> DEFINE G == {T \in SUBSET S : Total(h, T) = Total(f, T) + Total(g, T)}
<1>1. ASSUME NEW T \in SUBSET S, \A U \in SUBSET T : U # T => U \in G PROVE T \in G
  <2>1. IsFiniteSet(T) /\ \A x \in S : h[x] \in Int
    BY FS_Subset
  <2>2. CASE T = {}
    BY <2>2, TotalEmpty
  <2>3. CASE T # {}
    <3>1. PICK x \in T : TRUE
      BY <2>3
    <3> DEFINE U == T \ {x}
    <3>2. U \in G /\ IsFiniteSet(U) /\ U \in SUBSET S
      <4>1. U \in SUBSET T /\ U # T
        BY <3>1
      <4> HIDE DEF G, U
      <4> QED
        BY <1>1, <2>1, <4>1, FS_Subset
    <3>3. /\ Total(f, U) \in Int /\ Total(g, U) \in Int
          /\ Total(h, U) = Total(f, U) + Total(g, U)
      BY <3>2, TotalType
    <3>4. /\ Total(f, T) = f[x] + Total(f, U) /\ Total(g, T) = g[x] + Total(g, U)
          /\ Total(h, T) = h[x] + Total(h, U)
      BY <2>1, TotalTake
    <3> HIDE DEF U
    <3> QED
      BY <3>3, <3>4
  <2> QED
    BY <2>2, <2>3
<1>2. S \in G
  <2> HIDE DEF G
  <2> QED
    BY <1>1, SubsetInduction
<1> QED
  BY <1>2

\* The total of equal terms.
LEMMA TotalConstant ==
  ASSUME NEW S, IsFiniteSet(S), NEW f, NEW n \in Int, \A x \in S : f[x] = n
  PROVE  Total(f, S) = Cardinality(S) * n
<1> DEFINE G == {T \in SUBSET S : Total(f, T) = Cardinality(T) * n}
<1>1. ASSUME NEW T \in SUBSET S, \A U \in SUBSET T : U # T => U \in G PROVE T \in G
  <2>1. IsFiniteSet(T)
    BY FS_Subset
  <2>2. CASE T = {}
    BY <2>2, TotalEmpty, FS_EmptySet
  <2>3. CASE T # {}
    <3>1. PICK x \in T : TRUE
      BY <2>3
    <3> DEFINE U == T \ {x}
    <3>2. U \in G
      <4>1. U \in SUBSET T /\ U # T
        BY <3>1
      <4> HIDE DEF G, U
      <4> QED
        BY <1>1, <4>1
    <3>3. Cardinality(U) \in Nat /\ Cardinality(T) = Cardinality(U) + 1
      <4>1. IsFiniteSet(U) /\ Cardinality(U) = Cardinality(T) - 1
        BY <2>1, <3>1, FS_RemoveElement
      <4>2. Cardinality(U) \in Nat /\ Cardinality(T) \in Nat
        BY <2>1, <4>1, FS_CardinalityType
      <4> HIDE DEF U
      <4> QED
        BY <4>1, <4>2
    <3>4. Total(f, U) = Cardinality(U) * n
      BY <3>2
    <3>5. Total(f, T) = n + Total(f, U)
      BY <2>1, TotalTake
    <3> DEFINE u == Cardinality(U)
    <3>6. (u + 1) * n = u * n + n
      <4>1. u \in Nat
        BY <3>3
      <4> HIDE DEF u
      <4> QED
        BY <4>1
    <3> HIDE DEF U
    <3>7. Total(f, T) = Cardinality(T) * n
      BY <3>3, <3>4, <3>5, <3>6
    <3> QED
      BY <3>7
  <2> QED
    BY <2>2, <2>3
<1>2. S \in G
  <2> HIDE DEF G
  <2> QED
    BY <1>1, SubsetInduction
<1> QED
  BY <1>2

\* A factor of every term is a factor of the total.
LEMMA TotalTimes ==
  ASSUME NEW S, IsFiniteSet(S), NEW f, NEW g, NEW n \in Int,
         \A x \in S : f[x] \in Int /\ g[x] = n * f[x]
  PROVE  Total(g, S) = n * Total(f, S)
<1> DEFINE G == {T \in SUBSET S : Total(g, T) = n * Total(f, T)}
<1>1. ASSUME NEW T \in SUBSET S, \A U \in SUBSET T : U # T => U \in G PROVE T \in G
  <2>1. IsFiniteSet(T) /\ \A x \in S : g[x] \in Int
    BY FS_Subset
  <2>2. CASE T = {}
    BY <2>2, TotalEmpty
  <2>3. CASE T # {}
    <3>1. PICK x \in T : TRUE
      BY <2>3
    <3> DEFINE U == T \ {x}
               u == Total(f, U)
    <3>2. U \in G /\ IsFiniteSet(U) /\ U \in SUBSET S
      <4>1. U \in SUBSET T /\ U # T
        BY <3>1
      <4> HIDE DEF G, U
      <4> QED
        BY <1>1, <2>1, <4>1, FS_Subset
    <3>3. u \in Int /\ Total(g, U) = n * u
      BY <3>2, TotalType
    <3>4. Total(f, T) = f[x] + u /\ Total(g, T) = g[x] + Total(g, U)
      BY <2>1, TotalTake
    <3>5. f[x] \in Int /\ g[x] = n * f[x]
      OBVIOUS
    <3> HIDE DEF U, u
    <3>6. n * (f[x] + u) = n * f[x] + n * u
      BY <3>3, <3>5
    <3>7. Total(g, T) = n * Total(f, T)
      BY <3>3, <3>4, <3>5, <3>6
    <3> QED
      BY <3>7
  <2> QED
    BY <2>2, <2>3
<1>2. S \in G
  <2> HIDE DEF G
  <2> QED
    BY <1>1, SubsetInduction
<1> QED
  BY <1>2

\* Terms that are not negative have a total that is none less than each.
LEMMA TotalNat ==
  ASSUME NEW S, IsFiniteSet(S), NEW f, \A x \in S : f[x] \in Nat
  PROVE  Total(f, S) \in Nat /\ \A x \in S : f[x] <= Total(f, S)
<1>1. ASSUME NEW T \in SUBSET S PROVE Total(f, T) \in Nat
  <2> DEFINE zero == [x \in T |-> 0]
  <2>1. IsFiniteSet(T) /\ Cardinality(T) \in Nat
    BY FS_Subset, FS_CardinalityType
  <2>2. Total(zero, T) = 0
    <3>1. \A x \in T : zero[x] = 0
      OBVIOUS
    <3>2. Total(zero, T) = Cardinality(T) * 0
      <4> HIDE DEF zero
      <4> QED
        BY <2>1, <3>1, TotalConstant
    <3> HIDE DEF zero
    <3> QED
      BY <2>1, <3>2
  <2>3. Total(f, T) \in Int
    BY <2>1, TotalType
  <2>4. Total(zero, T) <= Total(f, T)
    <3>1. \A x \in T : zero[x] \in Int /\ f[x] \in Int /\ zero[x] <= f[x]
      OBVIOUS
    <3> HIDE DEF zero
    <3> QED
      BY <2>1, <3>1, TotalMonotone
  <2> HIDE DEF zero
  <2> QED
    BY <2>2, <2>3, <2>4
<1>2. ASSUME NEW x \in S PROVE f[x] <= Total(f, S)
  <2>1. Total(f, S) = f[x] + Total(f, S \ {x})
    BY TotalTake
  <2>2. Total(f, S \ {x}) \in Nat
    BY <1>1
  <2> QED
    BY <2>1, <2>2
<1> QED
  BY <1>1, <1>2

\* Terms that are zero need not be counted.
LEMMA TotalWithin ==
  ASSUME NEW S, IsFiniteSet(S), NEW T \in SUBSET S, NEW f, NEW g,
         \A x \in S : f[x] \in Int, \A x \in T : f[x] = g[x], \A x \in S \ T : f[x] = 0
  PROVE  Total(f, S) = Total(g, T)
<1> DEFINE G == {U \in SUBSET S : Total(f, U) = Total(g, U \cap T)}
<1>1. ASSUME NEW U \in SUBSET S, \A W \in SUBSET U : W # U => W \in G PROVE U \in G
  <2>1. IsFiniteSet(U) /\ IsFiniteSet(U \cap T)
    BY FS_Subset
  <2>2. CASE U = {}
    BY <2>2, TotalEmpty
  <2>3. CASE U # {}
    <3>1. PICK x \in U : TRUE
      BY <2>3
    <3> DEFINE W == U \ {x}
    <3>2. W \in G /\ IsFiniteSet(W \cap T) /\ W \cap T \in SUBSET T
      <4>1. W \in SUBSET U /\ W # U
        BY <3>1
      <4> HIDE DEF G, W
      <4> QED
        BY <1>1, <2>1, <4>1, FS_Subset
    <3>3. Total(f, U) = f[x] + Total(f, W) /\ Total(f, W) = Total(g, W \cap T)
      <4>1. Total(f, U) = f[x] + Total(f, W)
        BY <2>1, TotalTake
      <4> QED
        BY <3>2, <4>1
    <3>4. \A y \in T : g[y] \in Int
      OBVIOUS
    <3>5. Total(g, W \cap T) \in Int
      <4> HIDE DEF W
      <4> QED
        BY <3>2, <3>4, TotalType
    <3>6. CASE x \in T
      <4>1. (U \cap T) \ {x} = W \cap T /\ x \in U \cap T
        BY <3>6
      <4>2. Total(g, U \cap T) = g[x] + Total(g, (U \cap T) \ {x})
        BY <2>1, <3>4, <4>1, TotalTake
      <4>3. f[x] = g[x]
        BY <3>6
      <4>4. Total(f, U) = Total(g, U \cap T)
        BY <3>3, <4>1, <4>2, <4>3
      <4> QED
        BY <4>4
    <3>7. CASE x \notin T
      <4>1. U \cap T = W \cap T /\ f[x] = 0
        BY <3>7
      <4>2. Total(g, U \cap T) = Total(g, W \cap T)
        BY <4>1
      <4>3. Total(f, U) = Total(f, W)
        <5> HIDE DEF W
        <5> QED
          BY <3>3, <3>5, <4>1
      <4>4. Total(f, U) = Total(g, U \cap T)
        BY <3>3, <4>2, <4>3
      <4> QED
        BY <4>4
    <3> QED
      BY <3>6, <3>7
  <2> QED
    BY <2>2, <2>3
<1>2. S \in G
  <2> HIDE DEF G
  <2> QED
    BY <1>1, SubsetInduction
<1>3. S \cap T = T
  OBVIOUS
<1> QED
  BY <1>2, <1>3

\* A table by rows and by columns, and the totals of its lines.
Transposed(row, column, S, T) ==
  \A x \in S, y \in T : row[x][y] \in Int /\ column[y][x] = row[x][y]
Totals(f, row, S, T) == \A x \in S : f[x] = Total(row[x], T)

\* A table has one total, by rows or by columns.
LEMMA TotalExchange ==
  ASSUME NEW S, IsFiniteSet(S), NEW T, IsFiniteSet(T), NEW row, NEW column, NEW f, NEW g,
         Transposed(row, column, S, T), Totals(f, row, S, T), Totals(g, column, T, S)
  PROVE  Total(f, S) = Total(g, T)
<1> DEFINE part(U) == [y \in T |-> Total(column[y], U)]
           G == {U \in SUBSET S : Total(f, U) = Total(part(U), T)}
<1> USE DEF Transposed, Totals
<1>1. ASSUME NEW U \in SUBSET S PROVE IsFiniteSet(U) /\ \A y \in T : part(U)[y] \in Int
  <2>1. IsFiniteSet(U)
    BY FS_Subset
  <2>2. ASSUME NEW y \in T PROVE Total(column[y], U) \in Int
    <3>1. \A x \in U : column[y][x] \in Int
      OBVIOUS
    <3> QED
      BY <2>1, <3>1, TotalType
  <2> QED
    BY <2>1, <2>2
<1>2. \A x \in S : f[x] \in Int
  BY TotalType
<1>3. ASSUME NEW U \in SUBSET S, \A W \in SUBSET U : W # U => W \in G PROVE U \in G
  <2>1. CASE U = {}
    <3>1. \A y \in T : part(U)[y] = 0
      BY <2>1, TotalEmpty
    <3>2. Total(part(U), T) = Cardinality(T) * 0
      <4> HIDE DEF part
      <4> QED
        BY <3>1, TotalConstant
    <3>3. Cardinality(T) \in Nat
      BY FS_CardinalityType
    <3>4. Total(part(U), T) = 0 /\ Total(f, U) = 0
      <4> HIDE DEF part
      <4> QED
        BY <2>1, <3>2, <3>3, TotalEmpty
    <3> QED
      BY <3>4
  <2>2. CASE U # {}
    <3>1. PICK x \in U : TRUE
      BY <2>2
    <3> DEFINE W == U \ {x}
    <3>2. W \in G /\ W \in SUBSET S
      <4>1. W \in SUBSET U /\ W # U
        BY <3>1
      <4> HIDE DEF G, W
      <4> QED
        BY <1>3, <4>1
    <3>3. ASSUME NEW y \in T PROVE part(U)[y] = row[x][y] + part(W)[y]
      <4>1. \A z \in U : column[y][z] \in Int
        OBVIOUS
      <4>2. Total(column[y], U) = column[y][x] + Total(column[y], W)
        BY <1>1, <4>1, TotalTake
      <4> QED
        BY <4>2
    <3>4. Total(part(U), T) = Total(row[x], T) + Total(part(W), T)
      <4>1. \A y \in T : part(W)[y] \in Int
        <5> HIDE DEF part, W
        <5> QED
          BY <1>1, <3>2
      <4>2. \A y \in T : row[x][y] \in Int
        OBVIOUS
      <4> HIDE DEF part, W
      <4> QED
        BY <3>3, <4>1, <4>2, TotalAdd
    <3>5. Total(f, U) = f[x] + Total(f, W)
      BY <1>1, <1>2, TotalTake
    <3>6. Total(f, W) = Total(part(W), T)
      BY <3>2
    <3>7. Total(f, U) = Total(part(U), T)
      <4> HIDE DEF part, W
      <4> QED
        BY <3>4, <3>5, <3>6
    <3> QED
      BY <3>7
  <2> QED
    BY <2>1, <2>2
<1>4. S \in G
  <2> HIDE DEF G
  <2> QED
    BY <1>3, SubsetInduction
<1>5. Total(f, S) = Total(part(S), T)
  BY <1>4
<1>6. Total(part(S), T) = Total(g, T)
  <2>1. \A y \in T : part(S)[y] \in Int /\ part(S)[y] = g[y]
    BY <1>1
  <2> HIDE DEF part
  <2> QED
    BY <2>1, TotalSame
<1> QED
  BY <1>5, <1>6

\* What a fold from the left satisfies, for every set of places: the last comes last.
LeftFolds(k, n, b, h) ==
  \A T \in SUBSET (1..n) : k[T] = IF T = {} THEN b ELSE h[<<k[T \ {Max(T)}], Max(T)>>]

\* The first places but the last of them.
LEMMA PrefixIs ==
  ASSUME NEW n \in Nat, NEW i \in 1..n
  PROVE  /\ 1..i \in SUBSET (1..n) /\ 1..i # {} /\ 1..n \in SUBSET (1..n)
         /\ Max(1..i) = i /\ (1..i) \ {i} = 1..(i - 1) /\ 1..(i - 1) \in SUBSET (1..n)
         /\ i - 1 \in Nat /\ 1..0 = {}
<1> DEFINE I == 1..i
<1>1. I \in SUBSET Int /\ i \in I /\ \A j \in I : j <= i
  OBVIOUS
<1>2. IsFiniteSet(I)
  BY FS_Interval
<1> HIDE DEF I
<1>3. Max(I) \in I /\ i <= Max(I)
  BY <1>1, <1>2, MaxProperties
<1>4. Max(I) = i
  <2>1. Max(I) \in Int /\ i \in Int /\ Max(I) <= i
    BY <1>1, <1>3
  <2> QED
    BY <1>3, <2>1
<1>5. I \ {i} = 1..(i - 1)
  BY DEF I
<1> QED
  BY <1>4, <1>5 DEF I

\* A fold from the left exists.
LEMMA LeftFoldExists ==
  ASSUME NEW n \in Nat, NEW V, NEW b \in V, NEW h \in [V \X (1..n) -> V]
  PROVE  \E k \in [SUBSET (1..n) -> V] : LeftFolds(k, n, b, h)
<1> DEFINE I == 1..n
           x == [T \in SUBSET I |-> Max(T)]
           swapped == [z \in I \X V |-> h[<<z[2], z[1]>>]]
<1>1. IsFiniteSet(I) /\ I \in SUBSET Int
  BY FS_Interval
<1>2. \A T \in SUBSET I : T # {} => x[T] \in T
  <2> SUFFICES ASSUME NEW T \in SUBSET I, T # {} PROVE Max(T) \in T
    OBVIOUS
  <2> HIDE DEF I
  <2>1. IsFiniteSet(T) /\ T \in SUBSET Int
    BY <1>1, FS_Subset
  <2> QED
    BY <2>1, MaxProperties
<1>3. /\ swapped \in [I \X V -> V]
      /\ \A i \in I, v \in V : swapped[<<i, v>>] = h[<<v, i>>]
  OBVIOUS
<1>4. PICK k \in [SUBSET I -> V] : FoldsBy(k, I, b, x, swapped)
  <2> HIDE DEF I, x, swapped
  <2> QED
    BY <1>1, <1>2, <1>3, FoldExists
<1>5. ASSUME NEW T \in SUBSET I
      PROVE  k[T] = IF T = {} THEN b ELSE h[<<k[T \ {Max(T)}], Max(T)>>]
  <2>1. CASE T = {}
    BY <1>4, <2>1 DEF FoldsBy
  <2>2. CASE T # {}
    <3>1. x[T] \in I /\ k[T \ {x[T]}] \in V /\ x[T] = Max(T)
      BY <1>2, <2>2
    <3>2. k[T] = swapped[<<x[T], k[T \ {x[T]}]>>]
      BY <1>4, <2>2 DEF FoldsBy
    <3> HIDE DEF swapped, x, I
    <3> QED
      BY <1>3, <2>2, <3>1, <3>2
  <2> QED
    BY <2>1, <2>2
<1> QED
  BY <1>5 DEF LeftFolds

=============================================================================
