--------------------------- MODULE SequenceLemmas ---------------------------
(***************************************************************************)
(* What the proofs need about data: induction over the naturals, functions *)
(* defined by recursion, folds, largest and smallest elements, and the     *)
(* elements of a finite set in an order.                                   *)
(*                                                                         *)
(* The library's induction theorems have an operator as a parameter, which *)
(* no prover here can instantiate. A set does as well: it holds all        *)
(* naturals if it holds 0 and the successor of each of its elements.       *)
(***************************************************************************)
EXTENDS SequencesExt, Ordered, WellFoundedInduction, FiniteSetTheorems, TLAPS

\* A nonempty set of naturals has a least element.
LEMMA SmallestNat ==
  ASSUME NEW T \in SUBSET Nat, T # {}
  PROVE  \E n \in T : \A m \in T : n <= m
  <1> DEFINE R == {ss \in Nat \X Nat : ss[1] < ss[2]}
  <1>1. IsWellFoundedOn(R, Nat)
    BY NatLessThanWellFounded, Zenon DEF OpToRel
  <1>2. PICK x \in T : \A y \in T : ~ (<<y, x>> \in R)
    <2> HIDE DEF R
    <2> QED
      BY <1>1, WFMin
  <1>3. \A y \in T : <<y, x>> \in Nat \X Nat /\ <<y, x>>[1] = y /\ <<y, x>>[2] = x
    OBVIOUS
  <1>4. \A y \in T : ~(y < x)
    BY <1>2, <1>3
  <1> QED
    BY <1>4

LEMMA NatInductionOn ==
  ASSUME NEW S, 0 \in S, \A n \in Nat : n \in S => n + 1 \in S
  PROVE  Nat \subseteq S
  <1> SUFFICES ASSUME Nat \ S # {}
               PROVE  FALSE
    OBVIOUS
  <1>1. PICK n \in Nat \ S : \A m \in Nat \ S : n <= m
    BY SmallestNat
  <1>2. n - 1 \in Nat /\ n - 1 \in S
    BY <1>1
  <1> QED
    BY <1>1, <1>2

-----------------------------------------------------------------------------
(* Recursion *)

\* From each element of D not in Leaves, pred leads to one of smaller rank.
Descends(D, Leaves, pred) ==
  /\ Leaves \subseteq D /\ pred \in [D -> D]
  /\ \E N \in Nat : \E rank \in [D -> 0 .. N] :
       \A x \in D \ Leaves : rank[pred[x]] < rank[x]

\* The functions whose value at x is a[x] for a leaf, and comes from that at pred[x] otherwise.
Recursions(D, X, Leaves, pred, a, F) ==
  {g \in [D -> X] : \A x \in D : g[x] = IF x \in Leaves THEN a[x] ELSE F[<<x, g[pred[x]]>>]}

LEMMA RecursionExists ==
  ASSUME NEW D, NEW X, NEW Leaves, NEW pred, NEW a, NEW F,
         Descends(D, Leaves, pred), a \in [D -> X], F \in [D \X X -> X]
  PROVE  Recursions(D, X, Leaves, pred, a, F) # {}
  <1>. PICK N \in Nat : \E rank \in [D -> 0 .. N] :
         \A x \in D \ Leaves : pred[x] \in D /\ rank[pred[x]] < rank[x]
    BY DEF Descends
  <1>0. PICK rank \in [D -> 0 .. N] :
          \A x \in D \ Leaves : pred[x] \in D /\ rank[pred[x]] < rank[x]
    OBVIOUS
  <1> DEFINE Upto(k) == {x \in D : rank[x] < k}
             Fits(g, k) == \A x \in Upto(k) :
                             g[x] = IF x \in Leaves THEN a[x] ELSE F[<<x, g[pred[x]]>>]
             Good == {k \in Nat : \E g \in [D -> X] : Fits(g, k)}
  <1>1. 0 \in Good
    BY <1>0 DEF Upto, Fits
  <1>2. ASSUME NEW k \in Nat, k \in Good
        PROVE  k + 1 \in Good
    <2>1. PICK g \in [D -> X] : Fits(g, k)
      BY <1>2
    <2> DEFINE h == [x \in D |-> IF rank[x] < k THEN g[x]
                                 ELSE IF x \in Upto(k + 1) /\ x \notin Leaves
                                      THEN F[<<x, g[pred[x]]>>] ELSE a[x]]
    <2>2. h \in [D -> X]
      <3> SUFFICES ASSUME NEW x \in D
                   PROVE  h[x] \in X
        BY Zenon
      <3>1. g[x] \in X /\ a[x] \in X
        OBVIOUS
      <3>2. x \notin Leaves => F[<<x, g[pred[x]]>>] \in X
        OBVIOUS
      <3> QED
        BY <3>1, <3>2
    <2>3. ASSUME NEW x \in Upto(k + 1)
          PROVE  h[x] = IF x \in Leaves THEN a[x] ELSE F[<<x, h[pred[x]]>>]
      <3>1. x \in D /\ rank[x] \in Nat /\ rank[x] < k + 1
        BY <1>0
      <3>2. x \notin Leaves => pred[x] \in D /\ rank[pred[x]] \in Nat /\ rank[pred[x]] < k
        BY <1>0, <3>1
      <3>3. x \notin Leaves => h[pred[x]] = g[pred[x]]
        BY <3>2
      <3>4. CASE rank[x] < k
        <4>1. h[x] = g[x] /\ x \in Upto(k)
          BY <3>1, <3>4
        <4>2. g[x] = IF x \in Leaves THEN a[x] ELSE F[<<x, g[pred[x]]>>]
          BY <2>1, <4>1
        <4> QED
          BY <4>1, <4>2, <3>3
      <3>5. CASE ~(rank[x] < k)
        <4>1. h[x] = IF x \in Leaves THEN a[x] ELSE F[<<x, g[pred[x]]>>]
          BY <3>1, <3>5
        <4> QED
          BY <4>1, <3>3
      <3> QED
        BY <3>4, <3>5
    <2> HIDE DEF h
    <2>4. Fits(h, k + 1)
      BY <2>3
    <2> QED
      BY <2>2, <2>4
  <1>3. N + 1 \in Good
    <2> HIDE DEF Good
    <2>1. Nat \subseteq Good
      BY <1>1, <1>2, NatInductionOn
    <2> QED
      BY <2>1
  <1>4. PICK g \in [D -> X] : Fits(g, N + 1)
    BY <1>3
  <1>5. Upto(N + 1) = D
    BY <1>0
  <1> QED
    BY <1>4, <1>5 DEF Recursions

-----------------------------------------------------------------------------
(* Largest and smallest elements *)

LEMMA MaxOf ==
  ASSUME NEW S \in SUBSET Nat, S # {}, NEW N \in Nat, \A x \in S : x <= N
  PROVE  Max(S) \in S /\ \A x \in S : x <= Max(S)
  <1> DEFINE T == {n \in Nat : \A x \in S : x <= n}
  <1>1. PICK m \in T : \A n \in T : m <= n
    <2>1. N \in T
      OBVIOUS
    <2> QED
      BY <2>1, SmallestNat
  <1>2. m \in S
    <2> SUFFICES ASSUME m \notin S
                 PROVE  FALSE
      OBVIOUS
    <2>1. \A x \in S : x <= m - 1 /\ m - 1 \in Nat
      OBVIOUS
    <2>2. m - 1 \in T
      BY <2>1
    <2> QED
      BY <1>1, <2>2
  <1>3. m \in S /\ \A x \in S : m >= x
    BY <1>2
  <1>4. Max(S) \in S /\ \A x \in S : Max(S) >= x
    BY <1>3, Zenon DEF Max
  <1> QED
    BY <1>4

\* Finitely many naturals have a bound.
LEMMA BoundOf ==
  ASSUME NEW n \in Nat, NEW f \in [1 .. n -> Nat]
  PROVE  \E N \in Nat : \A k \in 1 .. n : f[k] <= N
  <1> DEFINE S == {i \in Nat : i <= n => \E N \in Nat : \A k \in 1 .. i : f[k] <= N}
  <1>1. 0 \in S
    OBVIOUS
  <1>2. ASSUME NEW i \in Nat, i \in S
        PROVE  i + 1 \in S
    <2> SUFFICES ASSUME i + 1 <= n
                 PROVE  \E N \in Nat : \A k \in 1 .. i + 1 : f[k] <= N
      OBVIOUS
    <2>1. PICK N \in Nat : \A k \in 1 .. i : f[k] <= N
      BY <1>2
    <2> DEFINE last == f[i + 1]
               M == N + last
    <2>2. last \in Nat /\ M \in Nat /\ N <= M /\ last <= M
      OBVIOUS
    <2>3. ASSUME NEW k \in 1 .. i + 1
          PROVE  f[k] <= M
      <3>1. CASE k = i + 1
        BY <2>2, <3>1
      <3>2. CASE k \in 1 .. i
        <4>1. f[k] <= N /\ f[k] \in Nat
          BY <2>1, <3>2
        <4> HIDE DEF M
        <4> QED
          BY <2>2, <4>1
      <3> QED
        BY <3>1, <3>2
    <2> QED
      BY <2>2, <2>3
  <1>3. Nat \subseteq S
    <2> HIDE DEF S
    <2> QED
      BY <1>1, <1>2, NatInductionOn
  <1>4. n \in S
    BY <1>3
  <1> QED
    BY <1>4

LEMMA MinOf ==
  ASSUME NEW S \in SUBSET Nat, S # {}
  PROVE  Min(S) \in S /\ \A x \in S : Min(S) <= x
  BY SmallestNat, Zenon DEF Min

-----------------------------------------------------------------------------
(* Folds. FoldLeft is a function of the indices still to fold, which takes away the largest. *)

LEMMA MaxOfIndices ==
  ASSUME NEW n \in Nat, NEW s \in SUBSET (1 .. n), s # {}
  PROVE  Max(s) \in s /\ \A x \in s : x <= Max(s)
  BY MaxOf

LEMMA MaxOfPrefix ==
  ASSUME NEW k \in Nat, k > 0
  PROVE  Max(1 .. k) = k /\ (1 .. k) \ {k} = 1 .. k - 1
  <1>1. 1 .. k \in SUBSET Nat /\ k \in 1 .. k /\ \A x \in 1 .. k : x <= k
    OBVIOUS
  <1>2. Max(1 .. k) \in 1 .. k /\ \A x \in 1 .. k : x <= Max(1 .. k)
    BY <1>1, MaxOf
  <1> QED
    BY <1>2

\* The functions that start from base and bring in index k of 1 .. n by G.
FoldsOf(n, X, base, G) ==
  {g \in [SUBSET (1 .. n) -> X] :
     \A s \in SUBSET (1 .. n) :
       g[s] = IF s = {} THEN base ELSE G[<<g[s \ {Max(s)}], Max(s)>>]}

LEMMA FoldExists ==
  ASSUME NEW n \in Nat, NEW X, NEW base \in X, NEW G \in [X \X (1 .. n) -> X]
  PROVE  FoldsOf(n, X, base, G) # {}
  <1> DEFINE D == SUBSET (1 .. n)
             rank == [s \in D |-> IF s = {} THEN 0 ELSE Max(s)]
             a == [s \in D |-> base]
             pred == [s \in D |-> s \ {Max(s)}]
             F == [sx \in D \X X |-> IF sx[1] = {} THEN base ELSE G[<<sx[2], Max(sx[1])>>]]
  <1>1. rank \in [D -> 0 .. n]
    <2> SUFFICES ASSUME NEW s \in D
                 PROVE  rank[s] \in 0 .. n
      BY Zenon
    <2>1. CASE s = {}
      BY <2>1
    <2>2. CASE s # {}
      <3>1. Max(s) \in 1 .. n
        BY <2>2, MaxOfIndices
      <3> QED
        BY <2>2, <3>1
    <2> QED
      BY <2>1, <2>2
  <1>2. F \in [D \X X -> X]
    <2> SUFFICES ASSUME NEW sx \in D \X X
                 PROVE  F[sx] \in X
      BY Zenon
    <2>1. sx[1] \in SUBSET (1 .. n) /\ sx[2] \in X
      OBVIOUS
    <2>2. CASE sx[1] # {}
      <3>1. Max(sx[1]) \in 1 .. n
        BY <2>1, <2>2, MaxOfIndices
      <3> QED
        BY <2>1, <2>2, <3>1
    <2> QED
      BY <2>1, <2>2
  <1>3. \A s \in D \ {{}} : pred[s] \in D /\ rank[pred[s]] < rank[s]
    <2> SUFFICES ASSUME NEW s \in SUBSET (1 .. n), s # {}
                 PROVE  pred[s] \in D /\ rank[pred[s]] < rank[s]
      OBVIOUS
    <2>1. Max(s) \in 1 .. n /\ \A x \in s : x <= Max(s)
      BY MaxOfIndices
    <2>2. CASE s \ {Max(s)} = {}
      BY <2>1, <2>2
    <2>3. CASE s \ {Max(s)} # {}
      <3>1. Max(s \ {Max(s)}) \in s \ {Max(s)}
        BY <2>3, MaxOfIndices
      <3>2. Max(s \ {Max(s)}) \in 1 .. n /\ Max(s \ {Max(s)}) # Max(s)
        BY <3>1
      <3>3. Max(s \ {Max(s)}) <= Max(s)
        BY <2>1, <3>1
      <3>4. Max(s \ {Max(s)}) < Max(s)
        BY <2>1, <3>2, <3>3
      <3> QED
        BY <2>3, <3>4
    <2> QED
      BY <2>2, <2>3
  <1>4. a \in [D -> X]
    OBVIOUS
  <1>5. Descends(D, {{}}, pred)
    <2>1. pred \in [D -> D]
      BY Zenon
    <2>2. \E N \in Nat : \E r \in [D -> 0 .. N] : \A s \in D \ {{}} : r[pred[s]] < r[s]
      <3> HIDE DEF D, rank, pred
      <3> QED
        BY <1>1, <1>3
    <2> HIDE DEF pred
    <2> QED
      BY <2>1, <2>2 DEF Descends
  <1>6. PICK g \in [D -> X] :
          \A s \in D : g[s] = IF s \in {{}} THEN a[s] ELSE F[<<s, g[pred[s]]>>]
    <2> HIDE DEF D, rank, a, pred, F
    <2>0. Recursions(D, X, {{}}, pred, a, F) # {}
      BY <1>2, <1>4, <1>5, RecursionExists
    <2>1. PICK g : g \in Recursions(D, X, {{}}, pred, a, F)
      BY <2>0
    <2> QED
      BY <2>1 DEF Recursions
  <1>7. ASSUME NEW s \in D
        PROVE  g[s] = IF s = {} THEN base ELSE G[<<g[s \ {Max(s)}], Max(s)>>]
    <2>1. CASE s = {}
      BY <1>6, <2>1
    <2>2. CASE s # {}
      <3>1. g[s] = F[<<s, g[s \ {Max(s)}]>>]
        BY <1>6, <2>2
      <3>2. g[s \ {Max(s)}] \in X
        OBVIOUS
      <3>3. F[<<s, g[s \ {Max(s)}]>>] = G[<<g[s \ {Max(s)}], Max(s)>>]
        BY <3>2, <2>2
      <3> QED
        BY <2>2, <3>1, <3>3
    <2> QED
      BY <2>1, <2>2
  <1> HIDE DEF D
  <1>8. \A s \in SUBSET (1 .. n) :
          g[s] = IF s = {} THEN base ELSE G[<<g[s \ {Max(s)}], Max(s)>>]
    BY <1>7 DEF D
  <1> QED
    BY <1>8 DEF FoldsOf, D

\* The values such a function takes on the way: of the indices up to each one.
StepsOf(n, X, base, G) ==
  {acc \in [0 .. n -> X] : acc[0] = base /\ \A k \in 1 .. n : acc[k] = G[<<acc[k - 1], k>>]}

\* FoldLeft chooses any function h that takes the steps of its operator, where G gives what
\* the operator yields for values in X.
TakesSteps(h, n, X, base, G) ==
  /\ h[{}] = base
  /\ \A s \in SUBSET (1 .. n) :
       s # {} /\ h[s \ {Max(s)}] \in X => h[s] = G[<<h[s \ {Max(s)}], Max(s)>>]

StepsTo(v, n, X, base, G) == {acc \in StepsOf(n, X, base, G) : acc[n] = v}

LEMMA FoldSteps ==
  ASSUME NEW n \in Nat, NEW X, NEW base \in X, NEW G \in [X \X (1 .. n) -> X],
         NEW h, TakesSteps(h, n, X, base, G)
  PROVE  StepsTo(h[1 .. n], n, X, base, G) # {}
  <1> DEFINE acc == [k \in 0 .. n |-> h[1 .. k]]
             S == {k \in Nat : k <= n => acc[k] \in X}
  <1>1. acc[0] = base
    <2>1. 1 .. 0 = {} /\ 0 \in 0 .. n
      OBVIOUS
    <2> QED
      BY <2>1 DEF TakesSteps
  <1>2. ASSUME NEW k \in Nat, k + 1 <= n, acc[k] \in X
        PROVE  acc[k + 1] = G[<<acc[k], k + 1>>] /\ acc[k + 1] \in X
    <2>1. /\ k \in 0 .. n /\ k + 1 \in 0 .. n /\ k + 1 \in 1 .. n /\ k + 1 \in 1 .. k + 1
          /\ k + 1 \in Nat /\ k + 1 > 0 /\ (k + 1) - 1 = k
      BY <1>2
    <2>2. \A j \in 1 .. k + 1 : j \in 1 .. n
      BY <2>1
    <2> DEFINE s == 1 .. k + 1
    <2>3. Max(s) = k + 1 /\ s \ {k + 1} = 1 .. k
      BY <2>1, MaxOfPrefix
    <2>4. s \in SUBSET (1 .. n) /\ s # {}
      BY <2>1, <2>2
    <2>5. acc[k] = h[1 .. k] /\ acc[k + 1] = h[s]
      BY <2>1
    <2> HIDE DEF s, acc
    <2>6. h[s \ {Max(s)}] = acc[k]
      BY <2>3, <2>5
    <2>7. h[s] = G[<<acc[k], k + 1>>]
      BY <1>2, <2>3, <2>4, <2>6 DEF TakesSteps
    <2> QED
      BY <1>2, <2>1, <2>5, <2>7
  <1> HIDE DEF acc
  <1>3. ASSUME NEW k \in Nat, k \in S
        PROVE  k + 1 \in S
    <2>1. k + 1 <= n => acc[k + 1] \in X
      <3> SUFFICES ASSUME k + 1 <= n
                   PROVE  acc[k + 1] \in X
        OBVIOUS
      <3>1. k <= n
        OBVIOUS
      <3>2. acc[k] \in X
        BY <1>3, <3>1
      <3> QED
        BY <1>2, <3>2
    <2> QED
      BY <2>1
  <1>4. 0 \in S
    BY <1>1
  <1>5. Nat \subseteq S
    <2> HIDE DEF S
    <2> QED
      BY <1>3, <1>4, NatInductionOn
  <1>6. \A k \in 0 .. n : acc[k] \in X
    BY <1>5
  <1>7. ASSUME NEW k \in 1 .. n
        PROVE  acc[k] = G[<<acc[k - 1], k>>]
    <2>1. k - 1 \in Nat /\ (k - 1) + 1 = k /\ k - 1 \in 0 .. n /\ k <= n
      OBVIOUS
    <2> DEFINE j == k - 1
    <2>2. j \in Nat /\ j + 1 = k /\ j + 1 <= n /\ acc[j] \in X
      BY <1>6, <2>1
    <2> HIDE DEF j
    <2>3. acc[j + 1] = G[<<acc[j], j + 1>>]
      BY <1>2, <2>2
    <2> QED
      BY <2>2, <2>3 DEF j
  <1>8. acc \in [0 .. n -> X]
    BY <1>6 DEF acc
  <1>9. acc \in StepsOf(n, X, base, G)
    BY <1>1, <1>7, <1>8 DEF StepsOf
  <1>10. n \in 0 .. n
    OBVIOUS
  <1> QED
    BY <1>9, <1>10 DEF acc, StepsTo

\* A recursion over 0 .. n has a solution.
LEMMA StepsExist ==
  ASSUME NEW n \in Nat, NEW X, NEW base \in X, NEW G \in [X \X (1 .. n) -> X]
  PROVE  StepsOf(n, X, base, G) # {}
  <1>1. FoldsOf(n, X, base, G) # {}
    BY FoldExists
  <1>2. PICK g \in [SUBSET (1 .. n) -> X] :
          \A s \in SUBSET (1 .. n) :
            g[s] = IF s = {} THEN base ELSE G[<<g[s \ {Max(s)}], Max(s)>>]
    BY <1>1 DEF FoldsOf
  <1>3. TakesSteps(g, n, X, base, G)
    BY <1>2 DEF TakesSteps
  <1>4. StepsTo(g[1 .. n], n, X, base, G) # {}
    BY <1>3, FoldSteps
  <1> QED
    BY <1>4 DEF StepsTo

-----------------------------------------------------------------------------
(* The elements of a finite set in an order *)

LEMMA ArrangedAll ==
  ASSUME NEW S, IsFiniteSet(S), NEW R, NEW f, f = Arranged(S, R),
         \A x \in S : <<x, x>> \notin R,
         \A x, y \in S : x = y \/ <<x, y>> \in R \/ <<y, x>> \in R,
         \A x, y, z \in S : <<x, y>> \in R /\ <<y, z>> \in R => <<x, z>> \in R
  PROVE  /\ Cardinality(S) \in Nat
         /\ f \in [1 .. Cardinality(S) -> S]
         /\ \A x \in S : \E n \in 1 .. Cardinality(S) : f[n] = x
         /\ \A i, j \in 1 .. Cardinality(S) : i < j => <<f[i], f[j]>> \in R
  <1> DEFINE N == Cardinality(S)
             Before(x) == {y \in S : <<y, x>> \in R}
             rank == [x \in S |-> Cardinality(Before(x))]
  <1>1. N \in Nat
    BY FS_CardinalityType
  <1>2. ASSUME NEW x \in S
        PROVE  IsFiniteSet(Before(x)) /\ Cardinality(Before(x)) \in 0 .. N - 1
    <2>1. Before(x) \in SUBSET S /\ Before(x) # S
      OBVIOUS
    <2> HIDE DEF Before
    <2>2. IsFiniteSet(Before(x)) /\ Cardinality(Before(x)) <= N
          /\ (Cardinality(S) = Cardinality(Before(x)) => S = Before(x))
      BY <2>1, FS_Subset
    <2>3. Cardinality(Before(x)) \in Nat
      BY <2>2, FS_CardinalityType
    <2> QED
      BY <1>1, <2>1, <2>2, <2>3
  <1>3. ASSUME NEW x \in S, NEW y \in S, <<x, y>> \in R
        PROVE  rank[x] < rank[y]
    <2>1. Before(x) \in SUBSET Before(y) /\ x \in Before(y) /\ x \notin Before(x)
      BY <1>3
    <2>2. IsFiniteSet(Before(y))
      BY <1>2
    <2>3. Cardinality(Before(x)) \in 0 .. N - 1 /\ Cardinality(Before(y)) \in 0 .. N - 1
      BY <1>2
    <2> HIDE DEF Before
    <2>4. /\ Cardinality(Before(x)) <= Cardinality(Before(y))
          /\ Cardinality(Before(y)) = Cardinality(Before(x)) => Before(y) = Before(x)
      BY <2>1, <2>2, FS_Subset
    <2> QED
      BY <1>1, <2>1, <2>3, <2>4
  <1>4. rank \in [S -> 0 .. N - 1]
    BY <1>2, Zenon
  <1>5. \A x, y \in S : rank[x] = rank[y] => x = y
    <2> SUFFICES ASSUME NEW x \in S, NEW y \in S, rank[x] = rank[y], x # y
                 PROVE  FALSE
      BY Zenon
    <2>1. rank[x] \in 0 .. N - 1 /\ rank[y] \in 0 .. N - 1
      BY <1>4
    <2>2. rank[x] < rank[y] \/ rank[y] < rank[x]
      BY <1>3
    <2> HIDE DEF rank
    <2> QED
      BY <1>1, <2>1, <2>2
  <1>6. \A k \in 0 .. N - 1 : \E x \in S : rank[x] = k
    <2>1. IsFiniteSet(0 .. N - 1) /\ Cardinality(0 .. N - 1) = N
      <3> HIDE DEF N
      <3>1. 0 \in Int /\ N - 1 \in Int /\ (IF 0 > N - 1 THEN 0 ELSE N - 1 - 0 + 1) = N
        BY <1>1
      <3> QED
        BY <3>1, FS_Interval
    <2> HIDE DEF rank
    <2>2. rank \in Injection(S, 0 .. N - 1)
      BY <1>4, <1>5 DEF Injection, IsInjective
    <2>3. rank \in Surjection(S, 0 .. N - 1)
      BY <2>1, <2>2, FS_Injection
    <2> QED
      BY <2>3 DEF Surjection
  <1>7. ASSUME NEW n \in 1 .. N
        PROVE  f[n] \in S /\ rank[f[n]] = n - 1
    <2>1. n - 1 \in 0 .. N - 1
      BY <1>1
    <2>2. PICK x \in S : Cardinality(Before(x)) = n - 1
      BY <1>6, <2>1
    <2>3. f[n] = CHOOSE y \in S : Cardinality(Before(y)) = n - 1
      BY Zenon DEF Arranged
    <2> HIDE DEF Before
    <2>4. f[n] \in S /\ Cardinality(Before(f[n])) = n - 1
      BY <2>2, <2>3, Zenon
    <2> QED
      BY <2>4
  <1>8. f \in [1 .. N -> S]
    <2> DEFINE c(n) == CHOOSE x \in S : Cardinality(Before(x)) = n - 1
    <2>1. f = [n \in 1 .. N |-> c(n)]
      BY DEF Arranged
    <2>2. \A n \in 1 .. N : f[n] \in S
      BY <1>7, Zenon
    <2> HIDE DEF N, c, rank, Before
    <2>3. \A n \in 1 .. N : f[n] = c(n)
      BY <2>1, Zenon
    <2>4. \A n \in 1 .. N : c(n) \in S
      BY <2>2, <2>3, Zenon
    <2> QED
      BY <2>1, <2>4
  <1>9. ASSUME NEW x \in S
        PROVE  \E n \in 1 .. N : f[n] = x
    <2>1. rank[x] \in 0 .. N - 1
      BY <1>4
    <2> HIDE DEF rank
    <2>2. rank[x] + 1 \in 1 .. N /\ (rank[x] + 1) - 1 = rank[x]
      BY <1>1, <2>1
    <2>3. f[rank[x] + 1] \in S /\ rank[f[rank[x] + 1]] = rank[x]
      BY <1>7, <2>2
    <2> QED
      BY <1>5, <2>2, <2>3
  <1>10. ASSUME NEW i \in 1 .. N, NEW j \in 1 .. N, i < j
         PROVE  <<f[i], f[j]>> \in R
    <2>1. f[i] \in S /\ f[j] \in S /\ rank[f[i]] = i - 1 /\ rank[f[j]] = j - 1
      BY <1>7
    <2>2. ~(rank[f[j]] < rank[f[i]]) /\ rank[f[i]] # rank[f[j]]
      BY <2>1, <1>1, <1>10
    <2> HIDE DEF rank
    <2> QED
      BY <1>3, <2>1, <2>2
  <1> QED
    BY <1>1, <1>8, <1>9, <1>10

\* A finite set of numbers in ascending order.
LEMMA AscendingAll ==
  ASSUME NEW S \in SUBSET Int, IsFiniteSet(S), NEW f, f = Ascending(S)
  PROVE  /\ Cardinality(S) \in Nat
         /\ f \in [1 .. Cardinality(S) -> S]
         /\ \A x \in S : \E n \in 1 .. Cardinality(S) : f[n] = x
         /\ \A i, j \in 1 .. Cardinality(S) : i < j => f[i] < f[j]
  <1> DEFINE R == {ab \in S \X S : ab[1] < ab[2]}
  <1>1. \A x, y : <<x, y>> \in R <=> x \in S /\ y \in S /\ x < y
    OBVIOUS
  <1>2. f = Arranged(S, R)
    BY DEF Ascending
  <1>3. /\ \A x \in S : <<x, x>> \notin R
        /\ \A x, y \in S : x = y \/ <<x, y>> \in R \/ <<y, x>> \in R
        /\ \A x, y, z \in S : <<x, y>> \in R /\ <<y, z>> \in R => <<x, z>> \in R
    BY <1>1
  <1> HIDE DEF R
  <1>4. /\ Cardinality(S) \in Nat
        /\ f \in [1 .. Cardinality(S) -> S]
        /\ \A x \in S : \E n \in 1 .. Cardinality(S) : f[n] = x
        /\ \A i, j \in 1 .. Cardinality(S) : i < j => <<f[i], f[j]>> \in R
    BY <1>2, <1>3, ArrangedAll
  <1> QED
    BY <1>1, <1>4

\* SetToSeq goes through a finite set in some order.
LEMMA SetToSeqAll ==
  ASSUME NEW S, IsFiniteSet(S)
  PROVE  /\ Cardinality(S) \in Nat
         /\ SetToSeq(S) \in [1 .. Cardinality(S) -> S]
         /\ \A x \in S : \E n \in 1 .. Cardinality(S) : SetToSeq(S)[n] = x
  <1> DEFINE N == Cardinality(S)
             f == SetToSeq(S)
  <1>1. N \in Nat /\ ExistsBijection(1 .. N, S)
    BY FS_CardinalityType
  <1>2. \E g \in [1 .. N -> S] : IsInjective(g)
    BY <1>1 DEF ExistsBijection, Bijection, Injection
  <1>3. f \in [1 .. N -> S] /\ IsInjective(f)
    BY <1>2, Zenon DEF SetToSeq
  <1> HIDE DEF f, N
  <1>4. IsFiniteSet(1 .. N) /\ Cardinality(1 .. N) = N
    BY <1>1, FS_Interval
  <1>5. f \in Injection(1 .. N, S) /\ Cardinality(S) = N
    BY <1>3 DEF Injection, N
  <1>6. f \in Surjection(1 .. N, S)
    BY <1>4, <1>5, FS_Injection
  <1> QED
    BY <1>1, <1>3, <1>6 DEF Surjection, f, N
=============================================================================
