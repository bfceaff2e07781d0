----------------------- MODULE DetectionPipeline_proofs ----------------------
(***************************************************************************)
(* For every list of lines, every set of rules and all their thresholds:   *)
(* the incidents of an analysis share out the signals that are not         *)
(* suppressed, account for every event that the engine accepted, and are   *)
(* as severe as their events.  What is shown here of sorting and folding   *)
(* serves the rows of the brief too.                                       *)
(*                                                                         *)
(* The engine sorts, merges, clusters and merges again, each time by a     *)
(* fold over a list.  A fold is a function on the sets of indices; here it *)
(* is shown to exist, and what a fold does is then shown by the first      *)
(* index at which it would fail.                                           *)
(***************************************************************************)
EXTENDS DetectionPipeline, BriefRows,
        FiniteSetTheorems, SequenceTheorems, WellFoundedInduction, TLAPS

-----------------------------------------------------------------------------
(***************************************************************************)
(* Numbers and finite sets.                                                *)
(***************************************************************************)

\* A nonempty set of naturals has a least element.
LEMMA LeastNat ==
  ASSUME NEW T \in SUBSET Nat, T # {}
  PROVE  \E m \in T : \A k \in T : m <= k
<1> DEFINE R == {ss \in Nat \X Nat : ss[1] < ss[2]}
<1>1. IsWellFoundedOn(R, Nat)
  BY NatLessThanWellFounded DEF OpToRel
<1>2. PICK m \in T : \A k \in T : ~(<<k, m>> \in R)
  BY <1>1, WFMin
<1>3. \A k \in T : m <= k
  <2> TAKE k \in T
  <2>1. <<k, m>> \notin R
    BY <1>2
  <2>2. <<k, m>> \in Nat \X Nat
    OBVIOUS
  <2>3. ~(k < m)
    BY <2>1, <2>2
  <2> QED
    BY <2>3
<1> QED
  BY <1>3

\* Induction, for the set of the numbers that have a property.
LEMMA Inductive ==
  ASSUME NEW S, 0 \in S, \A n \in Nat : n \in S => n + 1 \in S
  PROVE  Nat \subseteq S
<1> SUFFICES ASSUME Nat \ S # {} PROVE FALSE
  OBVIOUS
<1>1. PICK m \in Nat \ S : \A k \in Nat \ S : m <= k
  BY LeastNat
<1>2. m # 0 /\ m - 1 \in Nat
  BY <1>1
<1>3. m - 1 \in S
  BY <1>1, <1>2
<1> QED
  BY <1>1, <1>2, <1>3

\* A strict order on a finite set has a minimal element.
LEMMA Minimal ==
  ASSUME NEW S, IsFiniteSet(S), S # {}, NEW R,
         \A x \in S : <<x, x>> \notin R,
         \A x, y, z \in S : <<x, y>> \in R /\ <<y, z>> \in R => <<x, z>> \in R
  PROVE  \E x \in S : \A y \in S : <<y, x>> \notin R
<1> DEFINE below(x) == {y \in S : <<y, x>> \in R}
           T == {n \in Nat : \E x \in S : n = Cardinality(below(x))}
<1>1. \A x \in S : IsFiniteSet(below(x)) /\ Cardinality(below(x)) \in Nat
  <2> TAKE x \in S
  <2>1. below(x) \in SUBSET S
    OBVIOUS
  <2> QED
    BY <2>1, FS_Subset, FS_CardinalityType
<1>2. T \in SUBSET Nat /\ T # {}
  <2> HIDE DEF below
  <2> QED
    BY <1>1
<1>3. PICK m \in T : \A k \in T : m <= k
  BY <1>2, LeastNat
<1>4. PICK x \in S : m = Cardinality(below(x))
  BY <1>3
<1>5. ASSUME NEW y \in S, <<y, x>> \in R PROVE FALSE
  <2>1. below(y) \in SUBSET below(x) /\ y \in below(x) /\ y \notin below(y)
    BY <1>5
  <2>2. Cardinality(below(y)) < Cardinality(below(x))
    <3> HIDE DEF below
    <3>1. Cardinality(below(y)) <= Cardinality(below(x))
          /\ Cardinality(below(y)) # Cardinality(below(x))
      BY <1>1, <2>1, FS_Subset
    <3> QED
      BY <3>1, <1>1
  <2>3. Cardinality(below(y)) \in T
    BY <1>1
  <2> HIDE DEF below, T
  <2> QED
    BY <2>2, <2>3, <1>1, <1>3, <1>4
<1> QED
  BY <1>5

\* A finite nonempty set of integers has a minimum and a maximum.
LEMMA MinMax ==
  ASSUME NEW S \in SUBSET Int, IsFiniteSet(S), S # {}
  PROVE  /\ Min(S) \in S /\ \A x \in S : Min(S) <= x
         /\ Max(S) \in S /\ \A x \in S : x <= Max(S)
<1> DEFINE L == {ss \in Int \X Int : ss[1] < ss[2]}
           G == {ss \in Int \X Int : ss[1] > ss[2]}
<1>1. \A x, y \in Int : (<<x, y>> \in L <=> x < y) /\ (<<x, y>> \in G <=> x > y)
  OBVIOUS
<1> HIDE DEF L, G
<1>2. PICK x \in S : \A y \in S : <<y, x>> \notin L
  <2>1. \A u \in S : <<u, u>> \notin L
    BY <1>1
  <2>2. \A u, v, w \in S : <<u, v>> \in L /\ <<v, w>> \in L => <<u, w>> \in L
    BY <1>1
  <2> QED
    BY <2>1, <2>2, Minimal
<1>3. PICK z \in S : \A y \in S : <<y, z>> \notin G
  <2>1. \A u \in S : <<u, u>> \notin G
    BY <1>1
  <2>2. \A u, v, w \in S : <<u, v>> \in G /\ <<v, w>> \in G => <<u, w>> \in G
    BY <1>1
  <2> QED
    BY <2>1, <2>2, Minimal
<1>4. (\A y \in S : x <= y) /\ (\A y \in S : z >= y)
  <2>1. ASSUME NEW y \in S PROVE ~(y < x) /\ ~(y > z)
    BY <1>1, <1>2, <1>3
  <2> QED
    BY <2>1
<1>5. Min(S) \in S /\ \A y \in S : Min(S) <= y
  BY <1>4 DEF Min
<1>6. Max(S) \in S /\ \A y \in S : Max(S) >= y
  BY <1>4 DEF Max
<1> QED
  BY <1>5, <1>6

\* The values of a function on a finite set are finitely many.
LEMMA FiniteImage ==
  ASSUME NEW S, IsFiniteSet(S), NEW f
  PROVE  IsFiniteSet({f[x] : x \in S})
<1> DEFINE T == {f[x] : x \in S}
           g == [x \in S |-> f[x]]
<1>1. g \in Surjection(S, T)
  BY DEF Surjection
<1> QED
  BY <1>1, FS_Surjection

-----------------------------------------------------------------------------
(***************************************************************************)
(* Sorting.                                                                *)
(***************************************************************************)

\* Precedes is a strict total order of the integer sequences of one length.
LEMMA PrecedesOrders ==
  ASSUME NEW n \in Nat, NEW a \in [1 .. n -> Int], NEW b \in [1 .. n -> Int]
  PROVE  /\ ~Precedes(a, a)
         /\ a # b => Precedes(a, b) \/ Precedes(b, a)
         /\ \A c \in [1 .. n -> Int] : Precedes(a, b) /\ Precedes(b, c) => Precedes(a, c)
<1>1. ~Precedes(a, a)
  BY DEF Precedes
<1>2. ASSUME a # b PROVE Precedes(a, b) \/ Precedes(b, a)
  <2> DEFINE T == {i \in Nat : i \in 1 .. n /\ a[i] # b[i]}
  <2>3. PICK k \in 1 .. n : a[k] # b[k]
    <3> SUFFICES ASSUME \A k \in 1 .. n : a[k] = b[k] PROVE FALSE
      OBVIOUS
    <3>1. a = [k \in 1 .. n |-> a[k]] /\ b = [k \in 1 .. n |-> b[k]]
      OBVIOUS
    <3>2. [k \in 1 .. n |-> a[k]] = [k \in 1 .. n |-> b[k]]
      OBVIOUS
    <3> QED
      BY <3>1, <3>2, <1>2
  <2>1. k \in T
    BY <2>3
  <2>2. PICK i \in T : \A j \in T : i <= j
    BY <2>1, LeastNat
  <2>4. \A j \in 1 .. i - 1 : a[j] = b[j]
    <3> TAKE j \in 1 .. i - 1
    <3>1. j \in 1 .. n /\ j \in Nat /\ ~(i <= j)
      BY <2>2
    <3>2. j \notin T
      BY <3>1, <2>2
    <3> QED
      BY <3>1, <3>2
  <2>5. a[i] < b[i] \/ b[i] < a[i]
    BY <2>2
  <2> QED
    BY <2>2, <2>4, <2>5 DEF Precedes
<1>3. ASSUME NEW c \in [1 .. n -> Int], Precedes(a, b), Precedes(b, c)
      PROVE  Precedes(a, c)
  <2>1. PICK i \in 1 .. n : (\A j \in 1 .. i - 1 : a[j] = b[j]) /\ a[i] < b[i]
    BY <1>3 DEF Precedes
  <2>2. PICK k \in 1 .. n : (\A j \in 1 .. k - 1 : b[j] = c[j]) /\ b[k] < c[k]
    BY <1>3 DEF Precedes
  <2>3. CASE i <= k
    <3>1. \A j \in 1 .. i - 1 : a[j] = c[j]
      BY <2>1, <2>2, <2>3
    <3>2. a[i] < c[i]
      <4>1. CASE i = k
        BY <4>1, <2>1, <2>2
      <4>2. CASE i < k
        <5>1. b[i] = c[i]
          BY <4>2, <2>2
        <5> QED
          BY <5>1, <2>1
      <4> QED
        BY <4>1, <4>2, <2>3
    <3> QED
      BY <3>1, <3>2 DEF Precedes
  <2>4. CASE k < i
    <3>1. \A j \in 1 .. k - 1 : a[j] = c[j]
      BY <2>1, <2>2, <2>4
    <3>2. a[k] = b[k]
      BY <2>1, <2>4
    <3> QED
      BY <3>1, <3>2, <2>2 DEF Precedes
  <2> QED
    BY <2>3, <2>4
<1> QED
  BY <1>1, <1>2, <1>3

\* below[x] is what precedes x in a strict total order of S.
StrictOrder(S, below) ==
    /\ below \in [S -> SUBSET S]
    /\ \A x \in S : x \notin below[x]
    /\ \A x, y \in S : x # y => x \in below[y] \/ y \in below[x]
    /\ \A x, y, z \in S : x \in below[y] /\ y \in below[z] => x \in below[z]

\* In a finite total order each rank is taken once.
LEMMA Ranks ==
  ASSUME NEW S, IsFiniteSet(S), NEW below, StrictOrder(S, below)
  PROVE  /\ \A i \in 1 .. Cardinality(S) : \E x \in S : Cardinality(below[x]) = i - 1
         /\ \A x \in S : Cardinality(below[x]) \in 0 .. Cardinality(S) - 1
         /\ \A x, y \in S : y \in below[x] => Cardinality(below[y]) < Cardinality(below[x])
<1> DEFINE n == Cardinality(S)
           r == [x \in S |-> Cardinality(below[x])]
<1> USE DEF StrictOrder
<1>1. n \in Nat
  BY FS_CardinalityType
<1>2. ASSUME NEW x \in S
      PROVE  IsFiniteSet(below[x]) /\ Cardinality(below[x]) \in 0 .. n - 1
  <2>1. below[x] \in SUBSET S /\ below[x] # S
    OBVIOUS
  <2>2. IsFiniteSet(below[x]) /\ Cardinality(below[x]) <= n /\ Cardinality(below[x]) # n
    BY <2>1, FS_Subset
  <2>3. Cardinality(below[x]) \in Nat
    BY <2>2, FS_CardinalityType
  <2> QED
    BY <2>2, <2>3, <1>1
<1>3. ASSUME NEW x \in S, NEW y \in S, y \in below[x]
      PROVE  Cardinality(below[y]) < Cardinality(below[x])
  <2>1. below[y] \in SUBSET below[x] /\ below[y] # below[x]
    BY <1>3
  <2>2. Cardinality(below[y]) <= Cardinality(below[x])
        /\ Cardinality(below[y]) # Cardinality(below[x])
    BY <1>2, <2>1, FS_Subset
  <2> QED
    BY <2>2, <1>2, <1>1
<1>4. r \in Injection(S, 0 .. n - 1)
  <2>1. r \in [S -> 0 .. n - 1]
    BY <1>2
  <2>2. ASSUME NEW x \in S, NEW y \in S, r[x] = r[y] PROVE x = y
    <3> HIDE DEF n
    <3>1. Cardinality(below[x]) = Cardinality(below[y])
      BY <2>2
    <3>2. x \notin below[y] /\ y \notin below[x]
      BY <3>1, <1>2, <1>3, <1>1
    <3> QED
      BY <3>2
  <2> HIDE DEF r
  <2> QED
    BY <2>1, <2>2 DEF Injection, IsInjective
<1>5. IsFiniteSet(0 .. n - 1) /\ Cardinality(0 .. n - 1) = n
  <2> HIDE DEF n
  <2> QED
    BY <1>1, FS_Interval
<1>6. r \in Surjection(S, 0 .. n - 1)
  <2> HIDE DEF r, n
  <2> QED
    BY <1>4, <1>5, FS_Injection DEF n
<1>7. ASSUME NEW i \in 1 .. n PROVE \E x \in S : Cardinality(below[x]) = i - 1
  <2>1. i - 1 \in 0 .. n - 1
    BY <1>1
  <2>2. PICK x \in S : r[x] = i - 1
    BY <2>1, <1>6 DEF Surjection
  <2> QED
    BY <2>2
<1> QED
  BY <1>2, <1>3, <1>7

\* q has at each place the element of that rank.
ByRank(S, below, q) ==
    /\ q \in [1 .. Cardinality(S) -> S]
    /\ \A i \in 1 .. Cardinality(S) : Cardinality(below[q[i]]) = i - 1

\* A sequence that has at each place an element of that rank lists S in order.
LEMMA Listing ==
  ASSUME NEW S, IsFiniteSet(S), NEW below, StrictOrder(S, below),
         NEW q, ByRank(S, below, q)
  PROVE  /\ q \in Seq(S) /\ Len(q) = Cardinality(S)
         /\ \A x \in S : \E i \in DOMAIN q : q[i] = x
         /\ \A i, j \in DOMAIN q : i < j => q[i] \in below[q[j]]
<1> DEFINE rank == [x \in S |-> Cardinality(below[x])]
           n == Cardinality(S)
<1>1. n \in Nat
  BY FS_CardinalityType
<1>2. /\ \A x \in S : rank[x] \in 0 .. n - 1
      /\ \A x, y \in S : y \in below[x] => rank[y] < rank[x]
  BY Ranks
<1>3. \A i \in 1 .. n : q[i] \in S /\ rank[q[i]] = i - 1
  BY DEF ByRank
<1>4. /\ \A x, y \in S : x # y => x \in below[y] \/ y \in below[x]
      /\ q \in [1 .. n -> S]
  BY DEF StrictOrder, ByRank
<1> SUFFICES /\ q \in Seq(S) /\ Len(q) = n
             /\ \A x \in S : \E i \in DOMAIN q : q[i] = x
             /\ \A i, j \in DOMAIN q : i < j => q[i] \in below[q[j]]
  OBVIOUS
<1> HIDE DEF rank, n
<1>5. q \in Seq(S) /\ Len(q) = n /\ DOMAIN q = 1 .. n
  BY <1>1, <1>3, <1>4
<1>6. ASSUME NEW x \in S PROVE \E i \in DOMAIN q : q[i] = x
  <2>1. PICK i \in 1 .. n : i = rank[x] + 1
    BY <1>1, <1>2
  <2>2. q[i] \in S /\ rank[q[i]] = rank[x]
    BY <2>1, <1>1, <1>2, <1>3
  <2>3. x \notin below[q[i]] /\ q[i] \notin below[x]
    BY <2>2, <1>1, <1>2
  <2>4. q[i] = x
    BY <2>2, <2>3, <1>4
  <2> QED
    BY <2>1, <2>4, <1>5
<1>7. ASSUME NEW i \in DOMAIN q, NEW j \in DOMAIN q, i < j PROVE q[i] \in below[q[j]]
  <2>1. i \in 1 .. n /\ j \in 1 .. n
    BY <1>5
  <2>2. q[i] \in S /\ q[j] \in S /\ rank[q[i]] = i - 1 /\ rank[q[j]] = j - 1
    BY <2>1, <1>3
  <2>3. rank[q[i]] < rank[q[j]]
    BY <2>1, <2>2, <1>1, <1>7
  <2>4. q[i] # q[j] /\ q[j] \notin below[q[i]]
    BY <2>2, <2>3, <1>1, <1>2
  <2> QED
    BY <2>2, <2>4, <1>4
<1> QED
  BY <1>5, <1>6, <1>7

-----------------------------------------------------------------------------
(***************************************************************************)
(* Folds.  FoldLeft is a function on the sets of indices, which has to be  *)
(* shown to exist; the folds of the correlation are treated as one.        *)
(***************************************************************************)

\* The steps that are folded; p holds what a step has besides.
FoldStep(kind, p, acc, x) ==
    IF kind = "absorb" THEN Absorb(acc, x)
    ELSE IF kind = "place" THEN Place(acc, x)
    ELSE IF kind = "combine" THEN Combine(acc, x, p[1], p[2])
    ELSE IF kind = "burst" THEN JoinBurst(acc, x)
    ELSE IF kind = "run" THEN JoinRun(acc, x) ELSE acc + x.conf

FoldBase(kind) == IF kind = "sum" THEN 0 ELSE <<>>

\* The value of a fold at a set of indices, from its value without the last one.
FoldEquation(kind, p, seq, g, s) ==
    IF s = {} THEN FoldBase(kind) ELSE FoldStep(kind, p, g[s \ {Max(s)}], seq[Max(s)])

\* g gives the fold of seq over every set of the first n indices.
Unfolds(kind, p, seq, n, g) ==
    /\ g = [s \in SUBSET (1 .. n) |-> g[s]]
    /\ \A s \in SUBSET (1 .. n) : g[s] = FoldEquation(kind, p, seq, g, s)

\* f[k] is the fold of the first k elements.
IsFold(kind, p, seq, n, f) ==
    /\ f[0] = FoldBase(kind)
    /\ \A k \in 1 .. n : f[k] = FoldStep(kind, p, f[k - 1], seq[k])

\* The largest index of a set of indices.
LEMMA LastIndex ==
  ASSUME NEW k \in Nat, NEW s \in SUBSET (1 .. k + 1)
  PROVE  /\ k + 1 \in s => Max(s) = k + 1 /\ s \ {Max(s)} \in SUBSET (1 .. k)
         /\ k + 1 \notin s => /\ s \in SUBSET (1 .. k)
                              /\ s # {} => Max(s) \in 1 .. k /\ s \ {Max(s)} \in SUBSET (1 .. k)
<1>1. s # {} => Max(s) \in s /\ \A x \in s : x <= Max(s)
  <2> DEFINE I == 1 .. k + 1
  <2>1. IsFiniteSet(I)
    BY FS_Interval
  <2>2. s \in SUBSET I /\ I \in SUBSET Int
    OBVIOUS
  <2> HIDE DEF I
  <2>3. IsFiniteSet(s) /\ s \in SUBSET Int
    BY <2>1, <2>2, FS_Subset
  <2> QED
    BY <2>3, MinMax
<1>2. ASSUME k + 1 \in s PROVE Max(s) = k + 1
  <2>1. Max(s) \in 1 .. k + 1 /\ k + 1 <= Max(s)
    BY <1>1, <1>2
  <2> QED
    BY <2>1
<1>3. k + 1 \notin s => s \in SUBSET (1 .. k)
  OBVIOUS
<1>4. k + 1 \in s => s \ {k + 1} \in SUBSET (1 .. k)
  OBVIOUS
<1> QED
  BY <1>1, <1>2, <1>3, <1>4

\* There is one: g is made up for sets that end at n, then at n + 1.
LEMMA FoldExists ==
  ASSUME NEW kind, NEW p, NEW seq, NEW n \in Nat
  PROVE  \E g : Unfolds(kind, p, seq, n, g)
<1> DEFINE P(k) == \E g : Unfolds(kind, p, seq, k, g)
           S == {k \in Nat : P(k)}
<1>1. P(0)
  <2> DEFINE g == [s \in SUBSET (1 .. 0) |-> FoldBase(kind)]
  <2>1. Unfolds(kind, p, seq, 0, g)
    BY DEF FoldEquation, Unfolds
  <2> QED
    BY <2>1
<1>2. ASSUME NEW k \in Nat, P(k) PROVE P(k + 1)
  <2>1. PICK g : Unfolds(kind, p, seq, k, g)
    BY <1>2
  <2> DEFINE h == [s \in SUBSET (1 .. k + 1) |->
                     IF k + 1 \in s THEN FoldStep(kind, p, g[s \ {k + 1}], seq[k + 1]) ELSE g[s]]
  <2>2. \A s \in SUBSET (1 .. k) : h[s] = g[s]
    OBVIOUS
  <2>3. ASSUME NEW s \in SUBSET (1 .. k + 1) PROVE h[s] = FoldEquation(kind, p, seq, h, s)
    <3>1. CASE k + 1 \in s
      <4>1. Max(s) = k + 1 /\ s \ {k + 1} \in SUBSET (1 .. k)
        BY <3>1, LastIndex
      <4>2. h[s \ {k + 1}] = g[s \ {k + 1}]
        BY <4>1, <2>2
      <4>3. h[s] = FoldStep(kind, p, g[s \ {k + 1}], seq[k + 1])
        BY <3>1
      <4> HIDE DEF h
      <4> QED
        BY <3>1, <4>1, <4>2, <4>3 DEF FoldEquation
    <3>2. CASE k + 1 \notin s
      <4>1. s \in SUBSET (1 .. k) /\ (s # {} => s \ {Max(s)} \in SUBSET (1 .. k))
        BY <3>2, LastIndex
      <4>2. h[s] = FoldEquation(kind, p, seq, g, s)
        BY <4>1, <2>1, <2>2 DEF Unfolds
      <4>3. s # {} => h[s \ {Max(s)}] = g[s \ {Max(s)}]
        BY <4>1, <2>2
      <4> HIDE DEF h
      <4> QED
        BY <4>2, <4>3 DEF FoldEquation
    <3> QED
      BY <3>1, <3>2
  <2>4. h = [s \in SUBSET (1 .. k + 1) |-> h[s]]
    OBVIOUS
  <2> HIDE DEF h
  <2>5. Unfolds(kind, p, seq, k + 1, h)
    BY <2>3, <2>4 DEF Unfolds
  <2> QED
    BY <2>5
<1> HIDE DEF P
<1>3. 0 \in S /\ \A k \in Nat : k \in S => k + 1 \in S
  BY <1>1, <1>2
<1>4. n \in S
  <2> HIDE DEF S
  <2> QED
    BY <1>3, Inductive
<1> QED
  BY <1>4 DEF P

\* The values of a fold on the initial segments.
LEMMA FoldSteps ==
  ASSUME NEW kind, NEW p, NEW seq, NEW n \in Nat, NEW g, Unfolds(kind, p, seq, n, g)
  PROVE  \E f : IsFold(kind, p, seq, n, f) /\ f[n] = g[1 .. n]
<1> USE DEF Unfolds
<1>2. g[1 .. 0] = FoldBase(kind)
  <2>1. 1 .. 0 = {} /\ {} \in SUBSET (1 .. n)
    OBVIOUS
  <2> QED
    BY <2>1 DEF FoldEquation
<1>3. ASSUME NEW k \in 1 .. n
      PROVE  g[1 .. k] = FoldStep(kind, p, g[1 .. (k - 1)], seq[k])
  <2>1. /\ k - 1 \in Nat /\ 1 .. k \in SUBSET (1 .. n) /\ k \in 1 .. k
        /\ 1 .. k \in SUBSET (1 .. (k - 1) + 1) /\ (k - 1) + 1 = k
    OBVIOUS
  <2>2. Max(1 .. k) = k
    BY <2>1, LastIndex
  <2>3. (1 .. k) \ {k} = 1 .. (k - 1) /\ 1 .. k # {}
    OBVIOUS
  <2>4. g[1 .. k] = FoldEquation(kind, p, seq, g, 1 .. k)
    BY <2>1
  <2> QED
    BY <2>2, <2>3, <2>4 DEF FoldEquation
<1> DEFINE f == [k \in 0 .. n |-> g[1 .. k]]
<1>4. ASSUME NEW k \in 1 .. n PROVE f[k] = FoldStep(kind, p, f[k - 1], seq[k])
  <2>1. k \in 0 .. n /\ k - 1 \in 0 .. n
    OBVIOUS
  <2>2. f[k] = g[1 .. k] /\ f[k - 1] = g[1 .. (k - 1)]
    BY <2>1
  <2> HIDE DEF f
  <2> QED
    BY <2>2, <1>3
<1>5. f[0] = FoldBase(kind) /\ f[n] = g[1 .. n]
  BY <1>2
<1> HIDE DEF f
<1> QED
  BY <1>4, <1>5 DEF IsFold

\* Deduplication, one signal after the other.
LEMMA AbsorbFold ==
  ASSUME NEW seq, NEW n \in Nat, DOMAIN seq = 1 .. n
  PROVE  \E f : /\ f[0] = <<>> /\ f[n] = Absorbed(seq)
                /\ \A k \in 1 .. n : f[k] = Absorb(f[k - 1], seq[k])
<1> DEFINE E(g, s) == IF s = {} THEN <<>> ELSE Absorb(g[s \ {Max(s)}], seq[Max(s)])
           it == CHOOSE g : g = [s \in SUBSET (1 .. n) |-> E(g, s)]
<1>1. Absorbed(seq) = it[1 .. n]
  BY DEF Absorbed, FoldLeft, MapThenFoldSet
<1>2. \A g, s : FoldEquation("absorb", <<>>, seq, g, s) = E(g, s)
  BY DEF FoldEquation, FoldStep, FoldBase
<1> HIDE DEF E
<1>3. PICK g : Unfolds("absorb", <<>>, seq, n, g)
  BY FoldExists
<1>4. g = [s \in SUBSET (1 .. n) |-> E(g, s)]
  BY <1>2, <1>3 DEF Unfolds
<1>5. it = [s \in SUBSET (1 .. n) |-> E(it, s)]
  BY <1>4
<1> HIDE DEF it
<1>6. Unfolds("absorb", <<>>, seq, n, it)
  BY <1>2, <1>5 DEF Unfolds
<1>7. PICK f : IsFold("absorb", <<>>, seq, n, f) /\ f[n] = it[1 .. n]
  BY <1>6, FoldSteps
<1> QED
  BY <1>1, <1>7 DEF IsFold, FoldStep, FoldBase

\* The bursts of a list are a fold.
LEMMA BurstFold ==
  ASSUME NEW seq, NEW n \in Nat, DOMAIN seq = 1 .. n
  PROVE  \E f : /\ f[0] = <<>> /\ f[n] = InBursts(seq)
                /\ \A k \in 1 .. n : f[k] = JoinBurst(f[k - 1], seq[k])
<1> DEFINE E(g, s) == IF s = {} THEN <<>> ELSE JoinBurst(g[s \ {Max(s)}], seq[Max(s)])
           it == CHOOSE g : g = [s \in SUBSET (1 .. n) |-> E(g, s)]
<1>1. InBursts(seq) = it[1 .. n]
  BY DEF InBursts, FoldLeft, MapThenFoldSet
<1>2. \A g, s : FoldEquation("burst", <<>>, seq, g, s) = E(g, s)
  BY DEF FoldEquation, FoldStep, FoldBase
<1> HIDE DEF E
<1>3. PICK g : Unfolds("burst", <<>>, seq, n, g)
  BY FoldExists
<1>4. g = [s \in SUBSET (1 .. n) |-> E(g, s)]
  BY <1>2, <1>3 DEF Unfolds
<1>5. it = [s \in SUBSET (1 .. n) |-> E(it, s)]
  BY <1>4
<1> HIDE DEF it
<1>6. Unfolds("burst", <<>>, seq, n, it)
  BY <1>2, <1>5 DEF Unfolds
<1>7. PICK f : IsFold("burst", <<>>, seq, n, f) /\ f[n] = it[1 .. n]
  BY <1>6, FoldSteps
<1> QED
  BY <1>1, <1>7 DEF IsFold, FoldStep, FoldBase

\* So are its runs,
LEMMA RunFold ==
  ASSUME NEW seq, NEW n \in Nat, DOMAIN seq = 1 .. n
  PROVE  \E f : /\ f[0] = <<>> /\ f[n] = RunsOf(seq)
                /\ \A k \in 1 .. n : f[k] = JoinRun(f[k - 1], seq[k])
<1> DEFINE E(g, s) == IF s = {} THEN <<>> ELSE JoinRun(g[s \ {Max(s)}], seq[Max(s)])
           it == CHOOSE g : g = [s \in SUBSET (1 .. n) |-> E(g, s)]
<1>1. RunsOf(seq) = it[1 .. n]
  BY DEF RunsOf, FoldLeft, MapThenFoldSet
<1>2. \A g, s : FoldEquation("run", <<>>, seq, g, s) = E(g, s)
  BY DEF FoldEquation, FoldStep, FoldBase
<1> HIDE DEF E
<1>3. PICK g : Unfolds("run", <<>>, seq, n, g)
  BY FoldExists
<1>4. g = [s \in SUBSET (1 .. n) |-> E(g, s)]
  BY <1>2, <1>3 DEF Unfolds
<1>5. it = [s \in SUBSET (1 .. n) |-> E(it, s)]
  BY <1>4
<1> HIDE DEF it
<1>6. Unfolds("run", <<>>, seq, n, it)
  BY <1>2, <1>5 DEF Unfolds
<1>7. PICK f : IsFold("run", <<>>, seq, n, f) /\ f[n] = it[1 .. n]
  BY <1>6, FoldSteps
<1> QED
  BY <1>1, <1>7 DEF IsFold, FoldStep, FoldBase

\* and the sum of its confidences.
LEMMA SumFold ==
  ASSUME NEW seq, NEW n \in Nat, DOMAIN seq = 1 .. n
  PROVE  \E f : /\ f[0] = 0 /\ f[n] = Summed(seq)
                /\ \A k \in 1 .. n : f[k] = f[k - 1] + seq[k].conf
<1> DEFINE E(g, s) == IF s = {} THEN 0 ELSE g[s \ {Max(s)}] + seq[Max(s)].conf
           it == CHOOSE g : g = [s \in SUBSET (1 .. n) |-> E(g, s)]
<1>1. Summed(seq) = it[1 .. n]
  BY DEF Summed, FoldLeft, MapThenFoldSet
<1>2. \A g, s : FoldEquation("sum", <<>>, seq, g, s) = E(g, s)
  BY DEF FoldEquation, FoldStep, FoldBase
<1> HIDE DEF E
<1>3. PICK g : Unfolds("sum", <<>>, seq, n, g)
  BY FoldExists
<1>4. g = [s \in SUBSET (1 .. n) |-> E(g, s)]
  BY <1>2, <1>3 DEF Unfolds
<1>5. it = [s \in SUBSET (1 .. n) |-> E(it, s)]
  BY <1>4
<1> HIDE DEF it
<1>6. Unfolds("sum", <<>>, seq, n, it)
  BY <1>2, <1>5 DEF Unfolds
<1>7. PICK f : IsFold("sum", <<>>, seq, n, f) /\ f[n] = it[1 .. n]
  BY <1>6, FoldSteps
<1> QED
  BY <1>1, <1>7 DEF IsFold, FoldStep, FoldBase

\* Clustering, one signal after the other.
LEMMA PlaceFold ==
  ASSUME NEW seq, NEW n \in Nat, DOMAIN seq = 1 .. n
  PROVE  \E f : /\ f[0] = <<>> /\ f[n] = Placed(seq)
                /\ \A k \in 1 .. n : f[k] = Place(f[k - 1], seq[k])
<1> DEFINE E(g, s) == IF s = {} THEN <<>> ELSE Place(g[s \ {Max(s)}], seq[Max(s)])
           it == CHOOSE g : g = [s \in SUBSET (1 .. n) |-> E(g, s)]
<1>1. Placed(seq) = it[1 .. n]
  BY DEF Placed, FoldLeft, MapThenFoldSet
<1>2. \A g, s : FoldEquation("place", <<>>, seq, g, s) = E(g, s)
  BY DEF FoldEquation, FoldStep, FoldBase
<1> HIDE DEF E
<1>3. PICK g : Unfolds("place", <<>>, seq, n, g)
  BY FoldExists
<1>4. g = [s \in SUBSET (1 .. n) |-> E(g, s)]
  BY <1>2, <1>3 DEF Unfolds
<1>5. it = [s \in SUBSET (1 .. n) |-> E(it, s)]
  BY <1>4
<1> HIDE DEF it
<1>6. Unfolds("place", <<>>, seq, n, it)
  BY <1>2, <1>5 DEF Unfolds
<1>7. PICK f : IsFold("place", <<>>, seq, n, f) /\ f[n] = it[1 .. n]
  BY <1>6, FoldSteps
<1> QED
  BY <1>1, <1>7 DEF IsFold, FoldStep, FoldBase

\* The merging of incidents, one candidate after the other.
LEMMA CombineFold ==
  ASSUME NEW seq, NEW sigs, NEW es, NEW n \in Nat, DOMAIN seq = 1 .. n
  PROVE  \E f : /\ f[0] = <<>> /\ f[n] = Combined(seq, sigs, es)
                /\ \A k \in 1 .. n : f[k] = Combine(f[k - 1], seq[k], sigs, es)
<1> DEFINE E(g, s) == IF s = {} THEN <<>> ELSE Combine(g[s \ {Max(s)}], seq[Max(s)], sigs, es)
           it == CHOOSE g : g = [s \in SUBSET (1 .. n) |-> E(g, s)]
<1>1. Combined(seq, sigs, es) = it[1 .. n]
  BY DEF Combined, FoldLeft, MapThenFoldSet
<1>2. \A g, s : FoldEquation("combine", <<sigs, es>>, seq, g, s) = E(g, s)
  BY DEF FoldEquation, FoldStep, FoldBase
<1> HIDE DEF E
<1>3. PICK g : Unfolds("combine", <<sigs, es>>, seq, n, g)
  BY FoldExists
<1>4. g = [s \in SUBSET (1 .. n) |-> E(g, s)]
  BY <1>2, <1>3 DEF Unfolds
<1>5. it = [s \in SUBSET (1 .. n) |-> E(it, s)]
  BY <1>4
<1> HIDE DEF it
<1>6. Unfolds("combine", <<sigs, es>>, seq, n, it)
  BY <1>2, <1>5 DEF Unfolds
<1>7. PICK f : IsFold("combine", <<sigs, es>>, seq, n, f) /\ f[n] = it[1 .. n]
  BY <1>6, FoldSteps
<1> QED
  BY <1>1, <1>7 DEF IsFold, FoldStep, FoldBase

\* The sorted list of a set whose keys are integer sequences of one length.
LEMMA InOrderFirst ==
  ASSUME NEW S, IsFiniteSet(S), S # {}, NEW n \in Nat, NEW key \in [S -> [1 .. n -> Int]]
  PROVE  InOrder(S, key)[1] \in S
<1> DEFINE R == {p \in S \X S : Precedes(key[p[1]], key[p[2]])}
<1>1. \A x, y \in S : <<x, y>> \in R <=> Precedes(key[x], key[y])
  OBVIOUS
<1> HIDE DEF R
<1>2. \A x \in S : <<x, x>> \notin R
  BY <1>1, PrecedesOrders
<1>3. \A x, y, z \in S : <<x, y>> \in R /\ <<y, z>> \in R => <<x, z>> \in R
  <2> TAKE x, y, z \in S
  <2>1. key[x] \in [1 .. n -> Int] /\ key[y] \in [1 .. n -> Int] /\ key[z] \in [1 .. n -> Int]
    OBVIOUS
  <2>2. Precedes(key[x], key[y]) /\ Precedes(key[y], key[z]) => Precedes(key[x], key[z])
    BY <2>1, PrecedesOrders
  <2> QED
    BY <1>1, <2>2
<1>4. PICK x \in S : \A y \in S : <<y, x>> \notin R
  BY <1>2, <1>3, Minimal
<1>5. {y \in S : Precedes(key[y], key[x])} = {}
  BY <1>1, <1>4
<1>6. Cardinality({y \in S : Precedes(key[y], key[x])}) = 1 - 1
  BY <1>5, FS_EmptySet
<1>7. 1 \in 1 .. Cardinality(S)
  <2>1. Cardinality(S) \in Nat /\ Cardinality(S) # 0
    BY FS_CardinalityType, FS_EmptySet
  <2> QED
    BY <2>1
<1>8. InOrder(S, key)[1] = CHOOSE u \in S : Cardinality({y \in S : Precedes(key[y], key[u])}) = 1 - 1
  BY <1>7 DEF InOrder
<1> QED
  BY <1>6, <1>8

\* A key that is compared in a strict total order.
TotallyOrdered(S, key) ==
    /\ \A x \in S : ~Precedes(key[x], key[x])
    /\ \A x, y \in S : x # y => Precedes(key[x], key[y]) \/ Precedes(key[y], key[x])
    /\ \A x, y, z \in S : Precedes(key[x], key[y]) /\ Precedes(key[y], key[z])
                            => Precedes(key[x], key[z])

\* q lists S in the order of key.
ListsInOrder(q, S, key) ==
    /\ q \in Seq(S) /\ Len(q) = Cardinality(S)
    /\ \A x \in S : \E i \in DOMAIN q : q[i] = x
    /\ \A i, j \in DOMAIN q : i < j => Precedes(key[q[i]], key[q[j]])

\* A finite set is listed once by keys in a total order.
LEMMA InOrderTotal ==
  ASSUME NEW S, IsFiniteSet(S), NEW key, TotallyOrdered(S, key),
         NEW q, q = InOrder(S, key)
  PROVE  ListsInOrder(q, S, key)
<1> DEFINE below == [x \in S |-> {y \in S : Precedes(key[y], key[x])}]
<1>1. \A x, y \in S : y \in below[x] <=> Precedes(key[y], key[x])
  OBVIOUS
<1>2. below \in [S -> SUBSET S]
  OBVIOUS
<1> HIDE DEF below
<1>3. StrictOrder(S, below)
  <2>1. \A x \in S : x \notin below[x]
    BY <1>1 DEF TotallyOrdered
  <2>2. \A x, y \in S : x # y => x \in below[y] \/ y \in below[x]
    BY <1>1 DEF TotallyOrdered
  <2>3. \A x, y, z \in S : x \in below[y] /\ y \in below[z] => x \in below[z]
    BY <1>1 DEF TotallyOrdered
  <2> QED
    BY <1>2, <2>1, <2>2, <2>3 DEF StrictOrder
<1>4. ASSUME NEW i \in 1 .. Cardinality(S)
      PROVE  q[i] \in S /\ Cardinality(below[q[i]]) = i - 1
  <2>1. PICK x \in S : Cardinality(below[x]) = i - 1
    BY <1>3, Ranks
  <2>2. \A u \in S : below[u] = {y \in S : Precedes(key[y], key[u])}
    BY DEF below
  <2>3. q[i] = CHOOSE u \in S : Cardinality({y \in S : Precedes(key[y], key[u])}) = i - 1
    BY DEF InOrder
  <2>4. q[i] \in S /\ Cardinality({y \in S : Precedes(key[y], key[q[i]])}) = i - 1
    BY <2>1, <2>2, <2>3
  <2> QED
    BY <2>2, <2>4
<1>5. q \in [1 .. Cardinality(S) -> S]
  <2> DEFINE v(i) == CHOOSE x \in S : Cardinality({y \in S : Precedes(key[y], key[x])}) = i - 1
  <2>1. q = [i \in 1 .. Cardinality(S) |-> v(i)]
    BY DEF InOrder
  <2> HIDE DEF v
  <2>2. q = [i \in 1 .. Cardinality(S) |-> q[i]]
    BY <2>1
  <2> QED
    BY <2>2, <1>4
<1>c. ByRank(S, below, q)
  BY <1>4, <1>5 DEF ByRank
<1>6. /\ q \in Seq(S) /\ Len(q) = Cardinality(S)
      /\ \A x \in S : \E i \in DOMAIN q : q[i] = x
      /\ \A i, j \in DOMAIN q : i < j => q[i] \in below[q[j]]
  BY <1>3, <1>c, Listing
<1>7. \A i \in DOMAIN q : q[i] \in S
  BY <1>6
<1> QED
  BY <1>1, <1>6, <1>7 DEF ListsInOrder

\* A finite set whose keys tell its members apart is listed once, by its keys.
LEMMA InOrderLists ==
  ASSUME NEW S, IsFiniteSet(S), NEW n \in Nat, NEW key \in [S -> [1 .. n -> Int]],
         \A x, y \in S : key[x] = key[y] => x = y,
         NEW q, q = InOrder(S, key)
  PROVE  /\ q \in Seq(S) /\ Len(q) = Cardinality(S)
         /\ \A x \in S : \E i \in DOMAIN q : q[i] = x
         /\ \A i, j \in DOMAIN q : i < j => Precedes(key[q[i]], key[q[j]])
<1>1. TotallyOrdered(S, key)
  BY PrecedesOrders DEF TotallyOrdered
<1>2. ListsInOrder(q, S, key)
  BY <1>1, InOrderTotal
<1> QED
  BY <1>2 DEF ListsInOrder

-----------------------------------------------------------------------------
(***************************************************************************)
(* The signals of a rule.                                                  *)
(***************************************************************************)

\* Eligible events have times, and ids and ranks of their own; ranks follow time.
EventsOK(es) ==
    /\ IsFiniteSet(es)
    /\ \A e \in es : e.t \in Int /\ e.n \in Int
    /\ \A e \in es : e.src \in Int /\ e.dst \in Int /\ e.tdst \in Int
    /\ \A e, f \in es : (e.n = f.n => e = f) /\ (e.id = f.id => e = f)
    /\ \A e, f \in es : e.n < f.n => e.t <= f.t

\* A window: some events of one group, up to the last.
WindowOK(w, es) ==
    /\ w.last \in es /\ w.events \in SUBSET es /\ w.last \in w.events
    /\ \A f \in w.events : f.n <= w.last.n
    /\ w.at \in Int

\* Two windows of one rule.  Those of a sliding window are of different groups
\* or one goes on where the other stops, a whole group is one window, and a
\* sequence is known by the event that ends it.
Compatible(w, v, kind) ==
    /\ w.last = v.last => w = v
    /\ \/ /\ kind \in {"window", "group"}
          /\ w.at # v.at /\ w.events \cap v.events = {}
       \/ /\ kind = "window" /\ w.at = v.at
          /\ w.last.n <= v.last.n => \A f \in v.events : f.n <= w.last.n => f \in w.events
       \/ kind = "group" /\ w = v
       \/ kind = "sequence" /\ w.at = w.last.n /\ v.at = v.last.n

\* A signal tells of the events of the window w.
SignalFields ==
    {"rule", "type", "family", "sev", "conf", "first", "last", "ids", "entity", "targets",
     "key", "evid", "at", "upto"}

Tells(s, w) ==
    /\ DOMAIN s = SignalFields
    /\ s.first = Min(Times(w.events)) /\ s.last = Max(Times(w.events))
    /\ s.ids = {e.id : e \in w.events} /\ s.conf \in Int
    /\ s.at = w.at /\ s.upto = Max({e.n : e \in w.events})

\* Two signals of one rule, told by compatible windows.
Twins(s, r, es, kind) ==
    \E w, v : /\ WindowOK(w, es) /\ WindowOK(v, es) /\ Compatible(w, v, kind)
              /\ Tells(s, w) /\ Tells(r, v)
              /\ w = v => s = r

\* The types of signals about allowed access, and those about a service that is
\* sensitive by itself.
EXPOSURE_TYPES ==
    {"inbound_sensitive_service_allowed", "critical_management_service_exposed",
     "dnat_sensitive_service_exposure", "wan_to_lan_sensitive_service_allowed",
     "wan_to_dmz_administrative_service_allowed", "multi_source_allowed_sensitive_service"}
SENSITIVE_TYPES == EXPOSURE_TYPES \ {"wan_to_dmz_administrative_service_allowed"}

\* An event that exposes an asset.
Reaches(e) ==
    /\ IsAllowed(e) /\ ExternalInbound(e) /\ EffectiveDst(e) # NoAddr
    /\ SensitiveService(EffectivePort(e)) # "none"

\* What the type of a signal says of its events.
Shown(s, es) ==
    /\ s.family \in CROSS_PRIMARY <=> s.type \in EXPOSURE_TYPES
    /\ s.type \in SENSITIVE_TYPES => \A e \in EventsOf(es, s.ids) : Reaches(e)

\* The times and the ranks of some events are finite sets of integers.
LEMMA FieldsFinite ==
  ASSUME NEW W, IsFiniteSet(W), W # {}, \A e \in W : e.t \in Int /\ e.n \in Int
  PROVE  /\ IsFiniteSet(Times(W)) /\ Times(W) # {} /\ Times(W) \in SUBSET Int
         /\ IsFiniteSet({e.n : e \in W}) /\ {e.n : e \in W} # {} /\ {e.n : e \in W} \in SUBSET Int
<1> DEFINE time == [e \in W |-> e.t]
           rank == [e \in W |-> e.n]
<1>1. IsFiniteSet({time[e] : e \in W}) /\ IsFiniteSet({rank[e] : e \in W})
  BY FiniteImage
<1>2. {time[e] : e \in W} = Times(W) /\ {rank[e] : e \in W} = {e.n : e \in W}
  BY DEF Times
<1> QED
  BY <1>1, <1>2 DEF Times

\* Every rule has a window and a number of events.
LEMMA SettledRules ==
  ASSUME NEW rule \in
    {"network_scan_horizontal", "network_scan_vertical", "remote_service_probe",
     "extended_service_probe", "web_admin_panel_probe", "tcp_flag_scan", "tcp_ack_scan",
     "tcp_invalid", "tcp_reset", "spi_followed_by_allowed_connection",
     "inbound_sensitive_service_allowed", "critical_management_service_exposed",
     "dnat_sensitive_service_exposure", "wan_to_lan_sensitive_service_allowed",
     "wan_to_dmz_administrative_service_allowed", "blocked_then_allowed_same_service",
     "multi_source_allowed_sensitive_service", "spi_anomaly_burst", "network_flood_dos",
     "low_and_slow_horizontal_scan", "low_and_slow_vertical_scan",
     "repeated_blocked_scanner", "internal_lateral_scan", "subnet_sweep",
     "distributed_scan", "multi_service_sweep", "scan_followed_by_allowed_connection",
     "fixed_source_port_scan"}
  PROVE  Threshold[rule].window \in Nat /\ Threshold[rule].events \in Int
<1>1. rule \in DOMAIN ProbeDefaults \cup DOMAIN ExposureDefaults \cup DOMAIN ScanDefaults
  BY DEF ProbeDefaults, ExposureDefaults, ScanDefaults
<1> QED
  BY <1>1, ThresholdAssumption

\* The confidence of a signal is a number.
LEMMA ConfidenceType ==
  ASSUME NEW n \in Int, NEW minimum \in Int, NEW lo \in Int, NEW hi \in Int
  PROVE  n >= 0 => Confidence(n, minimum, lo, hi) \in Int
<1>1. CASE minimum <= 0 /\ n >= 0
  BY <1>1 DEF Confidence
<1>2. CASE minimum > 0 /\ n < minimum
  <2>1. lo * n \in Int
    OBVIOUS
  <2>2. \A x \in Int : x \div minimum \in Int
    BY <1>2
  <2> QED
    BY <1>2, <2>1, <2>2 DEF Confidence
<1>3. CASE minimum > 0 /\ n >= minimum
  <2>1. (n - minimum) * (hi - lo) \in Int /\ n + minimum \in Int /\ n + minimum > 0
    BY <1>3
  <2>2. \A x, y \in Int : y > 0 => x \div y \in Int
    OBVIOUS
  <2>3. ((n - minimum) * (hi - lo)) \div (n + minimum) \in Int
    BY <2>1, <2>2
  <2> QED
    BY <1>3, <2>3 DEF Confidence
<1> QED
  BY <1>1, <1>2, <1>3

\* What a rule tells with the events of a window.
LEMMA SignalTells ==
  ASSUME NEW es, EventsOK(es), NEW w, WindowOK(w, es), NEW m, m.lo \in Int, m.hi \in Int,
         NEW n \in Int, NEW entity, NEW targets, NEW key, NEW evidence,
         NEW s, s = Signal(m, Cardinality(w.events), n, w.events, entity, targets, key, evidence, w.at)
  PROVE  Tells(s, w) /\ s.rule = m.rule /\ s.type = m.type /\ s.family = m.family
<1> DEFINE c == Cardinality(w.events)
           lo == m.lo
           hi == m.hi
<1>1. c \in Int /\ c >= 0 /\ lo \in Int /\ hi \in Int
  <2>1. IsFiniteSet(w.events)
    BY FS_Subset DEF EventsOK, WindowOK
  <2> QED
    BY <2>1, FS_CardinalityType
<1>2. s.conf = Confidence(c, n, lo, hi)
  BY DEF Signal
<1> HIDE DEF c, lo, hi
<1>3. s.conf \in Int
  BY <1>1, <1>2, ConfidenceType
<1> QED
  BY <1>3 DEF Signal, Tells, SignalFields

\* A signal that is not about allowed access.
LEMMA NotExposure ==
  ASSUME NEW es, NEW s, s.family \notin CROSS_PRIMARY, s.type \notin EXPOSURE_TYPES
  PROVE  Shown(s, es)
BY DEF Shown, SENSITIVE_TYPES

\* One that is, told by events that expose a sensitive service.
LEMMA ExposureShown ==
  ASSUME NEW es, EventsOK(es), NEW s, NEW w, WindowOK(w, es), Tells(s, w),
         s.family \in CROSS_PRIMARY, s.type \in EXPOSURE_TYPES, \A e \in w.events : Reaches(e)
  PROVE  Shown(s, es)
<1>1. EventsOf(es, s.ids) \subseteq w.events
  BY DEF EventsOf, Tells, EventsOK, WindowOK
<1> QED
  BY <1>1 DEF Shown

\* Sliding windows of one rule are compatible.
LEMMA WindowsShape ==
  ASSUME NEW es, EventsOK(es), NEW D \in SUBSET es, NEW key, NEW seconds \in Nat,
         NEW w \in Windows(D, key, seconds)
  PROVE  /\ WindowOK(w, es)
         /\ \A v \in Windows(D, key, seconds) : Compatible(w, v, "window")
<1> USE DEF EventsOK
<1>1. PICK e \in D : w = [last |-> e, at |-> Min({f.n : f \in {g \in D : key[g] = key[e]}}),
      events |-> {f \in D : key[f] = key[e] /\ f.n <= e.n /\ e.t - f.t <= seconds}]
  BY DEF Windows
<1> DEFINE G(x) == {g \in D : key[g] = key[x]}
           N(x) == {f.n : f \in G(x)}
<1>2. ASSUME NEW x \in D
      PROVE  /\ Min(N(x)) \in Int
             /\ \E f \in G(x) : f.n = Min(N(x))
  <2>1. IsFiniteSet(G(x)) /\ G(x) # {} /\ \A y \in G(x) : y.t \in Int /\ y.n \in Int
    <3>1. G(x) \in SUBSET es /\ x \in G(x)
      OBVIOUS
    <3> HIDE DEF G
    <3> QED
      BY <3>1, FS_Subset
  <2> HIDE DEF G
  <2>2. IsFiniteSet(N(x)) /\ N(x) # {} /\ N(x) \in SUBSET Int
    BY <2>1, FieldsFinite
  <2>3. Min(N(x)) \in N(x)
    BY <2>2, MinMax
  <2> QED
    BY <2>2, <2>3
<1>3. WindowOK(w, es)
  <2>1. w.at \in Int
    BY <1>1, <1>2
  <2>2. w.last = e /\ w.events = {f \in D : key[f] = key[e] /\ f.n <= e.n /\ e.t - f.t <= seconds}
    BY <1>1
  <2>3. e \in w.events
    BY <2>2
  <2> QED
    BY <2>1, <2>2, <2>3 DEF WindowOK
<1>4. ASSUME NEW v \in Windows(D, key, seconds) PROVE Compatible(w, v, "window")
  <2>1. PICK d \in D : v = [last |-> d, at |-> Min({f.n : f \in {g \in D : key[g] = key[d]}}),
      events |-> {f \in D : key[f] = key[d] /\ f.n <= d.n /\ d.t - f.t <= seconds}]
    BY DEF Windows
  <2>2. /\ w.last = e /\ w.at = Min(N(e))
        /\ \A f : f \in w.events <=> f \in D /\ key[f] = key[e] /\ f.n <= e.n /\ e.t - f.t <= seconds
    BY <1>1
  <2>3. /\ v.last = d /\ v.at = Min(N(d))
        /\ \A f : f \in v.events <=> f \in D /\ key[f] = key[d] /\ f.n <= d.n /\ d.t - f.t <= seconds
    BY <2>1
  <2>4. w.last = v.last => w = v
    BY <1>1, <2>1, <2>2, <2>3
  <2>5. key[e] = key[d] => w.at = v.at
    <3>1. key[e] = key[d] => G(e) = G(d)
      OBVIOUS
    <3> HIDE DEF G
    <3> QED
      BY <2>2, <2>3, <3>1
  <2>6. w.at # v.at => w.events \cap v.events = {}
    BY <2>2, <2>3, <2>5
  <2>7. ASSUME w.at = v.at PROVE key[e] = key[d]
    <3>4. /\ \E f \in G(e) : f.n = Min(N(e))
          /\ \E g \in G(d) : g.n = Min(N(d))
      BY <1>2
    <3>1. PICK f \in G(e) : f.n = w.at
      BY <2>2, <3>4
    <3>2. PICK g \in G(d) : g.n = v.at
      BY <2>3, <3>4
    <3>3. f = g
      BY <3>1, <3>2, <2>7
    <3> QED
      BY <3>1, <3>2, <3>3
  <2>8. ASSUME w.at = v.at, w.last.n <= v.last.n, NEW f \in v.events, f.n <= w.last.n
        PROVE  f \in w.events
    <3>1. e.n <= d.n /\ e.n \in Int /\ d.n \in Int /\ e.t \in Int /\ d.t \in Int /\ f.t \in Int
      BY <2>2, <2>3, <2>8
    <3>2. e.t <= d.t
      <4>1. CASE e.n = d.n
        BY <4>1, <3>1
      <4>2. CASE e.n # d.n
        BY <4>2, <3>1
      <4> QED
        BY <4>1, <4>2
    <3>3. d.t - f.t <= seconds
      BY <2>3
    <3>4. e.t - f.t <= seconds
      BY <3>1, <3>2, <3>3
    <3> QED
      BY <3>4, <2>2, <2>3, <2>7, <2>8
  <2> QED
    BY <2>4, <2>6, <2>8 DEF Compatible
<1> QED
  BY <1>3, <1>4

\* The events of a window.
LEMMA WindowEvents ==
  ASSUME NEW D, NEW key, NEW seconds, NEW w \in Windows(D, key, seconds)
  PROVE  w.events \in SUBSET D
<1> DEFINE at(e) == Min({f.n : f \in {g \in D : key[g] = key[e]}})
           W(e) == {f \in D : key[f] = key[e] /\ f.n <= e.n /\ e.t - f.t <= seconds}
<1>1. Windows(D, key, seconds) = {[last |-> e, at |-> at(e), events |-> W(e)] : e \in D}
  BY DEF Windows
<1>2. \A e : W(e) \in SUBSET D
  OBVIOUS
<1> HIDE DEF at, W
<1> QED
  BY <1>1, <1>2

\* The signals of each rule that slides a window: any two of them are twins.
LEMMA HorizontalTwins ==
  ASSUME NEW es, EventsOK(es), NEW s \in HorizontalScan(es), NEW r \in HorizontalScan(es)
  PROVE  /\ Twins(s, r, es, "window")
         /\ s.rule = "network_scan_horizontal"
         /\ s.type = "horizontal_scan"
         /\ Shown(s, es)
<1> DEFINE t == Threshold["network_scan_horizontal"]
           D == {e \in es : e.src # NoAddr /\ e.dport > 0}
           key(e) == <<e.src, e.dport, e.proto>>
           V == Windows(D, [e \in D |-> key(e)], t.window)
           meta(W) == Meta("network_scan_horizontal", "horizontal_scan", "network_scanning",
                           IF Cardinality(Dsts(W)) > 2 * t.targets THEN "high" ELSE "medium", 600, 900)
           ok(W) == /\ AtMost(t.targets, Dsts(W))
                    /\ AtLeast(W, t.block, IsNarrowBlocked) /\ TcpSyns(W, t)
           f(w) == Signal(meta(w.events), Cardinality(w.events), t.events, w.events, w.last.src,
                          Dsts(w.events), key(w.last), FirstOf(w.events, 3), w.at)
<1>1. HorizontalScan(es) =
        {f(w) : w \in {v \in V : Cardinality(v.events) >= t.events /\ ok(v.events)}}
  BY DEF HorizontalScan, Scan, Source
<1>2. D \in SUBSET es /\ t.window \in Nat /\ t.events \in Int
  BY SettledRules
<1>3. \A W : /\ meta(W).rule = "network_scan_horizontal"
             /\ meta(W).type = "horizontal_scan"
             /\ meta(W).lo \in Int /\ meta(W).hi \in Int
             /\ meta(W).family \notin CROSS_PRIMARY /\ meta(W).type \notin EXPOSURE_TYPES
  BY DEF Meta, CROSS_PRIMARY, EXPOSURE_TYPES
<1> HIDE DEF D, key, t, ok, meta
<1>4. \A w \in V : WindowOK(w, es) /\ \A v \in V : Compatible(w, v, "window")
  BY <1>2, WindowsShape
<1> HIDE DEF V
<1>5. ASSUME NEW w \in V
      PROVE  /\ Tells(f(w), w)
             /\ f(w).rule = "network_scan_horizontal"
             /\ f(w).type = "horizontal_scan"
             /\ f(w).family = meta(w.events).family
  <2> DEFINE m == meta(w.events)
             n == t.events
  <2>1. m.lo \in Int /\ m.hi \in Int /\ n \in Int /\ WindowOK(w, es)
    BY <1>2, <1>3, <1>4
  <2>2. f(w) = Signal(m, Cardinality(w.events), n, w.events,
                      w.last.src, Dsts(w.events), key(w.last), FirstOf(w.events, 3), w.at)
    OBVIOUS
  <2> HIDE DEF m, n, f
  <2>3. Tells(f(w), w) /\ f(w).rule = m.rule /\ f(w).type = m.type /\ f(w).family = m.family
    BY <2>1, <2>2, SignalTells
  <2> QED
    BY <2>3, <1>3 DEF m
<1> HIDE DEF f
<1>9. \A w \in V : Shown(f(w), es)
  BY <1>3, <1>5, NotExposure
<1> QED
  BY <1>1, <1>4, <1>5, <1>9 DEF Twins

\* The signals of network_scan_vertical.
LEMMA VerticalTwins ==
  ASSUME NEW es, EventsOK(es), NEW s \in VerticalScan(es), NEW r \in VerticalScan(es)
  PROVE  /\ Twins(s, r, es, "window")
         /\ s.rule = "network_scan_vertical"
         /\ s.type = "vertical_scan"
         /\ Shown(s, es)
         /\ DOMAIN s.key = 1 .. 3
<1> DEFINE t == Threshold["network_scan_vertical"]
           D == {e \in es : e.src # NoAddr /\ e.dst # NoAddr}
           key(e) == <<e.src, e.dst, e.proto>>
           V == Windows(D, [e \in D |-> key(e)], t.window)
           open(W) == DPorts(W) \ {0}
           meta(W) == Meta("network_scan_vertical", "vertical_scan", "network_scanning",
                           IF Cardinality(open(W)) > 2 * t.ports THEN "high" ELSE "medium", 600, 900)
           ok(W) == /\ AtMost(t.ports, open(W))
                    /\ AtLeast(W, t.block, IsNarrowBlocked) /\ TcpSyns(W, t)
           f(w) == Signal(meta(w.events), Cardinality(w.events), t.events, w.events, w.last.src,
                          Dsts(w.events), key(w.last), FirstOf(w.events, 3), w.at)
<1>1. VerticalScan(es) =
        {f(w) : w \in {v \in V : Cardinality(v.events) >= t.events /\ ok(v.events)}}
  BY DEF VerticalScan, Scan, Source
<1>2. D \in SUBSET es /\ t.window \in Nat /\ t.events \in Int
  BY SettledRules
<1>3. \A W : /\ meta(W).rule = "network_scan_vertical"
             /\ meta(W).type = "vertical_scan"
             /\ meta(W).lo \in Int /\ meta(W).hi \in Int
             /\ meta(W).family \notin CROSS_PRIMARY /\ meta(W).type \notin EXPOSURE_TYPES
  BY DEF Meta, CROSS_PRIMARY, EXPOSURE_TYPES
<1>6. \A w : DOMAIN f(w).key = 1 .. 3
  BY DEF Signal
<1> HIDE DEF D, key, t, ok, meta
<1>4. \A w \in V : WindowOK(w, es) /\ \A v \in V : Compatible(w, v, "window")
  BY <1>2, WindowsShape
<1> HIDE DEF V
<1>5. ASSUME NEW w \in V
      PROVE  /\ Tells(f(w), w)
             /\ f(w).rule = "network_scan_vertical"
             /\ f(w).type = "vertical_scan"
             /\ f(w).family = meta(w.events).family
  <2> DEFINE m == meta(w.events)
             n == t.events
  <2>1. m.lo \in Int /\ m.hi \in Int /\ n \in Int /\ WindowOK(w, es)
    BY <1>2, <1>3, <1>4
  <2>2. f(w) = Signal(m, Cardinality(w.events), n, w.events,
                      w.last.src, Dsts(w.events), key(w.last), FirstOf(w.events, 3), w.at)
    OBVIOUS
  <2> HIDE DEF m, n, f
  <2>3. Tells(f(w), w) /\ f(w).rule = m.rule /\ f(w).type = m.type /\ f(w).family = m.family
    BY <2>1, <2>2, SignalTells
  <2> QED
    BY <2>3, <1>3 DEF m
<1> HIDE DEF f
<1>9. \A w \in V : Shown(f(w), es)
  BY <1>3, <1>5, NotExposure
<1> QED
  BY <1>1, <1>4, <1>5, <1>6, <1>9 DEF Twins

\* The signals of subnet_sweep.
LEMMA SweepTwins ==
  ASSUME NEW es, EventsOK(es), NEW s \in SubnetSweep(es), NEW r \in SubnetSweep(es)
  PROVE  /\ Twins(s, r, es, "window")
         /\ s.rule = "subnet_sweep"
         /\ s.type = "subnet_sweep"
         /\ Shown(s, es)
<1> DEFINE t == Threshold["subnet_sweep"]
           D == {e \in es : e.src # NoAddr /\ e.dst # NoAddr /\ e.dport # NoPort}
           key(e) == <<e.src, Network(e.dst), e.dport, e.proto>>
           V == Windows(D, [e \in D |-> key(e)], t.window)
           meta(W) == Meta("subnet_sweep", "subnet_sweep", "network_scanning", "medium", 650, 900)
           ok(W) == AtMost(t.targets, Dsts(W)) /\ Blocked(W, t) /\ TcpSyns(W, t)
           f(w) == Signal(meta(w.events), Cardinality(w.events), t.events, w.events, w.last.src,
                          BoundedDsts(w.events), key(w.last), FirstOf(w.events, 3), w.at)
<1>1. SubnetSweep(es) =
        {f(w) : w \in {v \in V : Cardinality(v.events) >= t.events /\ ok(v.events)}}
  BY DEF SubnetSweep, Scan, Source
<1>2. D \in SUBSET es /\ t.window \in Nat /\ t.events \in Int
  BY SettledRules
<1>3. \A W : /\ meta(W).rule = "subnet_sweep"
             /\ meta(W).type = "subnet_sweep"
             /\ meta(W).lo \in Int /\ meta(W).hi \in Int
             /\ meta(W).family \notin CROSS_PRIMARY /\ meta(W).type \notin EXPOSURE_TYPES
  BY DEF Meta, CROSS_PRIMARY, EXPOSURE_TYPES
<1> HIDE DEF D, key, t, ok, meta
<1>4. \A w \in V : WindowOK(w, es) /\ \A v \in V : Compatible(w, v, "window")
  BY <1>2, WindowsShape
<1> HIDE DEF V
<1>5. ASSUME NEW w \in V
      PROVE  /\ Tells(f(w), w)
             /\ f(w).rule = "subnet_sweep"
             /\ f(w).type = "subnet_sweep"
             /\ f(w).family = meta(w.events).family
  <2> DEFINE m == meta(w.events)
             n == t.events
  <2>1. m.lo \in Int /\ m.hi \in Int /\ n \in Int /\ WindowOK(w, es)
    BY <1>2, <1>3, <1>4
  <2>2. f(w) = Signal(m, Cardinality(w.events), n, w.events,
                      w.last.src, BoundedDsts(w.events), key(w.last), FirstOf(w.events, 3), w.at)
    OBVIOUS
  <2> HIDE DEF m, n, f
  <2>3. Tells(f(w), w) /\ f(w).rule = m.rule /\ f(w).type = m.type /\ f(w).family = m.family
    BY <2>1, <2>2, SignalTells
  <2> QED
    BY <2>3, <1>3 DEF m
<1> HIDE DEF f
<1>9. \A w \in V : Shown(f(w), es)
  BY <1>3, <1>5, NotExposure
<1> QED
  BY <1>1, <1>4, <1>5, <1>9 DEF Twins

\* The signals of internal_lateral_scan.
LEMMA LateralTwins ==
  ASSUME NEW es, EventsOK(es), NEW s \in InternalLateralScan(es),
         NEW r \in InternalLateralScan(es)
  PROVE  /\ Twins(s, r, es, "window")
         /\ s.rule = "internal_lateral_scan"
         /\ s.type = "internal_lateral_scan"
         /\ Shown(s, es)
<1> DEFINE t == Threshold["internal_lateral_scan"]
           D == {e \in es : /\ e.src \in Private /\ e.dst \in Private /\ e.src # e.dst
                            /\ e.dport \in LateralPorts /\ e.proto = "TCP"}
           key(e) == <<e.src>>
           V == Windows(D, [e \in D |-> key(e)], t.window)
           meta(W) == Meta("internal_lateral_scan", "internal_lateral_scan", "lateral_movement_candidate",
                           "high", 750, 950)
           ok(W) == AtMost(t.targets, Dsts(W)) /\ Blocked(W, t) /\ Syns(W, t)
           f(w) == Signal(meta(w.events), Cardinality(w.events), t.events, w.events, w.last.src,
                          BoundedDsts(w.events), key(w.last), FirstOf(w.events, 3), w.at)
<1>1. InternalLateralScan(es) =
        {f(w) : w \in {v \in V : Cardinality(v.events) >= t.events /\ ok(v.events)}}
  BY DEF InternalLateralScan, Scan, Source, BySource
<1>2. D \in SUBSET es /\ t.window \in Nat /\ t.events \in Int
  BY SettledRules
<1>3. \A W : /\ meta(W).rule = "internal_lateral_scan"
             /\ meta(W).type = "internal_lateral_scan"
             /\ meta(W).lo \in Int /\ meta(W).hi \in Int
             /\ meta(W).family \notin CROSS_PRIMARY /\ meta(W).type \notin EXPOSURE_TYPES
  BY DEF Meta, CROSS_PRIMARY, EXPOSURE_TYPES
<1> HIDE DEF D, key, t, ok, meta
<1>4. \A w \in V : WindowOK(w, es) /\ \A v \in V : Compatible(w, v, "window")
  BY <1>2, WindowsShape
<1> HIDE DEF V
<1>5. ASSUME NEW w \in V
      PROVE  /\ Tells(f(w), w)
             /\ f(w).rule = "internal_lateral_scan"
             /\ f(w).type = "internal_lateral_scan"
             /\ f(w).family = meta(w.events).family
  <2> DEFINE m == meta(w.events)
             n == t.events
  <2>1. m.lo \in Int /\ m.hi \in Int /\ n \in Int /\ WindowOK(w, es)
    BY <1>2, <1>3, <1>4
  <2>2. f(w) = Signal(m, Cardinality(w.events), n, w.events,
                      w.last.src, BoundedDsts(w.events), key(w.last), FirstOf(w.events, 3), w.at)
    OBVIOUS
  <2> HIDE DEF m, n, f
  <2>3. Tells(f(w), w) /\ f(w).rule = m.rule /\ f(w).type = m.type /\ f(w).family = m.family
    BY <2>1, <2>2, SignalTells
  <2> QED
    BY <2>3, <1>3 DEF m
<1> HIDE DEF f
<1>9. \A w \in V : Shown(f(w), es)
  BY <1>3, <1>5, NotExposure
<1> QED
  BY <1>1, <1>4, <1>5, <1>9 DEF Twins

\* The signals of multi_service_sweep.
LEMMA ServicesTwins ==
  ASSUME NEW es, EventsOK(es), NEW s \in MultiServiceSweep(es),
         NEW r \in MultiServiceSweep(es)
  PROVE  /\ Twins(s, r, es, "window")
         /\ s.rule = "multi_service_sweep"
         /\ s.type = "multi_service_sweep"
         /\ Shown(s, es)
<1> DEFINE t == Threshold["multi_service_sweep"]
           D == {e \in es : /\ e.src # NoAddr /\ e.dst # NoAddr
                            /\ e.proto = "TCP" /\ ServiceOf(e.dport) # "none"}
           key(e) == <<e.src>>
           V == Windows(D, [e \in D |-> key(e)], t.window)
           services(W) == {ServiceOf(e.dport) : e \in W}
           meta(W) == Meta("multi_service_sweep", "multi_service_sweep", "service_probing", "high", 750, 950)
           ok(W) == /\ AtMost(t.ports, services(W)) /\ AtMost(t.targets, Dsts(W))
                    /\ Blocked(W, t) /\ Syns(W, t)
           f(w) == Signal(meta(w.events), Cardinality(w.events), t.events, w.events, w.last.src,
                          BoundedDsts(w.events), key(w.last), FirstOf(w.events, 3), w.at)
<1>1. MultiServiceSweep(es) =
        {f(w) : w \in {v \in V : Cardinality(v.events) >= t.events /\ ok(v.events)}}
  BY DEF MultiServiceSweep, Scan, Source, BySource
<1>2. D \in SUBSET es /\ t.window \in Nat /\ t.events \in Int
  BY SettledRules
<1>3. \A W : /\ meta(W).rule = "multi_service_sweep"
             /\ meta(W).type = "multi_service_sweep"
             /\ meta(W).lo \in Int /\ meta(W).hi \in Int
             /\ meta(W).family \notin CROSS_PRIMARY /\ meta(W).type \notin EXPOSURE_TYPES
  BY DEF Meta, CROSS_PRIMARY, EXPOSURE_TYPES
<1> HIDE DEF D, key, t, ok, meta
<1>4. \A w \in V : WindowOK(w, es) /\ \A v \in V : Compatible(w, v, "window")
  BY <1>2, WindowsShape
<1> HIDE DEF V
<1>5. ASSUME NEW w \in V
      PROVE  /\ Tells(f(w), w)
             /\ f(w).rule = "multi_service_sweep"
             /\ f(w).type = "multi_service_sweep"
             /\ f(w).family = meta(w.events).family
  <2> DEFINE m == meta(w.events)
             n == t.events
  <2>1. m.lo \in Int /\ m.hi \in Int /\ n \in Int /\ WindowOK(w, es)
    BY <1>2, <1>3, <1>4
  <2>2. f(w) = Signal(m, Cardinality(w.events), n, w.events,
                      w.last.src, BoundedDsts(w.events), key(w.last), FirstOf(w.events, 3), w.at)
    OBVIOUS
  <2> HIDE DEF m, n, f
  <2>3. Tells(f(w), w) /\ f(w).rule = m.rule /\ f(w).type = m.type /\ f(w).family = m.family
    BY <2>1, <2>2, SignalTells
  <2> QED
    BY <2>3, <1>3 DEF m
<1> HIDE DEF f
<1>9. \A w \in V : Shown(f(w), es)
  BY <1>3, <1>5, NotExposure
<1> QED
  BY <1>1, <1>4, <1>5, <1>9 DEF Twins

\* The signals of repeated_blocked_scanner.
LEMMA ScannerTwins ==
  ASSUME NEW es, EventsOK(es), NEW s \in RepeatedBlockedScanner(es),
         NEW r \in RepeatedBlockedScanner(es)
  PROVE  /\ Twins(s, r, es, "window")
         /\ s.rule = "repeated_blocked_scanner"
         /\ s.type = "repeated_blocked_scanner"
         /\ Shown(s, es)
<1> DEFINE t == Threshold["repeated_blocked_scanner"]
           D == {e \in es : /\ e.src # NoAddr /\ ~IsSpi(e, SpiFallback)
                            /\ e.proto = "TCP" => IsInitialProbe(e)}
           key(e) == <<e.src, e.proto>>
           V == Windows(D, [e \in D |-> key(e)], t.window)
           meta(W) == Meta("repeated_blocked_scanner", "repeated_blocked_scanner", "network_scanning",
                           "low", 550, 800)
           ok(W) == /\ Blocked(W, t)
                    /\ AtMost(t.targets, Dsts(W)) \/ AtMost(t.ports, DPorts(W))
           f(w) == Signal(meta(w.events), Cardinality(w.events), t.events, w.events, w.last.src,
                          BoundedDsts(w.events), key(w.last), FirstOf(w.events, 3), w.at)
<1>1. RepeatedBlockedScanner(es) =
        {f(w) : w \in {v \in V : Cardinality(v.events) >= t.events /\ ok(v.events)}}
  BY DEF RepeatedBlockedScanner, Scan, Source
<1>2. D \in SUBSET es /\ t.window \in Nat /\ t.events \in Int
  BY SettledRules
<1>3. \A W : /\ meta(W).rule = "repeated_blocked_scanner"
             /\ meta(W).type = "repeated_blocked_scanner"
             /\ meta(W).lo \in Int /\ meta(W).hi \in Int
             /\ meta(W).family \notin CROSS_PRIMARY /\ meta(W).type \notin EXPOSURE_TYPES
  BY DEF Meta, CROSS_PRIMARY, EXPOSURE_TYPES
<1> HIDE DEF D, key, t, ok, meta
<1>4. \A w \in V : WindowOK(w, es) /\ \A v \in V : Compatible(w, v, "window")
  BY <1>2, WindowsShape
<1> HIDE DEF V
<1>5. ASSUME NEW w \in V
      PROVE  /\ Tells(f(w), w)
             /\ f(w).rule = "repeated_blocked_scanner"
             /\ f(w).type = "repeated_blocked_scanner"
             /\ f(w).family = meta(w.events).family
  <2> DEFINE m == meta(w.events)
             n == t.events
  <2>1. m.lo \in Int /\ m.hi \in Int /\ n \in Int /\ WindowOK(w, es)
    BY <1>2, <1>3, <1>4
  <2>2. f(w) = Signal(m, Cardinality(w.events), n, w.events,
                      w.last.src, BoundedDsts(w.events), key(w.last), FirstOf(w.events, 3), w.at)
    OBVIOUS
  <2> HIDE DEF m, n, f
  <2>3. Tells(f(w), w) /\ f(w).rule = m.rule /\ f(w).type = m.type /\ f(w).family = m.family
    BY <2>1, <2>2, SignalTells
  <2> QED
    BY <2>3, <1>3 DEF m
<1> HIDE DEF f
<1>9. \A w \in V : Shown(f(w), es)
  BY <1>3, <1>5, NotExposure
<1> QED
  BY <1>1, <1>4, <1>5, <1>9 DEF Twins

\* The signals of distributed_scan.
LEMMA DistributedTwins ==
  ASSUME NEW es, EventsOK(es), NEW s \in DistributedScan(es),
         NEW r \in DistributedScan(es)
  PROVE  /\ Twins(s, r, es, "window")
         /\ s.rule = "distributed_scan"
         /\ s.type = "distributed_scan"
         /\ Shown(s, es)
<1> DEFINE t == Threshold["distributed_scan"]
           D == {e \in es : e.src # NoAddr /\ e.dst # NoAddr /\ e.dport # NoPort}
           key(e) == <<e.dst, e.dport, e.proto>>
           V == Windows(D, [e \in D |-> key(e)], t.window)
           atLeast(a, b) == IF a < b THEN b ELSE a
           strict(W) == IF \E e \in W : e.dport \in {80, 443}
                        THEN [block |-> atLeast(t.block, 90), syn |-> atLeast(t.syn, 80)]
                        ELSE [block |-> t.block, syn |-> t.syn]
           meta(W) == Meta("distributed_scan", "distributed_scan", "network_scanning", "medium", 700, 900)
           ok(W) == /\ AtMost(t.targets, Srcs(W))
                    /\ Blocked(W, strict(W)) /\ TcpSyns(W, strict(W))
           f(w) == Signal(meta(w.events), Cardinality(w.events), t.events, w.events, w.last.dst,
                          Bounded(Srcs(w.events)), key(w.last), FirstOf(w.events, 3), w.at)
<1>1. DistributedScan(es) =
        {f(w) : w \in {v \in V : Cardinality(v.events) >= t.events /\ ok(v.events)}}
  BY DEF DistributedScan, Scan
<1>2. D \in SUBSET es /\ t.window \in Nat /\ t.events \in Int
  BY SettledRules
<1>3. \A W : /\ meta(W).rule = "distributed_scan"
             /\ meta(W).type = "distributed_scan"
             /\ meta(W).lo \in Int /\ meta(W).hi \in Int
             /\ meta(W).family \notin CROSS_PRIMARY /\ meta(W).type \notin EXPOSURE_TYPES
  BY DEF Meta, CROSS_PRIMARY, EXPOSURE_TYPES
<1> HIDE DEF D, key, t, ok, meta
<1>4. \A w \in V : WindowOK(w, es) /\ \A v \in V : Compatible(w, v, "window")
  BY <1>2, WindowsShape
<1> HIDE DEF V
<1>5. ASSUME NEW w \in V
      PROVE  /\ Tells(f(w), w)
             /\ f(w).rule = "distributed_scan"
             /\ f(w).type = "distributed_scan"
             /\ f(w).family = meta(w.events).family
  <2> DEFINE m == meta(w.events)
             n == t.events
  <2>1. m.lo \in Int /\ m.hi \in Int /\ n \in Int /\ WindowOK(w, es)
    BY <1>2, <1>3, <1>4
  <2>2. f(w) = Signal(m, Cardinality(w.events), n, w.events,
                      w.last.dst, Bounded(Srcs(w.events)), key(w.last), FirstOf(w.events, 3), w.at)
    OBVIOUS
  <2> HIDE DEF m, n, f
  <2>3. Tells(f(w), w) /\ f(w).rule = m.rule /\ f(w).type = m.type /\ f(w).family = m.family
    BY <2>1, <2>2, SignalTells
  <2> QED
    BY <2>3, <1>3 DEF m
<1> HIDE DEF f
<1>9. \A w \in V : Shown(f(w), es)
  BY <1>3, <1>5, NotExposure
<1> QED
  BY <1>1, <1>4, <1>5, <1>9 DEF Twins

\* The signals of low_and_slow_horizontal_scan.
LEMMA SlowHorizontalTwins ==
  ASSUME NEW es, EventsOK(es), NEW s \in LowAndSlowHorizontalScan(es),
         NEW r \in LowAndSlowHorizontalScan(es)
  PROVE  /\ Twins(s, r, es, "window")
         /\ s.rule = "low_and_slow_horizontal_scan"
         /\ s.type = "low_and_slow_horizontal_scan"
         /\ Shown(s, es)
<1> DEFINE t == Threshold["low_and_slow_horizontal_scan"]
           D == {e \in es : e.src # NoAddr /\ e.dst # NoAddr /\ e.dport # NoPort}
           key(e) == <<e.src, e.dport, e.proto>>
           V == Windows(D, [e \in D |-> key(e)], t.window)
           meta(W) == Meta("low_and_slow_horizontal_scan", "low_and_slow_horizontal_scan",
                           "network_scanning", "medium", 650, 900)
           ok(W) == /\ AtMost(t.targets, Dsts(W)) /\ Span(W) >= t.span
                    /\ Blocked(W, t) /\ TcpSyns(W, t)
           f(w) == Signal(meta(w.events), Cardinality(w.events), t.events, w.events, w.last.src,
                          BoundedDsts(w.events), key(w.last), FirstOf(w.events, 3), w.at)
<1>1. LowAndSlowHorizontalScan(es) =
        {f(w) : w \in {v \in V : Cardinality(v.events) >= t.events /\ ok(v.events)}}
  BY DEF LowAndSlowHorizontalScan, Scan, Source
<1>2. D \in SUBSET es /\ t.window \in Nat /\ t.events \in Int
  BY SettledRules
<1>3. \A W : /\ meta(W).rule = "low_and_slow_horizontal_scan"
             /\ meta(W).type = "low_and_slow_horizontal_scan"
             /\ meta(W).lo \in Int /\ meta(W).hi \in Int
             /\ meta(W).family \notin CROSS_PRIMARY /\ meta(W).type \notin EXPOSURE_TYPES
  BY DEF Meta, CROSS_PRIMARY, EXPOSURE_TYPES
<1> HIDE DEF D, key, t, ok, meta
<1>4. \A w \in V : WindowOK(w, es) /\ \A v \in V : Compatible(w, v, "window")
  BY <1>2, WindowsShape
<1> HIDE DEF V
<1>5. ASSUME NEW w \in V
      PROVE  /\ Tells(f(w), w)
             /\ f(w).rule = "low_and_slow_horizontal_scan"
             /\ f(w).type = "low_and_slow_horizontal_scan"
             /\ f(w).family = meta(w.events).family
  <2> DEFINE m == meta(w.events)
             n == t.events
  <2>1. m.lo \in Int /\ m.hi \in Int /\ n \in Int /\ WindowOK(w, es)
    BY <1>2, <1>3, <1>4
  <2>2. f(w) = Signal(m, Cardinality(w.events), n, w.events,
                      w.last.src, BoundedDsts(w.events), key(w.last), FirstOf(w.events, 3), w.at)
    OBVIOUS
  <2> HIDE DEF m, n, f
  <2>3. Tells(f(w), w) /\ f(w).rule = m.rule /\ f(w).type = m.type /\ f(w).family = m.family
    BY <2>1, <2>2, SignalTells
  <2> QED
    BY <2>3, <1>3 DEF m
<1> HIDE DEF f
<1>9. \A w \in V : Shown(f(w), es)
  BY <1>3, <1>5, NotExposure
<1> QED
  BY <1>1, <1>4, <1>5, <1>9 DEF Twins

\* The signals of low_and_slow_vertical_scan.
LEMMA SlowVerticalTwins ==
  ASSUME NEW es, EventsOK(es), NEW s \in LowAndSlowVerticalScan(es),
         NEW r \in LowAndSlowVerticalScan(es)
  PROVE  /\ Twins(s, r, es, "window")
         /\ s.rule = "low_and_slow_vertical_scan"
         /\ s.type = "low_and_slow_vertical_scan"
         /\ Shown(s, es)
<1> DEFINE t == Threshold["low_and_slow_vertical_scan"]
           D == {e \in es : e.src # NoAddr /\ e.dst # NoAddr /\ e.dport # NoPort}
           key(e) == <<e.src, e.dst, e.proto>>
           V == Windows(D, [e \in D |-> key(e)], t.window)
           meta(W) == Meta("low_and_slow_vertical_scan", "low_and_slow_vertical_scan",
                           "network_scanning", "medium", 650, 900)
           ok(W) == /\ AtMost(t.ports, DPorts(W)) /\ Span(W) >= t.span
                    /\ Blocked(W, t) /\ TcpSyns(W, t)
           f(w) == Signal(meta(w.events), Cardinality(w.events), t.events, w.events, w.last.src,
                          Dsts(w.events), key(w.last), FirstOf(w.events, 3), w.at)
<1>1. LowAndSlowVerticalScan(es) =
        {f(w) : w \in {v \in V : Cardinality(v.events) >= t.events /\ ok(v.events)}}
  BY DEF LowAndSlowVerticalScan, Scan, Source
<1>2. D \in SUBSET es /\ t.window \in Nat /\ t.events \in Int
  BY SettledRules
<1>3. \A W : /\ meta(W).rule = "low_and_slow_vertical_scan"
             /\ meta(W).type = "low_and_slow_vertical_scan"
             /\ meta(W).lo \in Int /\ meta(W).hi \in Int
             /\ meta(W).family \notin CROSS_PRIMARY /\ meta(W).type \notin EXPOSURE_TYPES
  BY DEF Meta, CROSS_PRIMARY, EXPOSURE_TYPES
<1> HIDE DEF D, key, t, ok, meta
<1>4. \A w \in V : WindowOK(w, es) /\ \A v \in V : Compatible(w, v, "window")
  BY <1>2, WindowsShape
<1> HIDE DEF V
<1>5. ASSUME NEW w \in V
      PROVE  /\ Tells(f(w), w)
             /\ f(w).rule = "low_and_slow_vertical_scan"
             /\ f(w).type = "low_and_slow_vertical_scan"
             /\ f(w).family = meta(w.events).family
  <2> DEFINE m == meta(w.events)
             n == t.events
  <2>1. m.lo \in Int /\ m.hi \in Int /\ n \in Int /\ WindowOK(w, es)
    BY <1>2, <1>3, <1>4
  <2>2. f(w) = Signal(m, Cardinality(w.events), n, w.events,
                      w.last.src, Dsts(w.events), key(w.last), FirstOf(w.events, 3), w.at)
    OBVIOUS
  <2> HIDE DEF m, n, f
  <2>3. Tells(f(w), w) /\ f(w).rule = m.rule /\ f(w).type = m.type /\ f(w).family = m.family
    BY <2>1, <2>2, SignalTells
  <2> QED
    BY <2>3, <1>3 DEF m
<1> HIDE DEF f
<1>9. \A w \in V : Shown(f(w), es)
  BY <1>3, <1>5, NotExposure
<1> QED
  BY <1>1, <1>4, <1>5, <1>9 DEF Twins

\* The signals of network_flood_dos.
LEMMA FloodTwins ==
  ASSUME NEW es, EventsOK(es), NEW s \in NetworkFlood(es), NEW r \in NetworkFlood(es)
  PROVE  /\ Twins(s, r, es, "window")
         /\ s.rule = "network_flood_dos"
         /\ s.type = "network_flood"
         /\ Shown(s, es)
<1> DEFINE t == Threshold["network_flood_dos"]
           D == {e \in es : e.src # NoAddr /\ e.dst # NoAddr}
           key(e) == <<e.src, e.dst, IF e.dport = NoPort THEN 0 ELSE e.dport, e.proto>>
           V == Windows(D, [e \in D |-> key(e)], t.window)
           meta(W) == Meta("network_flood_dos", "network_flood", "network_dos", "high", 700, 900)
           ok(W) == AtLeast(W, t.block, IsNarrowBlocked)
           f(w) == Signal(meta(w.events), Cardinality(w.events), t.events, w.events, w.last.src,
                          Dsts(w.events), key(w.last), FirstOf(w.events, 3), w.at)
<1>1. NetworkFlood(es) =
        {f(w) : w \in {v \in V : Cardinality(v.events) >= t.events /\ ok(v.events)}}
  BY DEF NetworkFlood, Scan, Source
<1>2. D \in SUBSET es /\ t.window \in Nat /\ t.events \in Int
  BY SettledRules
<1>3. \A W : /\ meta(W).rule = "network_flood_dos"
             /\ meta(W).type = "network_flood"
             /\ meta(W).lo \in Int /\ meta(W).hi \in Int
             /\ meta(W).family \notin CROSS_PRIMARY /\ meta(W).type \notin EXPOSURE_TYPES
  BY DEF Meta, CROSS_PRIMARY, EXPOSURE_TYPES
<1> HIDE DEF D, key, t, ok, meta
<1>4. \A w \in V : WindowOK(w, es) /\ \A v \in V : Compatible(w, v, "window")
  BY <1>2, WindowsShape
<1> HIDE DEF V
<1>5. ASSUME NEW w \in V
      PROVE  /\ Tells(f(w), w)
             /\ f(w).rule = "network_flood_dos"
             /\ f(w).type = "network_flood"
             /\ f(w).family = meta(w.events).family
  <2> DEFINE m == meta(w.events)
             n == t.events
  <2>1. m.lo \in Int /\ m.hi \in Int /\ n \in Int /\ WindowOK(w, es)
    BY <1>2, <1>3, <1>4
  <2>2. f(w) = Signal(m, Cardinality(w.events), n, w.events,
                      w.last.src, Dsts(w.events), key(w.last), FirstOf(w.events, 3), w.at)
    OBVIOUS
  <2> HIDE DEF m, n, f
  <2>3. Tells(f(w), w) /\ f(w).rule = m.rule /\ f(w).type = m.type /\ f(w).family = m.family
    BY <2>1, <2>2, SignalTells
  <2> QED
    BY <2>3, <1>3 DEF m
<1> HIDE DEF f
<1>9. \A w \in V : Shown(f(w), es)
  BY <1>3, <1>5, NotExposure
<1> QED
  BY <1>1, <1>4, <1>5, <1>9 DEF Twins

\* The signals of a profiled probe.
LEMMA ProfiledTwins ==
  ASSUME NEW es, EventsOK(es), NEW p, p \notin EXPOSURE_TYPES, NEW s \in ProfiledProbes(es, {p}),
         NEW r \in ProfiledProbes(es, {p})
  PROVE  /\ Twins(s, r, es, "window")
         /\ s.rule = p
         /\ s.type = p
         /\ Shown(s, es)
<1> DEFINE web == p \in WEB_ADMIN
           t == Threshold[IF web THEN "web_admin_panel_probe" ELSE "extended_service_probe"]
           D == {e \in es : /\ e.src # NoAddr /\ e.dst # NoAddr
                            /\ e.proto = "TCP" /\ e.dport \in PROFILES[p]}
           key(e) == <<e.src>>
           V == Windows(D, [e \in D |-> key(e)], t.window)
           severity == IF p \in WEB_ADMIN \cup CLEARTEXT THEN "medium" ELSE "high"
           meta(W) == IF web THEN Meta(p, p, "service_probing", severity, 650, 900)
                      ELSE Meta(p, p, "service_probing", severity, 700, 950)
           ok(W) == AtMost(t.targets, Dsts(W)) /\ Blocked(W, t) /\ Syns(W, t)
           f(w) == Signal(meta(w.events), Cardinality(w.events), t.events, w.events, w.last.src,
                          BoundedDsts(w.events), key(w.last), FirstOf(w.events, 3), w.at)
<1>1. ProfiledProbes(es, {p}) =
        {f(w) : w \in {v \in V : Cardinality(v.events) >= t.events /\ ok(v.events)}}
  BY DEF ProfiledProbes, Scan, Source, BySource
<1>2. D \in SUBSET es /\ t.window \in Nat /\ t.events \in Int
  BY SettledRules
<1>3. \A W : /\ meta(W).rule = p
             /\ meta(W).type = p
             /\ meta(W).lo \in Int /\ meta(W).hi \in Int
             /\ meta(W).family \notin CROSS_PRIMARY /\ meta(W).type \notin EXPOSURE_TYPES
  BY DEF Meta, CROSS_PRIMARY
<1> HIDE DEF D, key, t, ok, meta
<1>4. \A w \in V : WindowOK(w, es) /\ \A v \in V : Compatible(w, v, "window")
  BY <1>2, WindowsShape
<1> HIDE DEF V
<1>5. ASSUME NEW w \in V
      PROVE  /\ Tells(f(w), w)
             /\ f(w).rule = p
             /\ f(w).type = p
             /\ f(w).family = meta(w.events).family
  <2> DEFINE m == meta(w.events)
             n == t.events
  <2>1. m.lo \in Int /\ m.hi \in Int /\ n \in Int /\ WindowOK(w, es)
    BY <1>2, <1>3, <1>4
  <2>2. f(w) = Signal(m, Cardinality(w.events), n, w.events,
                      w.last.src, BoundedDsts(w.events), key(w.last), FirstOf(w.events, 3), w.at)
    OBVIOUS
  <2> HIDE DEF m, n, f
  <2>3. Tells(f(w), w) /\ f(w).rule = m.rule /\ f(w).type = m.type /\ f(w).family = m.family
    BY <2>1, <2>2, SignalTells
  <2> QED
    BY <2>3, <1>3 DEF m
<1> HIDE DEF f
<1>9. \A w \in V : Shown(f(w), es)
  BY <1>3, <1>5, NotExposure
<1> QED
  BY <1>1, <1>4, <1>5, <1>9 DEF Twins

\* The signals of a suspicious combination of flags.
LEMMA FlagTwins ==
  ASSUME NEW es, EventsOK(es), NEW A \in SUBSET es, NEW rule, NEW family, NEW sev,
         NEW th, th.window \in Nat, th.events \in Int,
         family \notin CROSS_PRIMARY, rule \notin EXPOSURE_TYPES,
         NEW s \in FlagPattern(A, rule, family, sev, th),
         NEW r \in FlagPattern(A, rule, family, sev, th)
  PROVE  /\ Twins(s, r, es, "window")
         /\ s.rule = rule
         /\ s.type = rule
         /\ Shown(s, es)
<1> DEFINE t == th
           D == {e \in A : e.src # NoAddr /\ e.dst # NoAddr /\ e.proto = "TCP"}
           key(e) == <<e.src>>
           V == Windows(D, [e \in D |-> key(e)], t.window)
           meta(W) == IF sev = "high" THEN Meta(rule, rule, family, sev, 750, 950)
                      ELSE Meta(rule, rule, family, sev, 650, 900)
           ok(W) == /\ AtMost(t.targets, Dsts(W)) \/ AtMost(t.ports, DPorts(W))
                    /\ Blocked(W, t)
           f(w) == Signal(meta(w.events), Cardinality(w.events), t.events, w.events, w.last.src,
                          BoundedDsts(w.events), key(w.last), FirstOf(w.events, 3), w.at)
<1>1. FlagPattern(A, rule, family, sev, th) =
        {f(w) : w \in {v \in V : Cardinality(v.events) >= t.events /\ ok(v.events)}}
  BY DEF FlagPattern, Scan, Source, BySource
<1>2. D \in SUBSET es /\ t.window \in Nat /\ t.events \in Int
  BY SettledRules
<1>3. \A W : /\ meta(W).rule = rule
             /\ meta(W).type = rule
             /\ meta(W).lo \in Int /\ meta(W).hi \in Int
             /\ meta(W).family \notin CROSS_PRIMARY /\ meta(W).type \notin EXPOSURE_TYPES
  BY DEF Meta
<1> HIDE DEF D, key, t, ok, meta
<1>4. \A w \in V : WindowOK(w, es) /\ \A v \in V : Compatible(w, v, "window")
  BY <1>2, WindowsShape
<1> HIDE DEF V
<1>5. ASSUME NEW w \in V
      PROVE  /\ Tells(f(w), w)
             /\ f(w).rule = rule
             /\ f(w).type = rule
             /\ f(w).family = meta(w.events).family
  <2> DEFINE m == meta(w.events)
             n == t.events
  <2>1. m.lo \in Int /\ m.hi \in Int /\ n \in Int /\ WindowOK(w, es)
    BY <1>2, <1>3, <1>4
  <2>2. f(w) = Signal(m, Cardinality(w.events), n, w.events,
                      w.last.src, BoundedDsts(w.events), key(w.last), FirstOf(w.events, 3), w.at)
    OBVIOUS
  <2> HIDE DEF m, n, f
  <2>3. Tells(f(w), w) /\ f(w).rule = m.rule /\ f(w).type = m.type /\ f(w).family = m.family
    BY <2>1, <2>2, SignalTells
  <2> QED
    BY <2>3, <1>3 DEF m
<1> HIDE DEF f
<1>9. \A w \in V : Shown(f(w), es)
  BY <1>3, <1>5, NotExposure
<1> QED
  BY <1>1, <1>4, <1>5, <1>9 DEF Twins

\* The signals of spi_anomaly_burst.
LEMMA SpiTwins ==
  ASSUME NEW es, EventsOK(es), NEW s \in SpiAnomalyBurst(es),
         NEW r \in SpiAnomalyBurst(es)
  PROVE  /\ Twins(s, r, es, "window")
         /\ s.rule = "spi_anomaly_burst"
         /\ s.type = "spi_anomaly"
         /\ Shown(s, es)
<1> DEFINE t == Threshold["spi_anomaly_burst"]
           D == {e \in es : e.src # NoAddr /\ IsSpi(e, SpiFallback)}
           key(e) == <<e.src>>
           V == Windows(D, [e \in D |-> key(e)], t.window)
           meta(W) == Meta("spi_anomaly_burst", "spi_anomaly", "network_anomaly", "medium", 500, 850)
           ok(W) == AtMost(t.targets, Dsts(W))
           f(w) == Signal(meta(w.events), Cardinality(w.events), t.events, w.events, w.last.src,
                          Dsts(w.events), key(w.last), FirstOf(w.events, 3), w.at)
<1>1. SpiAnomalyBurst(es) =
        {f(w) : w \in {v \in V : Cardinality(v.events) >= t.events /\ ok(v.events)}}
  BY DEF SpiAnomalyBurst, Scan, Source, BySource
<1>2. D \in SUBSET es /\ t.window \in Nat /\ t.events \in Int
  BY SettledRules
<1>3. \A W : /\ meta(W).rule = "spi_anomaly_burst"
             /\ meta(W).type = "spi_anomaly"
             /\ meta(W).lo \in Int /\ meta(W).hi \in Int
             /\ meta(W).family \notin CROSS_PRIMARY /\ meta(W).type \notin EXPOSURE_TYPES
  BY DEF Meta, CROSS_PRIMARY, EXPOSURE_TYPES
<1> HIDE DEF D, key, t, ok, meta
<1>4. \A w \in V : WindowOK(w, es) /\ \A v \in V : Compatible(w, v, "window")
  BY <1>2, WindowsShape
<1> HIDE DEF V
<1>5. ASSUME NEW w \in V
      PROVE  /\ Tells(f(w), w)
             /\ f(w).rule = "spi_anomaly_burst"
             /\ f(w).type = "spi_anomaly"
             /\ f(w).family = meta(w.events).family
  <2> DEFINE m == meta(w.events)
             n == t.events
  <2>1. m.lo \in Int /\ m.hi \in Int /\ n \in Int /\ WindowOK(w, es)
    BY <1>2, <1>3, <1>4
  <2>2. f(w) = Signal(m, Cardinality(w.events), n, w.events,
                      w.last.src, Dsts(w.events), key(w.last), FirstOf(w.events, 3), w.at)
    OBVIOUS
  <2> HIDE DEF m, n, f
  <2>3. Tells(f(w), w) /\ f(w).rule = m.rule /\ f(w).type = m.type /\ f(w).family = m.family
    BY <2>1, <2>2, SignalTells
  <2> QED
    BY <2>3, <1>3 DEF m
<1> HIDE DEF f
<1>9. \A w \in V : Shown(f(w), es)
  BY <1>3, <1>5, NotExposure
<1> QED
  BY <1>1, <1>4, <1>5, <1>9 DEF Twins

\* The signals of inbound_sensitive_service_allowed.
LEMMA InboundTwins ==
  ASSUME NEW es, EventsOK(es), NEW s \in InboundSensitive(es),
         NEW r \in InboundSensitive(es)
  PROVE  /\ Twins(s, r, es, "window")
         /\ s.rule = "inbound_sensitive_service_allowed"
         /\ s.type = "inbound_sensitive_service_allowed"
         /\ Shown(s, es)
<1> DEFINE t == Threshold["inbound_sensitive_service_allowed"]
           D == {e \in Exposed(es) : ExternalInbound(e)}
           key(e) == <<e.src, EffectiveDst(e), EffectiveService(e)>>
           V == Windows(D, [e \in D |-> key(e)], t.window)
           meta(W) == ExposureMeta("inbound_sensitive_service_allowed", "firewall_exposure", "medium")
           ok(W) == AtMost(t.targets, EffectiveDsts(W))
           f(w) == Signal(meta(w.events), Cardinality(w.events), t.events, w.events, w.last.src,
                          EffectiveDsts(w.events), key(w.last), FirstOf(w.events, 3), w.at)
<1>1. InboundSensitive(es) =
        {f(w) : w \in {v \in V : Cardinality(v.events) >= t.events /\ ok(v.events)}}
  BY DEF InboundSensitive, Scan, Source, Exposed
<1>2. D \in SUBSET es /\ t.window \in Nat /\ t.events \in Int
  BY SettledRules DEF Exposed
<1>3. \A W : /\ meta(W).rule = "inbound_sensitive_service_allowed"
             /\ meta(W).type = "inbound_sensitive_service_allowed"
             /\ meta(W).lo \in Int /\ meta(W).hi \in Int
             /\ meta(W).family \in CROSS_PRIMARY /\ meta(W).type \in EXPOSURE_TYPES
  BY DEF ExposureMeta, Meta, CROSS_PRIMARY, EXPOSURE_TYPES
<1>7. \A e \in D : Reaches(e)
  BY AddressAssumption DEF Exposed, Exposure, EffectiveService, IsUsable, Reaches, ExternalInbound,
                           Internal, PrivatelyTranslated, EffectiveDst, NoAddr
<1> HIDE DEF D, key, t, ok, meta
<1>8. \A w \in V : w.events \in SUBSET D
  BY WindowEvents
<1>4. \A w \in V : WindowOK(w, es) /\ \A v \in V : Compatible(w, v, "window")
  BY <1>2, WindowsShape
<1> HIDE DEF V
<1>5. ASSUME NEW w \in V
      PROVE  /\ Tells(f(w), w)
             /\ f(w).rule = "inbound_sensitive_service_allowed"
             /\ f(w).type = "inbound_sensitive_service_allowed"
             /\ f(w).family = meta(w.events).family
  <2> DEFINE m == meta(w.events)
             n == t.events
  <2>1. m.lo \in Int /\ m.hi \in Int /\ n \in Int /\ WindowOK(w, es)
    BY <1>2, <1>3, <1>4
  <2>2. f(w) = Signal(m, Cardinality(w.events), n, w.events,
                      w.last.src, EffectiveDsts(w.events), key(w.last), FirstOf(w.events, 3), w.at)
    OBVIOUS
  <2> HIDE DEF m, n, f
  <2>3. Tells(f(w), w) /\ f(w).rule = m.rule /\ f(w).type = m.type /\ f(w).family = m.family
    BY <2>1, <2>2, SignalTells
  <2> QED
    BY <2>3, <1>3 DEF m
<1> HIDE DEF f
<1>9. \A w \in V : Shown(f(w), es)
  BY <1>3, <1>4, <1>5, <1>7, <1>8, ExposureShown
<1> QED
  BY <1>1, <1>4, <1>5, <1>9 DEF Twins

\* The signals of critical_management_service_exposed.
LEMMA CriticalTwins ==
  ASSUME NEW es, EventsOK(es), NEW s \in CriticalManagementExposed(es),
         NEW r \in CriticalManagementExposed(es)
  PROVE  /\ Twins(s, r, es, "window")
         /\ s.rule = "critical_management_service_exposed"
         /\ s.type = "critical_management_service_exposed"
         /\ Shown(s, es)
<1> DEFINE t == Threshold["critical_management_service_exposed"]
           D == {e \in Exposed(es) : /\ EffectivePort(e) \in CRITICAL_MANAGEMENT_PORTS
                                     /\ "wan" \in e.inz \/ PrivatelyTranslated(e)
                                     /\ ~Internal(e)}
           key(e) == <<e.src, EffectiveDst(e), EffectivePort(e)>>
           V == Windows(D, [e \in D |-> key(e)], t.window)
           meta(W) == ExposureMeta("critical_management_service_exposed", "firewall_exposure", "high")
           ok(W) == TRUE
           f(w) == Signal(meta(w.events), Cardinality(w.events), t.events, w.events, w.last.src,
                          EffectiveDsts(w.events), key(w.last), FirstOf(w.events, 3), w.at)
<1>1. CriticalManagementExposed(es) =
        {f(w) : w \in {v \in V : Cardinality(v.events) >= t.events /\ ok(v.events)}}
  BY DEF CriticalManagementExposed, Scan, Source, Exposed
<1>2. D \in SUBSET es /\ t.window \in Nat /\ t.events \in Int
  BY SettledRules DEF Exposed
<1>3. \A W : /\ meta(W).rule = "critical_management_service_exposed"
             /\ meta(W).type = "critical_management_service_exposed"
             /\ meta(W).lo \in Int /\ meta(W).hi \in Int
             /\ meta(W).family \in CROSS_PRIMARY /\ meta(W).type \in EXPOSURE_TYPES
  BY DEF ExposureMeta, Meta, CROSS_PRIMARY, EXPOSURE_TYPES
<1>7. \A e \in D : Reaches(e)
  BY AddressAssumption DEF Exposed, Exposure, EffectiveService, IsUsable, Reaches, ExternalInbound,
                           Internal, PrivatelyTranslated, EffectiveDst, NoAddr
<1> HIDE DEF D, key, t, ok, meta
<1>8. \A w \in V : w.events \in SUBSET D
  BY WindowEvents
<1>4. \A w \in V : WindowOK(w, es) /\ \A v \in V : Compatible(w, v, "window")
  BY <1>2, WindowsShape
<1> HIDE DEF V
<1>5. ASSUME NEW w \in V
      PROVE  /\ Tells(f(w), w)
             /\ f(w).rule = "critical_management_service_exposed"
             /\ f(w).type = "critical_management_service_exposed"
             /\ f(w).family = meta(w.events).family
  <2> DEFINE m == meta(w.events)
             n == t.events
  <2>1. m.lo \in Int /\ m.hi \in Int /\ n \in Int /\ WindowOK(w, es)
    BY <1>2, <1>3, <1>4
  <2>2. f(w) = Signal(m, Cardinality(w.events), n, w.events,
                      w.last.src, EffectiveDsts(w.events), key(w.last), FirstOf(w.events, 3), w.at)
    OBVIOUS
  <2> HIDE DEF m, n, f
  <2>3. Tells(f(w), w) /\ f(w).rule = m.rule /\ f(w).type = m.type /\ f(w).family = m.family
    BY <2>1, <2>2, SignalTells
  <2> QED
    BY <2>3, <1>3 DEF m
<1> HIDE DEF f
<1>9. \A w \in V : Shown(f(w), es)
  BY <1>3, <1>4, <1>5, <1>7, <1>8, ExposureShown
<1> QED
  BY <1>1, <1>4, <1>5, <1>9 DEF Twins

\* The signals of dnat_sensitive_service_exposure.
LEMMA DnatTwins ==
  ASSUME NEW es, EventsOK(es), NEW s \in DnatSensitiveExposure(es),
         NEW r \in DnatSensitiveExposure(es)
  PROVE  /\ Twins(s, r, es, "window")
         /\ s.rule = "dnat_sensitive_service_exposure"
         /\ s.type = "dnat_sensitive_service_exposure"
         /\ Shown(s, es)
<1> DEFINE t == Threshold["dnat_sensitive_service_exposure"]
           D == {e \in Exposed(es) : /\ PrivatelyTranslated(e) /\ ~Internal(e)
                                     /\ e.src \in Public \/ "wan" \in e.inz}
           key(e) == <<EffectiveDst(e), EffectivePort(e)>>
           V == Windows(D, [e \in D |-> key(e)], t.window)
           meta(W) == ExposureMeta("dnat_sensitive_service_exposure", "firewall_exposure", "high")
           ok(W) == TRUE
           f(w) == Signal(meta(w.events), Cardinality(w.events), t.events, w.events,
                          EffectiveDst(w.last),
                          SourcesOf(w.events), key(w.last), FirstOf(w.events, 3), w.at)
<1>1. DnatSensitiveExposure(es) =
        {f(w) : w \in {v \in V : Cardinality(v.events) >= t.events /\ ok(v.events)}}
  BY DEF DnatSensitiveExposure, Scan, Source, Exposed
<1>2. D \in SUBSET es /\ t.window \in Nat /\ t.events \in Int
  BY SettledRules DEF Exposed
<1>3. \A W : /\ meta(W).rule = "dnat_sensitive_service_exposure"
             /\ meta(W).type = "dnat_sensitive_service_exposure"
             /\ meta(W).lo \in Int /\ meta(W).hi \in Int
             /\ meta(W).family \in CROSS_PRIMARY /\ meta(W).type \in EXPOSURE_TYPES
  BY DEF ExposureMeta, Meta, CROSS_PRIMARY, EXPOSURE_TYPES
<1>7. \A e \in D : Reaches(e)
  BY AddressAssumption DEF Exposed, Exposure, EffectiveService, IsUsable, Reaches, ExternalInbound,
                           Internal, PrivatelyTranslated, EffectiveDst, NoAddr
<1> HIDE DEF D, key, t, ok, meta
<1>8. \A w \in V : w.events \in SUBSET D
  BY WindowEvents
<1>4. \A w \in V : WindowOK(w, es) /\ \A v \in V : Compatible(w, v, "window")
  BY <1>2, WindowsShape
<1> HIDE DEF V
<1>5. ASSUME NEW w \in V
      PROVE  /\ Tells(f(w), w)
             /\ f(w).rule = "dnat_sensitive_service_exposure"
             /\ f(w).type = "dnat_sensitive_service_exposure"
             /\ f(w).family = meta(w.events).family
  <2> DEFINE m == meta(w.events)
             n == t.events
  <2>1. m.lo \in Int /\ m.hi \in Int /\ n \in Int /\ WindowOK(w, es)
    BY <1>2, <1>3, <1>4
  <2>2. f(w) = Signal(m, Cardinality(w.events), n, w.events,
                      EffectiveDst(w.last), SourcesOf(w.events), key(w.last), FirstOf(w.events, 3), w.at)
    OBVIOUS
  <2> HIDE DEF m, n, f
  <2>3. Tells(f(w), w) /\ f(w).rule = m.rule /\ f(w).type = m.type /\ f(w).family = m.family
    BY <2>1, <2>2, SignalTells
  <2> QED
    BY <2>3, <1>3 DEF m
<1> HIDE DEF f
<1>9. \A w \in V : Shown(f(w), es)
  BY <1>3, <1>4, <1>5, <1>7, <1>8, ExposureShown
<1> QED
  BY <1>1, <1>4, <1>5, <1>9 DEF Twins

\* The signals of wan_to_lan_sensitive_service_allowed.
LEMMA LanTwins ==
  ASSUME NEW es, EventsOK(es), NEW s \in WanToLanAllowed(es),
         NEW r \in WanToLanAllowed(es)
  PROVE  /\ Twins(s, r, es, "window")
         /\ s.rule = "wan_to_lan_sensitive_service_allowed"
         /\ s.type = "wan_to_lan_sensitive_service_allowed"
         /\ Shown(s, es)
<1> DEFINE t == Threshold["wan_to_lan_sensitive_service_allowed"]
           D == {e \in Exposed(es) : /\ "wan" \in e.inz /\ ~Internal(e)
                                     /\ \/ "lan" \in e.outz
                                        \/ e.outz = {} /\ FlowsInbound(e)}
           key(e) == <<EffectiveDst(e), EffectiveService(e)>>
           V == Windows(D, [e \in D |-> key(e)], t.window)
           meta(W) == ExposureMeta("wan_to_lan_sensitive_service_allowed", "firewall_policy", "high")
           ok(W) == TRUE
           f(w) == Signal(meta(w.events), Cardinality(w.events), t.events, w.events,
                          EffectiveDst(w.last),
                          SourcesOf(w.events), key(w.last), FirstOf(w.events, 3), w.at)
<1>1. WanToLanAllowed(es) =
        {f(w) : w \in {v \in V : Cardinality(v.events) >= t.events /\ ok(v.events)}}
  BY DEF WanToLanAllowed, Scan, Source, Exposed
<1>2. D \in SUBSET es /\ t.window \in Nat /\ t.events \in Int
  BY SettledRules DEF Exposed
<1>3. \A W : /\ meta(W).rule = "wan_to_lan_sensitive_service_allowed"
             /\ meta(W).type = "wan_to_lan_sensitive_service_allowed"
             /\ meta(W).lo \in Int /\ meta(W).hi \in Int
             /\ meta(W).family \in CROSS_PRIMARY /\ meta(W).type \in EXPOSURE_TYPES
  BY DEF ExposureMeta, Meta, CROSS_PRIMARY, EXPOSURE_TYPES
<1>7. \A e \in D : Reaches(e)
  BY AddressAssumption DEF Exposed, Exposure, EffectiveService, IsUsable, Reaches, ExternalInbound,
                           Internal, PrivatelyTranslated, EffectiveDst, NoAddr
<1> HIDE DEF D, key, t, ok, meta
<1>8. \A w \in V : w.events \in SUBSET D
  BY WindowEvents
<1>4. \A w \in V : WindowOK(w, es) /\ \A v \in V : Compatible(w, v, "window")
  BY <1>2, WindowsShape
<1> HIDE DEF V
<1>5. ASSUME NEW w \in V
      PROVE  /\ Tells(f(w), w)
             /\ f(w).rule = "wan_to_lan_sensitive_service_allowed"
             /\ f(w).type = "wan_to_lan_sensitive_service_allowed"
             /\ f(w).family = meta(w.events).family
  <2> DEFINE m == meta(w.events)
             n == t.events
  <2>1. m.lo \in Int /\ m.hi \in Int /\ n \in Int /\ WindowOK(w, es)
    BY <1>2, <1>3, <1>4
  <2>2. f(w) = Signal(m, Cardinality(w.events), n, w.events,
                      EffectiveDst(w.last), SourcesOf(w.events), key(w.last), FirstOf(w.events, 3), w.at)
    OBVIOUS
  <2> HIDE DEF m, n, f
  <2>3. Tells(f(w), w) /\ f(w).rule = m.rule /\ f(w).type = m.type /\ f(w).family = m.family
    BY <2>1, <2>2, SignalTells
  <2> QED
    BY <2>3, <1>3 DEF m
<1> HIDE DEF f
<1>9. \A w \in V : Shown(f(w), es)
  BY <1>3, <1>4, <1>5, <1>7, <1>8, ExposureShown
<1> QED
  BY <1>1, <1>4, <1>5, <1>9 DEF Twins

\* The signals of wan_to_dmz_administrative_service_allowed.
LEMMA DmzTwins ==
  ASSUME NEW es, EventsOK(es), NEW s \in WanToDmzAllowed(es),
         NEW r \in WanToDmzAllowed(es)
  PROVE  /\ Twins(s, r, es, "window")
         /\ s.rule = "wan_to_dmz_administrative_service_allowed"
         /\ s.type = "wan_to_dmz_administrative_service_allowed"
         /\ Shown(s, es)
<1> DEFINE t == Threshold["wan_to_dmz_administrative_service_allowed"]
           D == {e \in es : /\ Exposure(e) /\ Administered(e) # "none"
                            /\ IsAllowed(e) /\ ~Internal(e)
                            /\ "wan" \in e.inz /\ "dmz" \in e.outz}
           key(e) == <<EffectiveDst(e), Administered(e)>>
           V == Windows(D, [e \in D |-> key(e)], t.window)
           meta(W) == ExposureMeta("wan_to_dmz_administrative_service_allowed", "firewall_policy", "medium")
           ok(W) == TRUE
           f(w) == Signal(meta(w.events), Cardinality(w.events), t.events, w.events,
                          EffectiveDst(w.last),
                          SourcesOf(w.events), key(w.last), FirstOf(w.events, 3), w.at)
<1>1. WanToDmzAllowed(es) =
        {f(w) : w \in {v \in V : Cardinality(v.events) >= t.events /\ ok(v.events)}}
  BY DEF WanToDmzAllowed, Scan, Source
<1>2. D \in SUBSET es /\ t.window \in Nat /\ t.events \in Int
  BY SettledRules
<1>3. \A W : /\ meta(W).rule = "wan_to_dmz_administrative_service_allowed"
             /\ meta(W).type = "wan_to_dmz_administrative_service_allowed"
             /\ meta(W).lo \in Int /\ meta(W).hi \in Int
             /\ meta(W).family \in CROSS_PRIMARY
  BY DEF ExposureMeta, Meta, CROSS_PRIMARY
<1> HIDE DEF D, key, t, ok, meta
<1>4. \A w \in V : WindowOK(w, es) /\ \A v \in V : Compatible(w, v, "window")
  BY <1>2, WindowsShape
<1> HIDE DEF V
<1>5. ASSUME NEW w \in V
      PROVE  /\ Tells(f(w), w)
             /\ f(w).rule = "wan_to_dmz_administrative_service_allowed"
             /\ f(w).type = "wan_to_dmz_administrative_service_allowed"
             /\ f(w).family = meta(w.events).family
  <2> DEFINE m == meta(w.events)
             n == t.events
  <2>1. m.lo \in Int /\ m.hi \in Int /\ n \in Int /\ WindowOK(w, es)
    BY <1>2, <1>3, <1>4
  <2>2. f(w) = Signal(m, Cardinality(w.events), n, w.events,
                      EffectiveDst(w.last), SourcesOf(w.events), key(w.last), FirstOf(w.events, 3), w.at)
    OBVIOUS
  <2> HIDE DEF m, n, f
  <2>3. Tells(f(w), w) /\ f(w).rule = m.rule /\ f(w).type = m.type /\ f(w).family = m.family
    BY <2>1, <2>2, SignalTells
  <2> QED
    BY <2>3, <1>3 DEF m
<1> HIDE DEF f
<1>9. \A w \in V : Shown(f(w), es)
  BY <1>3, <1>5 DEF Shown, EXPOSURE_TYPES, SENSITIVE_TYPES
<1> QED
  BY <1>1, <1>4, <1>5, <1>9 DEF Twins

\* The signals of multi_source_allowed_sensitive_service.
LEMMA SourcesTwins ==
  ASSUME NEW es, EventsOK(es), NEW s \in MultiSourceAllowed(es),
         NEW r \in MultiSourceAllowed(es)
  PROVE  /\ Twins(s, r, es, "window")
         /\ s.rule = "multi_source_allowed_sensitive_service"
         /\ s.type = "multi_source_allowed_sensitive_service"
         /\ Shown(s, es)
<1> DEFINE t == Threshold["multi_source_allowed_sensitive_service"]
           D == {e \in Exposed(es) : e.src \in Public /\ EffectiveDst(e) \in Private}
           key(e) == <<EffectiveDst(e), EffectiveService(e)>>
           V == Windows(D, [e \in D |-> key(e)], t.window)
           meta(W) == ExposureMeta("multi_source_allowed_sensitive_service", "firewall_exposure", "high")
           ok(W) == AtMost(t.targets, Srcs(W))
           f(w) == Signal(meta(w.events), Cardinality(w.events), t.events, w.events,
                          EffectiveDst(w.last),
                          SourcesOf(w.events), key(w.last), FirstOf(w.events, 3), w.at)
<1>1. MultiSourceAllowed(es) =
        {f(w) : w \in {v \in V : Cardinality(v.events) >= t.events /\ ok(v.events)}}
  BY DEF MultiSourceAllowed, Scan, Source, Exposed
<1>2. D \in SUBSET es /\ t.window \in Nat /\ t.events \in Int
  BY SettledRules DEF Exposed
<1>3. \A W : /\ meta(W).rule = "multi_source_allowed_sensitive_service"
             /\ meta(W).type = "multi_source_allowed_sensitive_service"
             /\ meta(W).lo \in Int /\ meta(W).hi \in Int
             /\ meta(W).family \in CROSS_PRIMARY /\ meta(W).type \in EXPOSURE_TYPES
  BY DEF ExposureMeta, Meta, CROSS_PRIMARY, EXPOSURE_TYPES
<1>7. \A e \in D : Reaches(e)
  BY AddressAssumption DEF Exposed, Exposure, EffectiveService, IsUsable, Reaches, ExternalInbound,
                           Internal, PrivatelyTranslated, EffectiveDst, NoAddr
<1> HIDE DEF D, key, t, ok, meta
<1>8. \A w \in V : w.events \in SUBSET D
  BY WindowEvents
<1>4. \A w \in V : WindowOK(w, es) /\ \A v \in V : Compatible(w, v, "window")
  BY <1>2, WindowsShape
<1> HIDE DEF V
<1>5. ASSUME NEW w \in V
      PROVE  /\ Tells(f(w), w)
             /\ f(w).rule = "multi_source_allowed_sensitive_service"
             /\ f(w).type = "multi_source_allowed_sensitive_service"
             /\ f(w).family = meta(w.events).family
  <2> DEFINE m == meta(w.events)
             n == t.events
  <2>1. m.lo \in Int /\ m.hi \in Int /\ n \in Int /\ WindowOK(w, es)
    BY <1>2, <1>3, <1>4
  <2>2. f(w) = Signal(m, Cardinality(w.events), n, w.events, EffectiveDst(w.last),
                      SourcesOf(w.events), key(w.last), FirstOf(w.events, 3), w.at)
    OBVIOUS
  <2> HIDE DEF m, n, f
  <2>3. Tells(f(w), w) /\ f(w).rule = m.rule /\ f(w).type = m.type /\ f(w).family = m.family
    BY <2>1, <2>2, SignalTells
  <2> QED
    BY <2>3, <1>3 DEF m
<1> HIDE DEF f
<1>9. \A w \in V : Shown(f(w), es)
  BY <1>3, <1>4, <1>5, <1>7, <1>8, ExposureShown
<1> QED
  BY <1>1, <1>4, <1>5, <1>9 DEF Twins

-----------------------------------------------------------------------------
(***************************************************************************)
(* Clusters.                                                               *)
(***************************************************************************)

\* The ids of some events.
Ids(es) == {e.id : e \in es}

\* What correlation is given: finitely many signals about events of es, told
\* apart by the key that orders them and by their ids.
Active(S, es) ==
    /\ IsFiniteSet(S)
    /\ \A s \in S : /\ s.first \in Int /\ s.last \in Int /\ s.conf \in Int
                    /\ Shown(s, es)
                    /\ s.ids \in SUBSET Ids(es) /\ s.ids # {}
                    /\ PrecedenceKey(s) \in [1 .. 7 -> Int]
    /\ \A s, r \in S : PrecedenceKey(s) = PrecedenceKey(r) => s = r
    /\ \A s, r \in S : SigId(s) = SigId(r) => s = r

\* Clusters hold the signals of Q, each in one cluster.
Clustered(c, Q) ==
    /\ c \in Seq(Seq(Q))
    /\ \A i \in DOMAIN c : c[i] # <<>>
    /\ \A s \in Q : \E i \in DOMAIN c : s \in Range(c[i])
    /\ \A i, j \in DOMAIN c : i # j => Range(c[i]) \cap Range(c[j]) = {}

\* Events have finitely many ids.
LEMMA IdsFinite ==
  ASSUME NEW es, EventsOK(es), NEW A \in SUBSET Ids(es)
  PROVE  IsFiniteSet(A) /\ Cardinality(A) \in Nat
<1> DEFINE id == [e \in es |-> e.id]
<1>1. IsFiniteSet(es)
  BY DEF EventsOK
<1>3. IsFiniteSet({id[e] : e \in es})
  BY <1>1, FiniteImage
<1>2. {id[e] : e \in es} = Ids(es)
  BY DEF Ids
<1> QED
  BY <1>2, <1>3, FS_Subset, FS_CardinalityType

\* A sequence with one more element, and one with an element replaced.
LEMMA Appended ==
  ASSUME NEW T, NEW q \in Seq(T), NEW x \in T
  PROVE  /\ Append(q, x) \in Seq(T) /\ Append(q, x) # <<>>
         /\ Len(q) \in Nat /\ DOMAIN q = 1 .. Len(q)
         /\ Len(Append(q, x)) = Len(q) + 1 /\ DOMAIN Append(q, x) = 1 .. Len(q) + 1
         /\ \A i \in DOMAIN q : Append(q, x)[i] = q[i]
         /\ Append(q, x)[Len(q) + 1] = x
         /\ Range(Append(q, x)) = Range(q) \cup {x}
<1> DEFINE a == Append(q, x)
<1>1. /\ a \in Seq(T) /\ Len(a) = Len(q) + 1
      /\ Len(q) \in Nat /\ DOMAIN q = 1 .. Len(q) /\ DOMAIN a = 1 .. Len(q) + 1
      /\ \A i \in DOMAIN q : a[i] = q[i]
      /\ a[Len(q) + 1] = x
  OBVIOUS
<1> HIDE DEF a
<1>2. \A y : y \in Range(a) <=> y \in Range(q) \/ y = x
  BY <1>1 DEF Range
<1>3. a # <<>>
  <2>1. Len(a) # 0
    BY <1>1
  <2> QED
    BY <2>1
<1>4. Range(a) = Range(q) \cup {x}
  BY <1>2
<1> QED
  BY <1>1, <1>3, <1>4 DEF a

\* A sequence with one member replaced.
LEMMA Replaced ==
  ASSUME NEW T, NEW q \in Seq(T), NEW k \in DOMAIN q, NEW x \in T,
         NEW a, a = [q EXCEPT ![k] = x]
  PROVE  /\ a \in Seq(T) /\ DOMAIN a = DOMAIN q /\ Len(a) = Len(q)
         /\ \A i \in DOMAIN q : i # k => a[i] = q[i]
         /\ a[k] = x
<1>1. Len(q) \in Nat /\ DOMAIN q = 1 .. Len(q) /\ \A i \in DOMAIN q : q[i] \in T
  OBVIOUS
<1>2. a \in [1 .. Len(q) -> T]
  BY <1>1
<1>3. a \in Seq(T) /\ DOMAIN a = DOMAIN q /\ Len(a) = Len(q)
  BY <1>1, <1>2
<1> QED
  BY <1>3

\* Two sequences of integers, one after the other.
LEMMA Joined ==
  ASSUME NEW a \in Int, NEW n \in Nat, NEW b \in [1 .. n -> Int], NEW q, q = <<a>> \o b
  PROVE  q \in [1 .. n + 1 -> Int] /\ \A i \in 1 .. n : q[i + 1] = b[i]
<1> DEFINE p == <<a>>
<1>1. b \in Seq(Int) /\ Len(b) = n /\ p \in Seq(Int) /\ Len(p) = 1
  OBVIOUS
<1> HIDE DEF p
<1>2. q = p \o b
  BY DEF p
<1>3. q \in Seq(Int) /\ Len(q) = n + 1
  BY <1>1, <1>2
<1>4. \A i \in 1 .. n : q[i + 1] = b[i]
  BY <1>1, <1>2
<1>5. DOMAIN q = 1 .. n + 1 /\ q = [i \in 1 .. n + 1 |-> q[i]] /\ \A i \in 1 .. n + 1 : q[i] \in Int
  BY <1>3
<1> QED
  BY <1>4, <1>5

\* The overlap of two candidates is a number.
LEMMA OverlapInt ==
  ASSUME NEW es, EventsOK(es), NEW a, NEW b, a.ids \in SUBSET Ids(es), a.ids # {},
         b.ids \in SUBSET Ids(es), b.ids # {}
  PROVE  -OverlapOf(a, b) \in Int
<1> DEFINE A == a.ids
           B == b.ids
<1>1. IsFiniteSet(A) /\ IsFiniteSet(B) /\ IsFiniteSet(A \cap B)
  <2>1. IsFiniteSet(A) /\ IsFiniteSet(B)
    BY IdsFinite
  <2>2. A \cap B \in SUBSET A
    OBVIOUS
  <2> QED
    BY <2>1, <2>2, FS_Subset
<1>2. Cardinality(A) \in Nat \ {0} /\ Cardinality(B) \in Nat \ {0}
      /\ Cardinality(A \cap B) \in Nat
  BY <1>1, FS_CardinalityType, FS_EmptySet
<1>3. Smaller(A, B) \in Nat \ {0}
  BY <1>2 DEF Smaller
<1>4. OverlapOf(a, b) = (Cardinality(A \cap B) * 1000) \div Smaller(A, B)
  BY DEF OverlapOf
<1> HIDE DEF A, B
<1>5. (Cardinality(A \cap B) * 1000) \in Int
  BY <1>2
<1>6. \A x \in Int, y \in Nat \ {0} : x \div y \in Int
  OBVIOUS
<1>7. OverlapOf(a, b) \in Int
  BY <1>3, <1>4, <1>5, <1>6
<1> QED
  BY <1>7

\* A signal that joins clusters.
LEMMA PlaceStep ==
  ASSUME NEW es, EventsOK(es), NEW S, Active(S, es), NEW Q \in SUBSET S,
         NEW c, Clustered(c, Q), NEW s \in S, s \notin Q
  PROVE  Clustered(Place(c, s), Q \cup {s})
<1> DEFINE takers == {i \in DOMAIN c : MayCorrelate(c[i][1], s)}
           key(i) == <<-OverlapOf(c[i][1], s)>> \o PrecedenceKey(c[i][1])
           keys == [i \in takers |-> key(i)]
           best == InOrder(takers, keys)[1]
<1>1. /\ c \in Seq(Seq(Q)) /\ DOMAIN c = 1 .. Len(c) /\ Len(c) \in Nat
      /\ \A i \in DOMAIN c : /\ c[i] \in Seq(Q) /\ c[i] # <<>> /\ 1 \in DOMAIN c[i]
                             /\ c[i][1] \in Q
  BY DEF Clustered
<1>2. Place(c, s) = IF takers = {} THEN Append(c, <<s>>)
                    ELSE [c EXCEPT ![best] = Append(c[best], s)]
  BY DEF Place, Sorted
<1>3. ASSUME takers # {} PROVE best \in DOMAIN c
  <2>1. IsFiniteSet(takers)
    <3>1. takers \in SUBSET (1 .. Len(c)) /\ IsFiniteSet(1 .. Len(c))
      BY <1>1, FS_Interval
    <3> QED
      BY <3>1, FS_Subset
  <2>2. ASSUME NEW i \in takers PROVE key(i) \in [1 .. 8 -> Int]
    <3>1. c[i][1] \in S
      BY <1>1
    <3>2. PrecedenceKey(c[i][1]) \in [1 .. 7 -> Int] /\ -OverlapOf(c[i][1], s) \in Int
      BY <3>1, OverlapInt DEF Active
    <3> DEFINE o == -OverlapOf(c[i][1], s)
               k == PrecedenceKey(c[i][1])
               n == 7
               q == key(i)
    <3>3. o \in Int /\ n \in Nat /\ k \in [1 .. n -> Int] /\ q = <<o>> \o k
      BY <3>2
    <3> HIDE DEF o, k, key, n, q
    <3>4. q \in [1 .. n + 1 -> Int]
      BY <3>3, Joined
    <3>5. key(i) \in [1 .. 7 + 1 -> Int]
      BY <3>4 DEF q, n
    <3> QED
      BY <3>5
  <2> HIDE DEF key
  <2>3. keys \in [takers -> [1 .. 8 -> Int]]
    BY <2>2
  <2> HIDE DEF keys, takers
  <2>4. best \in takers
    BY <1>3, <2>1, <2>3, InOrderFirst
  <2> QED
    BY <2>4 DEF takers
<1> HIDE DEF best, takers
<1> DEFINE d == Place(c, s)
<1>4. CASE takers = {}
  <2>1. d = Append(c, <<s>>)
    BY <1>2, <1>4
  <2>2. c \in Seq(Seq(Q \cup {s})) /\ <<s>> \in Seq(Q \cup {s}) /\ <<s>> # <<>>
    <3>1. Seq(Q) \subseteq Seq(Q \cup {s})
      OBVIOUS
    <3> QED
      BY <3>1, <1>1
  <2> HIDE DEF d
  <2>3. /\ d \in Seq(Seq(Q \cup {s}))
        /\ DOMAIN d = 1 .. Len(c) + 1
        /\ \A i \in DOMAIN c : d[i] = c[i]
        /\ d[Len(c) + 1] = <<s>>
    BY <2>1, <2>2, Appended
  <2>5. Range(d[Len(c) + 1]) = {s}
    BY <2>3 DEF Range
  <2>6. \A i \in DOMAIN c : Range(c[i]) \in SUBSET Q
    BY <1>1 DEF Range
  <2>7. ASSUME NEW i \in DOMAIN d, NEW j \in DOMAIN d, i # j
        PROVE  Range(d[i]) \cap Range(d[j]) = {}
    <3>1. \A k \in DOMAIN d : k \in DOMAIN c \/ k = Len(c) + 1
      BY <2>3, <1>1
    <3>2. CASE i \in DOMAIN c /\ j \in DOMAIN c
      BY <3>2, <2>3, <2>7 DEF Clustered
    <3>3. CASE i = Len(c) + 1 /\ j \in DOMAIN c
      BY <3>3, <2>3, <2>5, <2>6
    <3>4. CASE j = Len(c) + 1 /\ i \in DOMAIN c
      BY <3>4, <2>3, <2>5, <2>6
    <3> QED
      BY <3>1, <3>2, <3>3, <3>4, <2>7
  <2>8. ASSUME NEW r \in Q \cup {s} PROVE \E i \in DOMAIN d : r \in Range(d[i])
    <3>1. CASE r = s
      <4>1. Len(c) + 1 \in DOMAIN d
        BY <2>3, <1>1
      <4> QED
        BY <4>1, <3>1, <2>3, <2>5
    <3>2. CASE r \in Q
      <4>1. PICK i \in DOMAIN c : r \in Range(c[i])
        BY <3>2 DEF Clustered
      <4>2. i \in DOMAIN d /\ d[i] = c[i]
        BY <2>3, <1>1
      <4> QED
        BY <4>1, <4>2
    <3> QED
      BY <3>1, <3>2
  <2>9. ASSUME NEW i \in DOMAIN d PROVE d[i] # <<>>
    <3>1. i \in DOMAIN c \/ i = Len(c) + 1
      BY <2>3, <1>1
    <3> QED
      BY <3>1, <2>2, <2>3, <1>1
  <2> QED
    BY <2>3, <2>7, <2>8, <2>9 DEF Clustered, d
<1>5. CASE takers # {}
  <2>1. best \in DOMAIN c
    BY <1>3, <1>5
  <2>2. d = [c EXCEPT ![best] = Append(c[best], s)]
    BY <1>2, <1>5
  <2> DEFINE b == c[best]
  <2>3. b \in Seq(Q) /\ Seq(Q) \subseteq Seq(Q \cup {s})
    BY <1>1, <2>1
  <2> HIDE DEF d, b
  <2>4. Append(b, s) \in Seq(Q \cup {s}) /\ Append(b, s) # <<>>
        /\ Range(Append(b, s)) = Range(b) \cup {s}
    <3> DEFINE T == Q \cup {s}
    <3>1. b \in Seq(T) /\ s \in T
      BY <2>3
    <3> HIDE DEF T
    <3>2. Append(b, s) \in Seq(T) /\ Append(b, s) # <<>> /\ Range(Append(b, s)) = Range(b) \cup {s}
      BY <3>1, Appended
    <3> QED
      BY <3>2 DEF T
  <2>5. /\ d \in Seq(Seq(Q \cup {s})) /\ DOMAIN d = DOMAIN c
        /\ \A i \in DOMAIN c : i # best => d[i] = c[i]
        /\ d[best] = Append(b, s)
    <3>1. c \in Seq(Seq(Q \cup {s})) /\ d = [c EXCEPT ![best] = Append(b, s)]
      BY <1>1, <2>2, <2>3 DEF b
    <3> QED
      BY <3>1, <2>1, <2>4, Replaced
  <2>6. Range(d[best]) = Range(c[best]) \cup {s}
    BY <2>4, <2>5 DEF b
  <2>7. \A i \in DOMAIN c : Range(c[i]) \in SUBSET Q
    BY <1>1 DEF Range
  <2>8. ASSUME NEW i \in DOMAIN d, NEW j \in DOMAIN d, i # j
        PROVE  Range(d[i]) \cap Range(d[j]) = {}
    <3>1. Range(c[i]) \cap Range(c[j]) = {}
      BY <2>5, <2>8 DEF Clustered
    <3>2. \A k \in DOMAIN c : Range(d[k]) = IF k = best THEN Range(c[k]) \cup {s} ELSE Range(c[k])
      BY <2>5, <2>6
    <3>3. s \notin Range(c[i]) /\ s \notin Range(c[j])
      BY <2>5, <2>7
    <3> QED
      BY <3>1, <3>2, <3>3, <2>5, <2>8
  <2>9. ASSUME NEW r \in Q \cup {s} PROVE \E i \in DOMAIN d : r \in Range(d[i])
    <3>1. CASE r = s
      BY <3>1, <2>1, <2>5, <2>6
    <3>2. CASE r \in Q
      <4>1. PICK i \in DOMAIN c : r \in Range(c[i])
        BY <3>2 DEF Clustered
      <4>2. i \in DOMAIN d /\ r \in Range(d[i])
        BY <4>1, <2>5, <2>6
      <4> QED
        BY <4>2
    <3> QED
      BY <3>1, <3>2
  <2>10. \A i \in DOMAIN d : d[i] # <<>>
    BY <1>1, <2>4, <2>5
  <2> QED
    BY <2>5, <2>8, <2>9, <2>10 DEF Clustered, d
<1> QED
  BY <1>4, <1>5

\* Every signal is in one cluster.
LEMMA ClustersCover ==
  ASSUME NEW es, EventsOK(es), NEW S, Active(S, es)
  PROVE  Clustered(Clusters(S), S)
<1> DEFINE key == [s \in S |-> PrecedenceKey(s)]
           q == InOrder(S, key)
           N == 7
<1>1. ByPrecedence(S) = q
  BY DEF ByPrecedence, Sorted
<1>2. IsFiniteSet(S) /\ N \in Nat /\ key \in [S -> [1 .. N -> Int]]
      /\ \A x, y \in S : key[x] = key[y] => x = y
  BY DEF Active
<1> HIDE DEF key, q, N
<1>3. /\ q \in Seq(S)
      /\ \A x \in S : \E i \in DOMAIN q : q[i] = x
      /\ \A i, j \in DOMAIN q : i < j => Precedes(key[q[i]], key[q[j]])
  BY <1>2, InOrderLists DEF q
<1> DEFINE n == Len(q)
           P(k) == {q[i] : i \in 1 .. k}
<1>4. n \in Nat /\ DOMAIN q = 1 .. n /\ \A i \in 1 .. n : q[i] \in S
  BY <1>3
<1>5. \A i, j \in 1 .. n : i < j => q[i] # q[j]
  <2> SUFFICES ASSUME NEW i \in 1 .. n, NEW j \in 1 .. n, i < j, q[i] = q[j] PROVE FALSE
    OBVIOUS
  <2>1. Precedes(key[q[i]], key[q[i]]) /\ key[q[i]] \in [1 .. N -> Int]
    BY <1>2, <1>3, <1>4
  <2> QED
    BY <2>1, <1>2, PrecedesOrders
<1> HIDE DEF n
<1>6. PICK f : /\ f[0] = <<>> /\ f[n] = Placed(q)
               /\ \A k \in 1 .. n : f[k] = Place(f[k - 1], q[k])
  BY <1>4, PlaceFold
<1> DEFINE T == {k \in Nat : k <= n => Clustered(f[k], P(k))}
<1>7. 0 \in T
  <2>1. P(0) = {}
    OBVIOUS
  <2>2. <<>> \in Seq(Seq(P(0))) /\ DOMAIN <<>> = {}
    OBVIOUS
  <2>3. Clustered(<<>>, P(0))
    BY <2>1, <2>2 DEF Clustered
  <2> HIDE DEF P
  <2> QED
    BY <2>3, <1>6
<1>8. ASSUME NEW k \in Nat, k \in T PROVE k + 1 \in T
  <2> SUFFICES ASSUME k + 1 <= n PROVE Clustered(f[k + 1], P(k + 1))
    OBVIOUS
  <2>1. Clustered(f[k], P(k)) /\ k + 1 \in 1 .. n /\ (k + 1) - 1 = k
    BY <1>8, <1>4
  <2>2. f[k + 1] = Place(f[k], q[k + 1])
    BY <2>1, <1>6
  <2>3. P(k) \in SUBSET S /\ q[k + 1] \in S /\ q[k + 1] \notin P(k)
    <3>1. \A i \in 1 .. k : i \in 1 .. n /\ i < k + 1
      BY <2>1, <1>4
    <3> QED
      BY <3>1, <2>1, <1>4, <1>5
  <2>4. P(k + 1) = P(k) \cup {q[k + 1]}
    OBVIOUS
  <2> HIDE DEF P
  <2>5. Clustered(Place(f[k], q[k + 1]), P(k) \cup {q[k + 1]})
    BY <2>1, <2>3, PlaceStep
  <2> QED
    BY <2>2, <2>4, <2>5
<1>9. n \in T
  <2> HIDE DEF T
  <2> QED
    BY <1>4, <1>7, <1>8, Inductive
<1>10. Clustered(f[n], P(n))
  BY <1>9, <1>4
<1>11. P(n) = S
  BY <1>3, <1>4
<1> HIDE DEF P
<1> QED
  BY <1>1, <1>6, <1>10, <1>11 DEF Clusters

-----------------------------------------------------------------------------
(***************************************************************************)
(* Incidents.                                                              *)
(***************************************************************************)

SignalsOf(S, A) == {s \in S : SigId(s) \in A}

\* What an incident takes from its signals.
Firsts(S) == {s.first : s \in S}
Lasts(S) == {s.last : s \in S}
SigIds(S) == {SigId(s) : s \in S}

\* An incident that tells of its own signals among S.
IncidentFields ==
    {"anchor", "type", "family", "sev", "conf", "first", "last", "entity", "targets",
     "signals", "absorbed", "ids", "context", "evidence", "order"}

\* i tells the signals R: their ids, events, interval and severity, and one of
\* them is its anchor.
TellsOf(i, R, es) ==
    /\ DOMAIN i = IncidentFields
    /\ R # {} /\ i.signals = SigIds(R) /\ i.ids = Union(R)
    /\ i.first = Min(Firsts(R)) /\ i.last = Max(Lasts(R))
    /\ i.sev = IncidentSeverity(i.family, R, EventsOf(es, i.ids))
    /\ i.absorbed = i.signals \ {i.anchor}
    /\ i.conf \in Int
    /\ \E s \in R : /\ i.anchor = SigId(s) /\ i.order = PrecedenceKey(s)
                   /\ i.type = s.type /\ i.family = s.family
                   /\ i.entity = PrimaryEntity(s, es)

Told(i, S, es) == TellsOf(i, SignalsOf(S, i.signals), es)

\* Signals are found again by their names.
LEMMA OwnSignals ==
  ASSUME NEW es, NEW S, Active(S, es), NEW R \in SUBSET S
  PROVE  SignalsOf(S, SigIds(R)) = R
BY DEF SignalsOf, SigIds, Active

\* What the numbers of an incident are.
LEMMA SignalNumbers ==
  ASSUME NEW es, NEW S, Active(S, es), NEW R \in SUBSET S, R # {}
  PROVE  /\ Firsts(R) \in SUBSET Int /\ IsFiniteSet(Firsts(R)) /\ Firsts(R) # {}
         /\ Lasts(R) \in SUBSET Int /\ IsFiniteSet(Lasts(R)) /\ Lasts(R) # {}
         /\ Min(Firsts(R)) \in Int /\ Max(Lasts(R)) \in Int
<1> DEFINE f == [s \in R |-> s.first]
           l == [s \in R |-> s.last]
<1>1. IsFiniteSet(R)
  BY FS_Subset DEF Active
<1> HIDE DEF f, l
<1>2. IsFiniteSet({f[s] : s \in R}) /\ IsFiniteSet({l[s] : s \in R})
  BY <1>1, FiniteImage
<1>3. {f[s] : s \in R} = Firsts(R) /\ {l[s] : s \in R} = Lasts(R)
  BY DEF Firsts, Lasts, f, l
<1>4. Firsts(R) \in SUBSET Int /\ Lasts(R) \in SUBSET Int /\ Firsts(R) # {} /\ Lasts(R) # {}
  BY DEF Firsts, Lasts, Active
<1>5. Min(Firsts(R)) \in Int /\ Max(Lasts(R)) \in Int
  BY <1>2, <1>3, <1>4, MinMax
<1> QED
  BY <1>2, <1>3, <1>4, <1>5

\* The sum of the confidences of a list of signals.
LEMMA SummedInt ==
  ASSUME NEW seq, NEW n \in Nat, DOMAIN seq = 1 .. n, \A k \in 1 .. n : seq[k].conf \in Int
  PROVE  Summed(seq) \in Int
<1>1. PICK f : /\ f[0] = 0 /\ f[n] = Summed(seq)
               /\ \A k \in 1 .. n : f[k] = f[k - 1] + seq[k].conf
  BY SumFold
<1> DEFINE T == {k \in Nat : k <= n => f[k] \in Int}
<1>2. 0 \in T
  BY <1>1
<1>3. ASSUME NEW k \in Nat, k \in T PROVE k + 1 \in T
  <2> SUFFICES ASSUME k + 1 <= n PROVE f[k + 1] \in Int
    OBVIOUS
  <2>1. k + 1 \in 1 .. n /\ (k + 1) - 1 = k /\ f[k] \in Int
    BY <1>3
  <2>2. f[k + 1] = f[k] + seq[k + 1].conf
    BY <1>1, <2>1
  <2> QED
    BY <2>1, <2>2
<1>4. n \in T
  <2> HIDE DEF T
  <2> QED
    BY <1>2, <1>3, Inductive
<1> QED
  BY <1>1, <1>4

\* The confidence of an incident is a number.
LEMMA ConfidenceInt ==
  ASSUME NEW es, NEW S, Active(S, es), NEW R \in SUBSET S, R # {}
  PROVE  IncidentConfidence(R) \in Int
<1> DEFINE K(s) == <<-s.conf>> \o PrecedenceKey(s)
           key == [s \in R |-> K(s)]
           q == InOrder(R, key)
           N == 7
<1>1. ByConfidence(R) = q
  BY DEF ByConfidence, Sorted
<1>2. IsFiniteSet(R)
  BY FS_Subset DEF Active
<1>3. ASSUME NEW s \in R
      PROVE  K(s) \in [1 .. N + 1 -> Int] /\ \A i \in 1 .. N : K(s)[i + 1] = PrecedenceKey(s)[i]
  <2> DEFINE c == -s.conf
             b == PrecedenceKey(s)
             k == K(s)
  <2>1. c \in Int /\ b \in [1 .. N -> Int] /\ N \in Nat
    BY DEF Active
  <2>2. k = <<c>> \o b
    OBVIOUS
  <2> HIDE DEF c, b, k, N
  <2>3. k \in [1 .. N + 1 -> Int]
    BY <2>1, <2>2, Joined
  <2>4. \A i \in 1 .. N : k[i + 1] = b[i]
    BY <2>1, <2>2, Joined
  <2> QED
    BY <2>3, <2>4 DEF k, b
<1>4. ASSUME NEW s \in R, NEW r \in R, K(s) = K(r) PROVE s = r
  <2> DEFINE a == PrecedenceKey(s)
             b == PrecedenceKey(r)
  <2>1. a \in [1 .. N -> Int] /\ b \in [1 .. N -> Int]
    BY DEF Active
  <2>2. \A i \in 1 .. N : a[i] = b[i]
    <3> HIDE DEF K
    <3> QED
      BY <1>3, <1>4
  <2> HIDE DEF a, b, N
  <2>3. a = [i \in 1 .. N |-> a[i]] /\ b = [i \in 1 .. N |-> b[i]]
    BY <2>1
  <2>4. [i \in 1 .. N |-> a[i]] = [i \in 1 .. N |-> b[i]]
    BY <2>2
  <2>5. a = b
    BY <2>3, <2>4
  <2> QED
    BY <2>5 DEF a, b, Active
<1> DEFINE M == N + 1
<1>5. M \in Nat /\ key \in [R -> [1 .. M -> Int]] /\ \A x, y \in R : key[x] = key[y] => x = y
  <2> HIDE DEF K
  <2> QED
    BY <1>3, <1>4
<1> HIDE DEF key, M, q
<1>6. q \in Seq(R) /\ Len(q) = Cardinality(R)
  BY <1>2, <1>5, InOrderLists DEF q
<1>7. Cardinality(R) \in Nat /\ Cardinality(R) # 0
  BY <1>2, FS_CardinalityType, FS_EmptySet
<1> DEFINE m == IF Len(q) < 3 THEN Len(q) ELSE 3
           top == SubSeq(q, 1, m)
<1>8. m \in 1 .. Len(q)
  BY <1>6, <1>7
<1> HIDE DEF m
<1>9. /\ top \in Seq(R) /\ Len(top) = m /\ DOMAIN top = 1 .. m
      /\ \A k \in 1 .. m : top[k] \in R
  BY <1>6, <1>8
<1> HIDE DEF top
<1>10. Summed(top) \in Int
  <2>1. m \in Nat /\ \A k \in 1 .. m : top[k].conf \in Int
    BY <1>6, <1>7, <1>8, <1>9 DEF Active
  <2> QED
    BY <1>9, <2>1, SummedInt
<1>11. IncidentConfidence(R) = Summed(top) \div Len(top)
  BY <1>1 DEF IncidentConfidence, Truncated, top, m
<1>12. m \in Nat /\ m > 0
  BY <1>6, <1>7, <1>8
<1> QED
  BY <1>9, <1>10, <1>11, <1>12

\* An incident built of a cluster tells of the signals of the cluster.
LEMMA BuiltIncident ==
  ASSUME NEW es, NEW S, Active(S, es), NEW c, c \in Seq(S), c # <<>>, NEW context
  PROVE  /\ Told(BuildIncident(c, es, context), S, es)
         /\ BuildIncident(c, es, context).signals = SigIds(Range(c))
<1> DEFINE i == BuildIncident(c, es, context)
           R == Range(c)
<1>1. R \in SUBSET S /\ c[1] \in R
  BY DEF Range
<1> HIDE DEF R
<1>2. /\ DOMAIN i = IncidentFields
      /\ i.signals = SigIds(R) /\ i.ids = Union(R)
      /\ i.first = Min(Firsts(R)) /\ i.last = Max(Lasts(R))
      /\ i.sev = IncidentSeverity(i.family, R, EventsOf(es, i.ids))
      /\ i.absorbed = i.signals \ {i.anchor}
      /\ i.anchor = SigId(c[1]) /\ i.order = PrecedenceKey(c[1])
      /\ i.type = c[1].type /\ i.family = c[1].family /\ i.entity = PrimaryEntity(c[1], es)
      /\ i.conf = IncidentConfidence(R)
  BY DEF BuildIncident, IncidentFields, SigIds, Union, Firsts, Lasts, R
<1>3. SignalsOf(S, i.signals) = R
  BY <1>1, <1>2, OwnSignals
<1> HIDE DEF i
<1>5. i.conf \in Int
  BY <1>1, <1>2, ConfidenceInt
<1>4. TellsOf(i, R, es)
  BY <1>1, <1>2, <1>5 DEF TellsOf
<1> QED
  BY <1>2, <1>3, <1>4 DEF Told, i, R

\* The extremes of a union.
LEMMA UnionExtremes ==
  ASSUME NEW A \in SUBSET Int, NEW B \in SUBSET Int, IsFiniteSet(A), IsFiniteSet(B),
         A # {}, B # {}
  PROVE  /\ Min(A \cup B) = IF Min(B) < Min(A) THEN Min(B) ELSE Min(A)
         /\ Max(A \cup B) = IF Max(B) > Max(A) THEN Max(B) ELSE Max(A)
<1> DEFINE C == A \cup B
<1>1. IsFiniteSet(C) /\ C \in SUBSET Int /\ C # {}
  BY FS_Union
<1>2. /\ Min(A) \in A /\ Min(B) \in B /\ Min(C) \in C
      /\ \A x \in A : Min(A) <= x
      /\ \A x \in B : Min(B) <= x
      /\ \A x \in C : Min(C) <= x
  <2> HIDE DEF C
  <2> QED
    BY <1>1, MinMax
<1>3. /\ Max(A) \in A /\ Max(B) \in B /\ Max(C) \in C
      /\ \A x \in A : x <= Max(A)
      /\ \A x \in B : x <= Max(B)
      /\ \A x \in C : x <= Max(C)
  <2> HIDE DEF C
  <2> QED
    BY <1>1, MinMax
<1>4. Min(C) \in A \/ Min(C) \in B
  BY <1>2
<1>5. Max(C) \in A \/ Max(C) \in B
  BY <1>3
<1>6. /\ Min(C) \in Int /\ Min(A) \in Int /\ Min(B) \in Int
      /\ Min(C) <= Min(A) /\ Min(C) <= Min(B) /\ (Min(C) >= Min(A) \/ Min(C) >= Min(B))
  BY <1>2, <1>4
<1>7. /\ Max(C) \in Int /\ Max(A) \in Int /\ Max(B) \in Int
      /\ Max(C) >= Max(A) /\ Max(C) >= Max(B) /\ (Max(C) <= Max(A) \/ Max(C) <= Max(B))
  BY <1>3, <1>5
<1> HIDE DEF C
<1>8. Min(C) = IF Min(B) < Min(A) THEN Min(B) ELSE Min(A)
  BY <1>6
<1>9. Max(C) = IF Max(B) > Max(A) THEN Max(B) ELSE Max(A)
  BY <1>7
<1> QED
  BY <1>8, <1>9 DEF C

\* An incident that takes another one tells the signals of both.
LEMMA MergedTold ==
  ASSUME NEW es, NEW S, Active(S, es), NEW i, NEW j, Told(i, S, es), Told(j, S, es),
         i.signals \cap j.signals = {}
  PROVE  /\ Told(MergedIncident(i, j, S, es), S, es)
         /\ MergedIncident(i, j, S, es).signals = i.signals \cup j.signals
<1> DEFINE R == SignalsOf(S, i.signals)
           Q == SignalsOf(S, j.signals)
           m == MergedIncident(i, j, S, es)
<1>1. TellsOf(i, R, es) /\ TellsOf(j, Q, es)
  BY DEF Told
<1>2. R \in SUBSET S /\ Q \in SUBSET S
  BY DEF SignalsOf
<1>3. {s \in S : SigId(s) \in i.signals \cup j.signals} = R \cup Q
  BY DEF SignalsOf
<1> HIDE DEF R, Q
<1>4. /\ DOMAIN m = IncidentFields
      /\ m.anchor = i.anchor /\ m.order = i.order /\ m.family = i.family
      /\ m.type = i.type /\ m.entity = i.entity /\ m.conf = IncidentConfidence(R \cup Q)
      /\ m.signals = i.signals \cup j.signals /\ m.ids = i.ids \cup j.ids
      /\ m.first = IF j.first < i.first THEN j.first ELSE i.first
      /\ m.last = IF j.last > i.last THEN j.last ELSE i.last
      /\ m.absorbed = (i.absorbed \cup j.signals) \ {i.anchor}
      /\ m.sev = IncidentSeverity(i.family, R \cup Q, EventsOf(es, i.ids \cup j.ids))
  <2>1. DOMAIN i = IncidentFields
    BY <1>1 DEF TellsOf
  <2> QED
    BY <2>1, <1>3 DEF MergedIncident, IncidentFields
<1> HIDE DEF m
<1>5. m.signals = SigIds(R \cup Q) /\ m.ids = Union(R \cup Q)
  BY <1>1, <1>4 DEF TellsOf, SigIds, Union
<1>6. m.first = Min(Firsts(R \cup Q)) /\ m.last = Max(Lasts(R \cup Q))
  <2>1. Firsts(R \cup Q) = Firsts(R) \cup Firsts(Q) /\ Lasts(R \cup Q) = Lasts(R) \cup Lasts(Q)
    BY DEF Firsts, Lasts
  <2>2. R # {} /\ Q # {} /\ i.first = Min(Firsts(R)) /\ i.last = Max(Lasts(R))
        /\ j.first = Min(Firsts(Q)) /\ j.last = Max(Lasts(Q))
    BY <1>1 DEF TellsOf
  <2>3. /\ Firsts(R) \in SUBSET Int /\ IsFiniteSet(Firsts(R)) /\ Firsts(R) # {}
        /\ Lasts(R) \in SUBSET Int /\ IsFiniteSet(Lasts(R)) /\ Lasts(R) # {}
        /\ Firsts(Q) \in SUBSET Int /\ IsFiniteSet(Firsts(Q)) /\ Firsts(Q) # {}
        /\ Lasts(Q) \in SUBSET Int /\ IsFiniteSet(Lasts(Q)) /\ Lasts(Q) # {}
    BY <1>2, <2>2, SignalNumbers
  <2>4. Min(Firsts(R) \cup Firsts(Q)) =
          IF Min(Firsts(Q)) < Min(Firsts(R)) THEN Min(Firsts(Q)) ELSE Min(Firsts(R))
    BY <2>3, UnionExtremes
  <2>5. Max(Lasts(R) \cup Lasts(Q)) =
          IF Max(Lasts(Q)) > Max(Lasts(R)) THEN Max(Lasts(Q)) ELSE Max(Lasts(R))
    BY <2>3, UnionExtremes
  <2> QED
    BY <1>4, <2>1, <2>2, <2>4, <2>5
<1>7. m.absorbed = m.signals \ {m.anchor}
  BY <1>1, <1>4 DEF TellsOf
<1>8. \E s \in R \cup Q : /\ m.anchor = SigId(s) /\ m.order = PrecedenceKey(s)
                          /\ m.type = s.type /\ m.family = s.family
                          /\ m.entity = PrimaryEntity(s, es)
  BY <1>1, <1>4 DEF TellsOf
<1>9. R \cup Q # {}
  BY <1>1 DEF TellsOf
<1>12. m.conf \in Int
  BY <1>2, <1>4, <1>9, ConfidenceInt
<1>10. TellsOf(m, R \cup Q, es)
  BY <1>4, <1>5, <1>6, <1>7, <1>8, <1>9, <1>12 DEF TellsOf
<1>11. SignalsOf(S, m.signals) = R \cup Q
  BY <1>3, <1>4 DEF SignalsOf
<1> QED
  BY <1>4, <1>10, <1>11 DEF Told, m

\* Two numbers before a list of them.
LEMMA JoinedTwo ==
  ASSUME NEW a \in Int, NEW c \in Int, NEW n \in Nat, NEW b \in [1 .. n -> Int]
  PROVE  <<a, c>> \o b \in [1 .. n + 2 -> Int] /\ \A i \in 1 .. n : (<<a, c>> \o b)[i + 2] = b[i]
<1> DEFINE p == <<a, c>>
           q == p \o b
<1>1. b \in Seq(Int) /\ Len(b) = n /\ p \in Seq(Int) /\ Len(p) = 2
  OBVIOUS
<1> HIDE DEF p
<1>2. /\ q \in Seq(Int) /\ Len(q) = Len(p) + Len(b)
      /\ \A i \in 1 .. Len(p) + Len(b) : q[i] = IF i <= Len(p) THEN p[i] ELSE b[i - Len(p)]
  BY <1>1, ConcatProperties
<1> HIDE DEF q
<1>3. q \in Seq(Int) /\ Len(q) = n + 2
  BY <1>1, <1>2
<1>4. \A i \in 1 .. n : q[i + 2] = b[i]
  BY <1>1, <1>2
<1>5. DOMAIN q = 1 .. n + 2 /\ q = [i \in 1 .. n + 2 |-> q[i]] /\ \A i \in 1 .. n + 2 : q[i] \in Int
  BY <1>3
<1>6. q \in [1 .. n + 2 -> Int]
  BY <1>5
<1> QED
  BY <1>4, <1>6 DEF p, q

\* The key that incidents are ordered by is a list of nine integers.
LEMMA KeeperKeyType ==
  ASSUME NEW es, EventsOK(es), NEW S, Active(S, es), NEW i, Told(i, S, es)
  PROVE  /\ KeeperKey(i) \in [1 .. 9 -> Int]
         /\ \A k \in 1 .. 7 : KeeperKey(i)[k + 2] = i.order[k]
         /\ i.order \in [1 .. 7 -> Int]
<1> DEFINE R == SignalsOf(S, i.signals)
           c == -Cardinality(i.ids)
           f == i.first
           o == i.order
<1>1. R \in SUBSET S /\ TellsOf(i, R, es)
  BY DEF Told, SignalsOf
<1> HIDE DEF R
<1>2. i.ids \in SUBSET Ids(es)
  BY <1>1 DEF TellsOf, Union, Active
<1>3. c \in Int
  <2>1. Cardinality(i.ids) \in Nat
    BY <1>2, IdsFinite
  <2> QED
    BY <2>1
<1>4. f \in Int
  BY <1>1, SignalNumbers DEF TellsOf
<1>5. o \in [1 .. 7 -> Int]
  BY <1>1 DEF TellsOf, Active
<1> DEFINE n == 7
<1>6. KeeperKey(i) = <<c, f>> \o o /\ n \in Nat /\ o \in [1 .. n -> Int]
  BY <1>5 DEF KeeperKey
<1> HIDE DEF c, f, o, n
<1>7. /\ KeeperKey(i) \in [1 .. n + 2 -> Int]
      /\ \A k \in 1 .. n : KeeperKey(i)[k + 2] = o[k]
  BY <1>3, <1>4, <1>6, JoinedTwo
<1> QED
  BY <1>5, <1>7 DEF n, o

\* A sequence of incidents that tell the signals of G, each signal once.
Tiled(m, G, S, es) ==
    /\ \E T : m \in Seq(T)
    /\ \A k \in DOMAIN m : Told(m[k], S, es)
    /\ \A j, k \in DOMAIN m : j # k => m[j].signals \cap m[k].signals = {}
    /\ \A g : g \in G <=> \E k \in DOMAIN m : g \in m[k].signals

\* One more incident, on its own or taken by another one.
LEMMA CombineStep ==
  ASSUME NEW es, EventsOK(es), NEW S, Active(S, es), NEW G, NEW m, Tiled(m, G, S, es),
         NEW i, Told(i, S, es), i.signals \cap G = {}
  PROVE  Tiled(Combine(m, i, S, es), G \cup i.signals, S, es)
<1> DEFINE takers == {k \in DOMAIN m : Mergeable(m[k], i)}
           keys == [k \in takers |-> KeeperKey(m[k])]
           best == InOrder(takers, keys)[1]
           d == Combine(m, i, S, es)
           A == i.signals
<1>1. PICK T : m \in Seq(T)
  BY DEF Tiled
<1>2. DOMAIN m = 1 .. Len(m) /\ Len(m) \in Nat
  BY <1>1
<1>3. d = IF takers = {} THEN Append(m, i)
          ELSE [m EXCEPT ![best] = MergedIncident(m[best], i, S, es)]
  BY DEF Combine, Sorted
<1>4. ASSUME takers # {} PROVE best \in DOMAIN m
  <2> DEFINE n == 9
  <2>1. takers \in SUBSET (1 .. Len(m)) /\ IsFiniteSet(1 .. Len(m))
    BY <1>2, FS_Interval
  <2>2. IsFiniteSet(takers)
    BY <2>1, FS_Subset
  <2>3. \A k \in takers : KeeperKey(m[k]) \in [1 .. n -> Int]
    BY KeeperKeyType DEF Tiled
  <2>4. n \in Nat /\ keys \in [takers -> [1 .. n -> Int]]
    BY <2>3
  <2> HIDE DEF keys, takers, n
  <2>5. best \in takers
    BY <1>4, <2>2, <2>4, InOrderFirst
  <2> QED
    BY <2>5 DEF takers
<1> HIDE DEF best, takers, d, A
<1>5. /\ \A k \in DOMAIN m : Told(m[k], S, es)
      /\ \A j, k \in DOMAIN m : j # k => m[j].signals \cap m[k].signals = {}
      /\ \A g : g \in G <=> \E k \in DOMAIN m : g \in m[k].signals
      /\ A \cap G = {}
  BY DEF Tiled, A
<1>6. CASE takers = {}
  <2> DEFINE U == T \cup {i}
  <2>1. m \in Seq(U) /\ i \in U /\ d = Append(m, i)
    BY <1>1, <1>3, <1>6
  <2> HIDE DEF U
  <2>2. /\ d \in Seq(U) /\ DOMAIN d = 1 .. Len(m) + 1
        /\ \A k \in DOMAIN m : d[k] = m[k]
        /\ d[Len(m) + 1] = i
    BY <2>1, Appended
  <2>3. \A k : k \in DOMAIN d <=> k \in DOMAIN m \/ k = Len(m) + 1
    BY <2>2, <1>2
  <2>4. \A k \in DOMAIN d : Told(d[k], S, es)
    BY <1>5, <2>2, <2>3
  <2>5. ASSUME NEW j \in DOMAIN d, NEW k \in DOMAIN d, j # k
        PROVE  d[j].signals \cap d[k].signals = {}
    <3>1. \A l \in DOMAIN m : m[l].signals \cap A = {}
      BY <1>5
    <3>2. d[Len(m) + 1].signals = A
      BY <2>2 DEF A
    <3> QED
      BY <1>5, <2>2, <2>3, <2>5, <3>1, <3>2
  <2>6. ASSUME NEW g PROVE g \in G \cup A <=> \E k \in DOMAIN d : g \in d[k].signals
    <3>1. d[Len(m) + 1].signals = A
      BY <2>2 DEF A
    <3> QED
      BY <1>5, <2>2, <2>3, <3>1
  <2> QED
    BY <2>2, <2>4, <2>5, <2>6 DEF Tiled, d, A
<1>7. CASE takers # {}
  <2> DEFINE x == MergedIncident(m[best], i, S, es)
             U == T \cup {x}
  <2>1. best \in DOMAIN m
    BY <1>4, <1>7
  <2>2. Told(x, S, es) /\ x.signals = m[best].signals \cup A
    <3>1. Told(m[best], S, es) /\ m[best].signals \cap i.signals = {}
      BY <1>5, <2>1 DEF A
    <3> QED
      BY <3>1, MergedTold DEF A
  <2>3. d = [m EXCEPT ![best] = x]
    BY <1>3, <1>7
  <2> HIDE DEF x
  <2>4. m \in Seq(U) /\ x \in U
    BY <1>1
  <2> HIDE DEF U
  <2>5. /\ d \in Seq(U) /\ DOMAIN d = DOMAIN m
        /\ \A k \in DOMAIN m : k # best => d[k] = m[k]
        /\ d[best] = x
    BY <2>1, <2>3, <2>4, Replaced
  <2>6. \A k \in DOMAIN d : Told(d[k], S, es)
    BY <1>5, <2>2, <2>5
  <2>7. ASSUME NEW j \in DOMAIN d, NEW k \in DOMAIN d, j # k
        PROVE  d[j].signals \cap d[k].signals = {}
    <3>1. \A l \in DOMAIN m : m[l].signals \cap A = {}
      BY <1>5
    <3>2. \A l \in DOMAIN m : d[l].signals = IF l = best THEN m[l].signals \cup A ELSE m[l].signals
      BY <2>2, <2>5
    <3>3. j \in DOMAIN m /\ k \in DOMAIN m /\ m[j].signals \cap m[k].signals = {}
      BY <1>5, <2>5, <2>7
    <3>4. CASE j = best
      BY <3>1, <3>2, <3>3, <3>4, <2>7
    <3>5. CASE j # best
      BY <3>1, <3>2, <3>3, <3>5, <2>7
    <3> QED
      BY <3>4, <3>5
  <2>8. ASSUME NEW g PROVE g \in G \cup A <=> \E k \in DOMAIN d : g \in d[k].signals
    <3>2. \A l \in DOMAIN m : d[l].signals = IF l = best THEN m[l].signals \cup A ELSE m[l].signals
      BY <2>2, <2>5
    <3> QED
      BY <1>5, <2>1, <2>5, <3>2
  <2> QED
    BY <2>5, <2>6, <2>7, <2>8 DEF Tiled, d, A
<1> QED
  BY <1>6, <1>7

\* What merging is given: incidents that tell the signals of S, each signal once.
Split(I, S, es) ==
    /\ IsFiniteSet(I) /\ \A i \in I : Told(i, S, es)
    /\ \A i, j \in I : i # j => i.signals \cap j.signals = {}
    /\ \A s \in S : \E i \in I : SigId(s) \in i.signals

\* After merging, the incidents share out the signals.
LEMMA MergeTiles ==
  ASSUME NEW es, EventsOK(es), NEW S, Active(S, es), NEW I, Split(I, S, es)
  PROVE  \E m : Tiled(m, SigIds(S), S, es) /\ MergeOverlapping(I, S, es) = Range(m)
<1> DEFINE key == [i \in I |-> KeeperKey(i)]
           q == InOrder(I, key)
           N == 9
<1>1. BySize(I) = q
  BY DEF BySize, Sorted
<1>2. IsFiniteSet(I) /\ N \in Nat /\ key \in [I -> [1 .. N -> Int]]
  BY KeeperKeyType DEF Split
<1>3. ASSUME NEW i \in I, NEW j \in I, key[i] = key[j] PROVE i = j
  <2>1. /\ i.order \in [1 .. 7 -> Int] /\ \A k \in 1 .. 7 : KeeperKey(i)[k + 2] = i.order[k]
        /\ j.order \in [1 .. 7 -> Int] /\ \A k \in 1 .. 7 : KeeperKey(j)[k + 2] = j.order[k]
    BY KeeperKeyType DEF Split
  <2>2. \A k \in 1 .. 7 : i.order[k] = j.order[k]
    BY <2>1, <1>3
  <2>3. i.order = j.order
    BY <2>1, <2>2
  <2>4. PICK s \in S : SigId(s) \in i.signals /\ i.order = PrecedenceKey(s)
    <3>1. TellsOf(i, SignalsOf(S, i.signals), es)
      BY DEF Split, Told
    <3>2. PICK s \in SignalsOf(S, i.signals) : i.order = PrecedenceKey(s)
      BY <3>1 DEF TellsOf
    <3> QED
      BY <3>2 DEF SignalsOf
  <2>5. PICK r \in S : SigId(r) \in j.signals /\ j.order = PrecedenceKey(r)
    <3>1. TellsOf(j, SignalsOf(S, j.signals), es)
      BY DEF Split, Told
    <3>2. PICK r \in SignalsOf(S, j.signals) : j.order = PrecedenceKey(r)
      BY <3>1 DEF TellsOf
    <3> QED
      BY <3>2 DEF SignalsOf
  <2>6. s = r
    BY <2>3, <2>4, <2>5 DEF Active
  <2> QED
    BY <2>4, <2>5, <2>6 DEF Split
<1> HIDE DEF key, q, N
<1>4. /\ q \in Seq(I)
      /\ \A x \in I : \E k \in DOMAIN q : q[k] = x
      /\ \A j, k \in DOMAIN q : j < k => Precedes(key[q[j]], key[q[k]])
  BY <1>2, <1>3, InOrderLists DEF q
<1> DEFINE n == Len(q)
           P(k) == UNION {q[j].signals : j \in 1 .. k}
<1>5. n \in Nat /\ DOMAIN q = 1 .. n /\ \A k \in 1 .. n : q[k] \in I
  BY <1>4
<1>6. \A j, k \in 1 .. n : j < k => q[j] # q[k]
  <2> SUFFICES ASSUME NEW j \in 1 .. n, NEW k \in 1 .. n, j < k, q[j] = q[k] PROVE FALSE
    OBVIOUS
  <2>1. Precedes(key[q[j]], key[q[j]]) /\ key[q[j]] \in [1 .. N -> Int]
    BY <1>2, <1>4, <1>5
  <2> QED
    BY <2>1, <1>2, PrecedesOrders
<1> HIDE DEF n
<1>7. PICK f : /\ f[0] = <<>> /\ f[n] = Combined(q, S, es)
               /\ \A k \in 1 .. n : f[k] = Combine(f[k - 1], q[k], S, es)
  BY <1>5, CombineFold
<1> DEFINE T == {k \in Nat : k <= n => Tiled(f[k], P(k), S, es)}
<1>8. 0 \in T
  <2>1. P(0) = {}
    OBVIOUS
  <2>2. <<>> \in Seq({}) /\ DOMAIN <<>> = {}
    OBVIOUS
  <2>3. Tiled(<<>>, P(0), S, es)
    BY <2>1, <2>2 DEF Tiled
  <2> HIDE DEF P
  <2> QED
    BY <2>3, <1>7
<1>9. ASSUME NEW k \in Nat, k \in T PROVE k + 1 \in T
  <2> SUFFICES ASSUME k + 1 <= n PROVE Tiled(f[k + 1], P(k + 1), S, es)
    OBVIOUS
  <2>1. Tiled(f[k], P(k), S, es) /\ k + 1 \in 1 .. n /\ (k + 1) - 1 = k
    BY <1>9, <1>5
  <2>2. f[k + 1] = Combine(f[k], q[k + 1], S, es)
    BY <2>1, <1>7
  <2>3. q[k + 1].signals \cap P(k) = {}
    <3>1. ASSUME NEW j \in 1 .. k PROVE q[j].signals \cap q[k + 1].signals = {}
      <4>1. j \in 1 .. n /\ j < k + 1
        BY <2>1, <1>5
      <4>2. q[j] # q[k + 1] /\ q[j] \in I /\ q[k + 1] \in I
        BY <4>1, <2>1, <1>5, <1>6
      <4> QED
        BY <4>2 DEF Split
    <3> QED
      BY <3>1
  <2>4. P(k + 1) = P(k) \cup q[k + 1].signals
    OBVIOUS
  <2>5. Told(q[k + 1], S, es)
    BY <2>1, <1>5 DEF Split
  <2> HIDE DEF P
  <2>6. Tiled(Combine(f[k], q[k + 1], S, es), P(k) \cup q[k + 1].signals, S, es)
    BY <2>1, <2>3, <2>5, CombineStep
  <2> QED
    BY <2>2, <2>4, <2>6
<1>10. n \in T
  <2> HIDE DEF T
  <2> QED
    BY <1>5, <1>8, <1>9, Inductive
<1>11. Tiled(f[n], P(n), S, es)
  BY <1>10, <1>5
<1>12. P(n) = SigIds(S)
  <2>1. ASSUME NEW g, g \in P(n) PROVE g \in SigIds(S)
    <3>1. PICK k \in 1 .. n : g \in q[k].signals
      BY <2>1
    <3>2. q[k] \in I
      BY <1>5
    <3> DEFINE i == q[k]
    <3> HIDE DEF i
    <3>3. i \in I /\ g \in i.signals
      BY <3>1, <3>2 DEF i
    <3>4. i.signals = SigIds(SignalsOf(S, i.signals))
      BY <3>3 DEF Split, Told, TellsOf
    <3> QED
      BY <3>3, <3>4 DEF SignalsOf, SigIds
  <2>2. ASSUME NEW g, g \in SigIds(S) PROVE g \in P(n)
    <3>1. PICK i \in I : g \in i.signals
      BY <2>2 DEF Split, SigIds
    <3>2. PICK k \in 1 .. n : q[k] = i
      BY <1>4, <1>5
    <3> QED
      BY <3>1, <3>2
  <2> QED
    BY <2>1, <2>2
<1> HIDE DEF P
<1> QED
  BY <1>1, <1>7, <1>11, <1>12 DEF MergeOverlapping

-----------------------------------------------------------------------------
(***************************************************************************)
(* What the correlation of signals gives.                                  *)
(***************************************************************************)

\* The incidents of a correlation, as Correlate leaves them.
Correlated(I, S, es) ==
    /\ IsFiniteSet(I) /\ \A i \in I : Told(i, S, es)
    /\ \A i, j \in I : i # j => i.signals \cap j.signals = {}
    /\ \A s \in S : Cardinality({i \in I : SigId(s) \in i.signals}) = 1
    /\ Union(I) = Union(S)

\* Correlation gives incidents that share out the active signals.
LEMMA CorrelatedShape ==
  ASSUME NEW es, EventsOK(es), NEW S, Active(S, es), NEW context
  PROVE  Correlated(CorrelatedIncidents(S, es, context), S, es)
<1> DEFINE c == Clusters(S)
           built == [k \in DOMAIN c |-> BuildIncident(c[k], es, context)]
           I == {built[k] : k \in DOMAIN c}
<1>1. CorrelatedIncidents(S, es, context) = MergeOverlapping(I, S, es)
  <2>1. {BuildIncident(c[k], es, context) : k \in DOMAIN c} = I
    OBVIOUS
  <2> HIDE DEF I
  <2>2. CorrelatedIncidents(S, es, context)
          = MergeOverlapping({BuildIncident(c[k], es, context) : k \in DOMAIN c}, S, es)
    BY DEF CorrelatedIncidents
  <2> QED
    BY <2>1, <2>2
<1>2. Clustered(c, S)
  BY ClustersCover
<1> HIDE DEF c
<1>3. /\ c \in Seq(Seq(S)) /\ DOMAIN c = 1 .. Len(c) /\ Len(c) \in Nat
      /\ \A k \in DOMAIN c : c[k] \in Seq(S) /\ c[k] # <<>>
      /\ \A s \in S : \E k \in DOMAIN c : s \in Range(c[k])
      /\ \A j, k \in DOMAIN c : j # k => Range(c[j]) \cap Range(c[k]) = {}
  BY <1>2 DEF Clustered
<1>4. \A k \in DOMAIN c : Told(built[k], S, es) /\ built[k].signals = SigIds(Range(c[k]))
  BY <1>3, BuiltIncident
<1>5. IsFiniteSet(I)
  <2> HIDE DEF built
  <2>2. DOMAIN c = 1 .. Len(c) /\ Len(c) \in Int /\ 1 \in Int
    BY <1>3
  <2>1. IsFiniteSet(DOMAIN c)
    BY <2>2, FS_Interval
  <2> QED
    BY <2>1, FiniteImage
<1> HIDE DEF built
<1>6. \A k \in DOMAIN c : Range(c[k]) \in SUBSET S
  BY <1>3 DEF Range
<1>7. \A i, j \in I : i # j => i.signals \cap j.signals = {}
  <2> SUFFICES ASSUME NEW k \in DOMAIN c, NEW l \in DOMAIN c, built[k] # built[l],
                      NEW g \in built[k].signals, g \in built[l].signals
               PROVE  FALSE
    OBVIOUS
  <2>1. PICK s \in Range(c[k]) : g = SigId(s)
    BY <1>4 DEF SigIds
  <2>2. PICK r \in Range(c[l]) : g = SigId(r)
    BY <1>4 DEF SigIds
  <2>3. s \in S /\ r \in S /\ s = r
    BY <1>6, <2>1, <2>2 DEF Active
  <2>4. k # l
    OBVIOUS
  <2> QED
    BY <1>3, <2>1, <2>2, <2>3, <2>4
<1>8. \A s \in S : \E i \in I : SigId(s) \in i.signals
  <2> TAKE s \in S
  <2>1. PICK k \in DOMAIN c : s \in Range(c[k])
    BY <1>3
  <2>2. SigId(s) \in built[k].signals /\ built[k] \in I
    BY <2>1, <1>4 DEF SigIds
  <2> QED
    BY <2>2
<1>9. Split(I, S, es)
  BY <1>4, <1>5, <1>7, <1>8 DEF Split
<1> HIDE DEF I
<1>10. PICK m : Tiled(m, SigIds(S), S, es) /\ MergeOverlapping(I, S, es) = Range(m)
  BY <1>9, MergeTiles
<1> DEFINE J == Range(m)
<1>11. J = {m[k] : k \in DOMAIN m}
  BY DEF Range
<1> HIDE DEF J
<1>12. /\ \A k \in DOMAIN m : Told(m[k], S, es)
       /\ \A j, k \in DOMAIN m : j # k => m[j].signals \cap m[k].signals = {}
       /\ \A g : g \in SigIds(S) <=> \E k \in DOMAIN m : g \in m[k].signals
  BY <1>10 DEF Tiled
<1>13. \A i \in J : Told(i, S, es)
  BY <1>11, <1>12
<1>14. ASSUME NEW s \in S PROVE Cardinality({i \in J : SigId(s) \in i.signals}) = 1
  <2>1. SigId(s) \in SigIds(S)
    BY DEF SigIds
  <2>2. PICK k \in DOMAIN m : SigId(s) \in m[k].signals
    BY <1>12, <2>1
  <2>3. ASSUME NEW l \in DOMAIN m, SigId(s) \in m[l].signals PROVE l = k
    BY <1>12, <2>2, <2>3
  <2>4. {i \in J : SigId(s) \in i.signals} = {m[k]}
    BY <1>11, <2>2, <2>3
  <2> QED
    BY <2>4, FS_Singleton
<1>15. Union(J) = Union(S)
  <2>1. ASSUME NEW x, x \in Union(J) PROVE x \in Union(S)
    <3>1. PICK i \in J : x \in i.ids
      BY <2>1 DEF Union
    <3>2. i.ids = Union(SignalsOf(S, i.signals))
      BY <1>13 DEF Told, TellsOf
    <3> QED
      BY <3>1, <3>2 DEF Union, SignalsOf
  <2>2. ASSUME NEW x, x \in Union(S) PROVE x \in Union(J)
    <3>1. PICK s \in S : x \in s.ids
      BY <2>2 DEF Union
    <3>2. SigId(s) \in SigIds(S)
      BY DEF SigIds
    <3>3. PICK k \in DOMAIN m : SigId(s) \in m[k].signals
      BY <1>12, <3>2
    <3> DEFINE i == m[k]
    <3>4. i \in J /\ SigId(s) \in i.signals
      BY <1>11, <3>3
    <3> HIDE DEF i
    <3>5. i.ids = Union(SignalsOf(S, i.signals)) /\ s \in SignalsOf(S, i.signals)
      BY <1>13, <3>4 DEF Told, TellsOf, SignalsOf
    <3> QED
      BY <3>1, <3>4, <3>5 DEF Union
  <2> QED
    BY <2>1, <2>2
<1>16. \A i, j \in J : i # j => i.signals \cap j.signals = {}
  BY <1>11, <1>12
<1>17. IsFiniteSet(J)
  <2>1. Len(m) \in Int /\ DOMAIN m = 1 .. Len(m) /\ 1 \in Int
    BY <1>10 DEF Tiled
  <2>2. IsFiniteSet(DOMAIN m)
    BY <2>1, FS_Interval
  <2> QED
    BY <1>11, <2>2, FiniteImage
<1> QED
  BY <1>1, <1>10, <1>13, <1>14, <1>15, <1>16, <1>17 DEF Correlated, J

-----------------------------------------------------------------------------
(***************************************************************************)
(* The severity of an incident.                                            *)
(***************************************************************************)

\* Blocked scanning is low or medium.
LEMMA BlockedScanning ==
  ASSUME NEW family \in RECON, NEW S, NEW W, {e \in W : IsAllowed(e)} = {}
  PROVE  IncidentSeverity(family, S, W) \in {"low", "medium"}
<1>1. family \in EVENT_AWARE
  BY DEF EVENT_AWARE
<1> DEFINE dsts == Addrs(EffectiveDsts(W))
           v == IF family \in RECON /\ Cardinality(dsts) >= 25 THEN 2 ELSE 1
<1>2. IncidentSeverity(family, S, W) = SEVERITIES[v + 1]
  BY <1>1 DEF IncidentSeverity
<1>3. v + 1 \in {2, 3}
  OBVIOUS
<1> HIDE DEF v
<1> QED
  BY <1>2, <1>3 DEF SEVERITIES

\* Allowed access to a critical management port is critical.
LEMMA CriticalAccess ==
  ASSUME NEW family \in EVENT_AWARE, NEW S, NEW W, NEW e \in W, IsAllowed(e),
         EffectivePort(e) \in CRITICAL_MANAGEMENT_PORTS
  PROVE  IncidentSeverity(family, S, W) = "critical"
<1> DEFINE allowed == {f \in W : IsAllowed(f)}
           ports == Ports({EffectivePort(f) : f \in allowed})
           dsts == Addrs(EffectiveDsts(W))
           reached(d) == {EffectivePort(f) : f \in {g \in allowed : EffectiveDst(g) = d}}
                           \cap SENSITIVE_SERVICE_PORTS
           targeted == /\ Cardinality(dsts) <= 2
                       /\ \E d \in dsts : Cardinality(reached(d)) >= 2
           large == Cardinality(W) > 500 \/ Cardinality(dsts) > 50
           v == Lift(Lift(4, IF targeted THEN 1 ELSE 0), IF large THEN 1 ELSE 0)
<1>1. allowed # {}
  OBVIOUS
<1>2. ports \cap CRITICAL_MANAGEMENT_PORTS # {}
  BY DEF Ports, CRITICAL_MANAGEMENT_PORTS, NoPort
<1>3. IncidentSeverity(family, S, W) = SEVERITIES[v + 1]
  BY <1>1, <1>2 DEF IncidentSeverity
<1> HIDE DEF targeted, large
<1>4. v = 4
  BY DEF Lift
<1> HIDE DEF v
<1> QED
  BY <1>3, <1>4 DEF SEVERITIES

-----------------------------------------------------------------------------
(***************************************************************************)
(* The candidate list and the events the rules see.                        *)
(***************************************************************************)

\* A delivered event has an id and a time, and no rank yet.
Delivered(e) ==
    /\ "id" \in DOMAIN e /\ "t" \in DOMAIN e /\ "n" \notin DOMAIN e /\ e.t \in Int
    /\ \A x \in {"src", "sport", "dst", "tdst"} : x \in DOMAIN e /\ e[x] \in Int

\* Deliveries under one id are copies of one event.
CandidatesOK(list) ==
    /\ \E T : list \in Seq(T)
    /\ \A i \in DOMAIN list : Delivered(list[i]) /\ list[i].id \in 1 .. Len(list)
    /\ \A i, j \in DOMAIN list : list[i].id = list[j].id => list[i] = list[j]

\* A record with further fields.
LEMMA Joining ==
  ASSUME NEW f, NEW g
  PROVE  /\ \A x : x \in DOMAIN With(f, g) <=> x \in DOMAIN f \/ x \in DOMAIN g
         /\ \A x \in DOMAIN f : With(f, g)[x] = f[x]
         /\ \A x \in DOMAIN g \ DOMAIN f : With(f, g)[x] = g[x]
BY DEF With

\* A line that comes in keeps the list of candidates in shape.
LEMMA NewCandidate ==
  ASSUME NEW list, CandidatesOK(list), NEW shape, NEW now \in Int,
         "id" \notin DOMAIN shape, "n" \notin DOMAIN shape,
         "t" \in DOMAIN shape => shape.t \in Int,
         \A x \in {"src", "sport", "dst", "tdst"} : x \in DOMAIN shape /\ shape[x] \in Int
  PROVE  CandidatesOK(Append(list, With(shape, [id |-> Len(list) + 1, t |-> now])))
<1> DEFINE g == [id |-> Len(list) + 1, t |-> now]
           e == With(shape, g)
           d == Append(list, e)
<1>1. DOMAIN g = {"id", "t"} /\ g["id"] = Len(list) + 1 /\ g["t"] = now
  OBVIOUS
<1> HIDE DEF g
<1>2. /\ \A x : x \in DOMAIN e <=> x \in DOMAIN shape \/ x \in {"id", "t"}
      /\ \A x \in DOMAIN shape : e[x] = shape[x]
      /\ \A x \in {"id", "t"} \ DOMAIN shape : e[x] = g[x]
  BY <1>1, Joining
<1> HIDE DEF e
<1>3. Delivered(e) /\ e.id = Len(list) + 1
  <2>1. e.id = Len(list) + 1
    BY <1>1, <1>2
  <2>2. e.t \in Int
    BY <1>1, <1>2
  <2>3. \A x \in {"src", "sport", "dst", "tdst"} : x \in DOMAIN e /\ e[x] \in Int
    BY <1>2
  <2> QED
    BY <1>2, <2>1, <2>2, <2>3 DEF Delivered
<1>4. PICK T : list \in Seq(T)
  BY DEF CandidatesOK
<1> DEFINE U == T \cup {e}
<1>5. list \in Seq(U) /\ e \in U
  BY <1>4
<1> HIDE DEF U
<1>6. /\ d \in Seq(U) /\ Len(list) \in Nat /\ DOMAIN list = 1 .. Len(list)
      /\ Len(d) = Len(list) + 1 /\ DOMAIN d = 1 .. Len(list) + 1
      /\ \A i \in DOMAIN list : d[i] = list[i]
      /\ d[Len(list) + 1] = e
  BY <1>5, Appended
<1> HIDE DEF d
<1>7. \A i \in DOMAIN d : i \in DOMAIN list \/ i = Len(list) + 1
  BY <1>6
<1>8. ASSUME NEW i \in DOMAIN d PROVE Delivered(d[i]) /\ d[i].id \in 1 .. Len(d)
  <2>1. CASE i \in DOMAIN list
    <3>1. Delivered(list[i]) /\ list[i].id \in 1 .. Len(list) /\ d[i] = list[i]
      BY <1>6, <2>1 DEF CandidatesOK
    <3> QED
      BY <3>1, <1>6
  <2>2. CASE i = Len(list) + 1
    BY <2>2, <1>3, <1>6
  <2> QED
    BY <1>7, <2>1, <2>2
<1>9. ASSUME NEW i \in DOMAIN d, NEW j \in DOMAIN d, d[i].id = d[j].id PROVE d[i] = d[j]
  <2>1. \A k \in DOMAIN list : d[k].id \in 1 .. Len(list) /\ d[k] = list[k]
    BY <1>6 DEF CandidatesOK
  <2>2. CASE i \in DOMAIN list /\ j \in DOMAIN list
    BY <2>1, <2>2, <1>9 DEF CandidatesOK
  <2>3. CASE i = Len(list) + 1 /\ j = Len(list) + 1
    BY <2>3
  <2>4. CASE i = Len(list) + 1 /\ j \in DOMAIN list
    BY <2>1, <2>4, <1>3, <1>6, <1>9
  <2>5. CASE j = Len(list) + 1 /\ i \in DOMAIN list
    BY <2>1, <2>5, <1>3, <1>6, <1>9
  <2> QED
    BY <1>7, <2>2, <2>3, <2>4, <2>5
<1>10. CandidatesOK(d)
  BY <1>6, <1>8, <1>9 DEF CandidatesOK
<1> QED
  BY <1>10 DEF d, e, g

\* So does the first line when it comes in again.
LEMMA RepeatedCandidate ==
  ASSUME NEW list, CandidatesOK(list), list # <<>>
  PROVE  CandidatesOK(Append(list, list[1]))
<1> DEFINE e == list[1]
           d == Append(list, e)
<1>1. PICK T : list \in Seq(T)
  BY DEF CandidatesOK
<1>2. 1 \in DOMAIN list
  BY <1>1
<1>3. e \in T
  BY <1>1, <1>2
<1> HIDE DEF e
<1>4. /\ d \in Seq(T) /\ Len(list) \in Nat /\ DOMAIN list = 1 .. Len(list)
      /\ Len(d) = Len(list) + 1 /\ DOMAIN d = 1 .. Len(list) + 1
      /\ \A i \in DOMAIN list : d[i] = list[i]
      /\ d[Len(list) + 1] = e
  BY <1>1, <1>3, Appended
<1> HIDE DEF d
<1>5. ASSUME NEW i \in DOMAIN d PROVE \E k \in DOMAIN list : d[i] = list[k]
  BY <1>2, <1>4 DEF e
<1>6. ASSUME NEW i \in DOMAIN d PROVE Delivered(d[i]) /\ d[i].id \in 1 .. Len(d)
  <2>1. PICK k \in DOMAIN list : d[i] = list[k]
    BY <1>5
  <2>2. Delivered(list[k]) /\ list[k].id \in 1 .. Len(list)
    BY DEF CandidatesOK
  <2> QED
    BY <2>1, <2>2, <1>4
<1>7. \A i, j \in DOMAIN d : d[i].id = d[j].id => d[i] = d[j]
  BY <1>5 DEF CandidatesOK
<1>8. CandidatesOK(d)
  BY <1>4, <1>6, <1>7 DEF CandidatesOK
<1> QED
  BY <1>8 DEF d, e

\* The time of the next line is a number.
LEMMA LatestTime ==
  ASSUME NEW list, CandidatesOK(list), list # <<>>
  PROVE  Max({list[i].t : i \in DOMAIN list}) \in Int
<1> DEFINE time == [i \in DOMAIN list |-> list[i].t]
           S == {time[i] : i \in DOMAIN list}
<1>1. PICK T : list \in Seq(T)
  BY DEF CandidatesOK
<1>2. DOMAIN list = 1 .. Len(list) /\ Len(list) \in Nat /\ 1 \in DOMAIN list
  BY <1>1
<1>3. IsFiniteSet(DOMAIN list)
  <2>1. IsFiniteSet(1 .. Len(list))
    BY <1>2, FS_Interval
  <2> QED
    BY <1>2, <2>1
<1>4. S = {list[i].t : i \in DOMAIN list}
  OBVIOUS
<1>5. S \in SUBSET Int /\ S # {}
  BY <1>2 DEF CandidatesOK, Delivered
<1> HIDE DEF time
<1>6. IsFiniteSet(S)
  BY <1>3, FiniteImage
<1> HIDE DEF S
<1>7. Max(S) \in S
  BY <1>5, <1>6, MinMax
<1> QED
  BY <1>4, <1>5, <1>7

\* The events that the engine accepts were delivered, with ids of their own.
LEMMA EligibleDelivered ==
  ASSUME NEW list, CandidatesOK(list)
  PROVE  /\ IsFiniteSet(EligibleEvents(list))
         /\ \A e \in EligibleEvents(list) : Delivered(e) /\ e.id \in Int
         /\ \A e, f \in EligibleEvents(list) : e.id = f.id => e = f
<1> DEFINE S == {list[i] : i \in DOMAIN list}
<1>1. EligibleEvents(list) \in SUBSET S
  BY DEF EligibleEvents
<1>2. IsFiniteSet(S)
  <2>1. PICK T : list \in Seq(T)
    BY DEF CandidatesOK
  <2>2. DOMAIN list = 1 .. Len(list) /\ Len(list) \in Nat
    BY <2>1
  <2>3. IsFiniteSet(1 .. Len(list))
    BY <2>2, FS_Interval
  <2>4. IsFiniteSet(DOMAIN list)
    BY <2>2, <2>3
  <2> QED
    BY <2>4, FiniteImage
<1>3. \A e \in S : Delivered(e) /\ e.id \in Int
  BY DEF CandidatesOK
<1>4. \A e, f \in S : e.id = f.id => e = f
  BY DEF CandidatesOK
<1> HIDE DEF S
<1> QED
  BY <1>1, <1>2, <1>3, <1>4, FS_Subset

\* The ranks of the eligible events follow their times.
LEMMA RankedEvents ==
  ASSUME NEW es, IsFiniteSet(es), \A e \in es : Delivered(e) /\ e.id \in Int,
         \A e, f \in es : e.id = f.id => e = f
  PROVE  EventsOK(Ranked(es))
<1> DEFINE below == [e \in es |-> {f \in es : Precedes(ByTime(f), ByTime(e))}]
           r == [e \in es |-> Cardinality(below[e]) + 1]
           g == [e \in es |-> With(e, [n |-> r[e]])]
           N == 2
<1>1. \A e \in es : ByTime(e) \in [1 .. N -> Int] /\ ByTime(e)[1] = e.t /\ ByTime(e)[2] = e.id
  BY DEF ByTime, Delivered
<1> DEFINE key == [e \in es |-> ByTime(e)]
<1>2. key \in [es -> [1 .. N -> Int]] /\ N \in Nat
  BY <1>1
<1>3. \A e, f \in es : key[e] = key[f] => e = f
  BY <1>1
<1>4. \A e, f \in es : f \in below[e] <=> Precedes(key[f], key[e])
  OBVIOUS
<1>5. below \in [es -> SUBSET es]
  OBVIOUS
<1>6. \A e, f \in es : Precedes(key[e], key[f]) => e.t <= f.t
  <2> TAKE e \in es, f \in es
  <2>1. key[e] = ByTime(e) /\ key[f] = ByTime(f) /\ DOMAIN key[e] = 1 .. 2
    BY <1>2
  <2>2. key[e][1] = e.t /\ key[f][1] = f.t /\ e.t \in Int /\ f.t \in Int
    BY <1>1, <2>1 DEF Delivered
  <2> HIDE DEF key
  <2> HAVE Precedes(key[e], key[f])
  <2>3. PICK i \in 1 .. 2 : (\A j \in 1 .. i - 1 : key[e][j] = key[f][j]) /\ key[e][i] < key[f][i]
    BY <2>1 DEF Precedes
  <2>4. CASE i = 1
    BY <2>2, <2>3, <2>4
  <2>5. CASE i = 2
    BY <2>2, <2>3, <2>5
  <2> QED
    BY <2>4, <2>5
<1>7. Ranked(es) = {g[e] : e \in es}
  BY DEF Ranked
<1> HIDE DEF key, below, N
<1>8. StrictOrder(es, below)
  <2>1. \A e \in es : e \notin below[e]
    BY <1>2, <1>4, PrecedesOrders
  <2>2. \A e, f \in es : e # f => e \in below[f] \/ f \in below[e]
    BY <1>2, <1>3, <1>4, PrecedesOrders
  <2>3. \A e, f, h \in es : e \in below[f] /\ f \in below[h] => e \in below[h]
    BY <1>2, <1>4, PrecedesOrders
  <2> QED
    BY <1>5, <2>1, <2>2, <2>3 DEF StrictOrder
<1>9. \A e \in es : r[e] \in Int
  <2> TAKE e \in es
  <2>1. Cardinality(below[e]) \in 0 .. Cardinality(es) - 1 /\ Cardinality(es) \in Nat
    BY <1>8, Ranks, FS_CardinalityType
  <2> QED
    BY <2>1
<1>10. \A e, f \in es : f \in below[e] => r[f] < r[e]
  <2> TAKE e \in es, f \in es
  <2> HAVE f \in below[e]
  <2>1. Cardinality(below[f]) < Cardinality(below[e])
    BY <1>8, Ranks
  <2>2. Cardinality(es) \in Nat /\ Cardinality(below[e]) \in 0 .. Cardinality(es) - 1
        /\ Cardinality(below[f]) \in 0 .. Cardinality(es) - 1
    BY <1>8, Ranks, FS_CardinalityType
  <2> QED
    BY <2>1, <2>2
<1> HIDE DEF r
<1>11. \A e \in es : /\ g[e].id = e.id /\ g[e].t = e.t /\ g[e].n = r[e]
                     /\ g[e].src \in Int /\ g[e].dst \in Int /\ g[e].tdst \in Int
  <2> TAKE e \in es
  <2> DEFINE h == [n |-> r[e]]
  <2>1. DOMAIN h = {"n"} /\ h["n"] = r[e]
    OBVIOUS
  <2> HIDE DEF h
  <2>2. g[e] = With(e, h)
    BY DEF h
  <2>3. /\ "id" \in DOMAIN e /\ "t" \in DOMAIN e /\ "n" \notin DOMAIN e
        /\ \A x \in {"src", "dst", "tdst"} : x \in DOMAIN e /\ e[x] \in Int
    BY DEF Delivered
  <2> HIDE DEF g
  <2>4. g[e]["id"] = e["id"] /\ g[e]["t"] = e["t"] /\ g[e]["n"] = h["n"]
    BY <2>1, <2>2, <2>3, Joining
  <2>5. \A x \in {"src", "dst", "tdst"} : g[e][x] = e[x]
    BY <2>2, <2>3, Joining
  <2> QED
    BY <2>1, <2>3, <2>4, <2>5
<1> HIDE DEF g
<1>12. \A e, f \in es : r[e] < r[f] => e \in below[f]
  <2> TAKE e \in es, f \in es
  <2> HAVE r[e] < r[f]
  <2>1. e # f /\ f \notin below[e]
    BY <1>9, <1>10
  <2> QED
    BY <2>1, <1>8 DEF StrictOrder
<1>13. \A e, f \in es : r[e] = r[f] => e = f
  <2> TAKE e \in es, f \in es
  <2> HAVE r[e] = r[f]
  <2>1. f \notin below[e] /\ e \notin below[f]
    BY <1>9, <1>10
  <2> QED
    BY <2>1, <1>8 DEF StrictOrder
<1>14. IsFiniteSet({g[e] : e \in es})
  BY FiniteImage
<1>15. \A x \in Ranked(es) : /\ x.t \in Int /\ x.n \in Int
                            /\ x.src \in Int /\ x.dst \in Int /\ x.tdst \in Int
  BY <1>7, <1>9, <1>11 DEF Delivered
<1>16. \A x, y \in Ranked(es) : (x.n = y.n => x = y) /\ (x.id = y.id => x = y)
  BY <1>7, <1>11, <1>13
<1>17. \A x, y \in Ranked(es) : x.n < y.n => x.t <= y.t
  BY <1>4, <1>6, <1>7, <1>11, <1>12
<1> QED
  BY <1>7, <1>14, <1>15, <1>16, <1>17 DEF EventsOK

\* The signals of remote_service_probe, which tells of two types.
LEMMA RemoteTwins ==
  ASSUME NEW es, EventsOK(es), NEW s \in RemoteServiceProbe(es),
         NEW r \in RemoteServiceProbe(es)
  PROVE  /\ Twins(s, r, es, "window") /\ s.rule = s.type /\ Shown(s, es)
         /\ s.type \in {"rdp_probe", "ssh_probe"}
<1> DEFINE t == Threshold["remote_service_probe"]
           service(e) == IF e.dport = 3389 THEN "rdp_probe" ELSE "ssh_probe"
           D == {e \in es : /\ e.src # NoAddr /\ e.proto = "TCP"
                            /\ e.dport \in {22, 3389}}
           key(e) == <<e.src, service(e)>>
           V == Windows(D, [e \in D |-> key(e)], t.window)
           meta(W) == LET name == service(CHOOSE e \in W : TRUE)
                      IN  Meta(name, name, "service_probing", "high", 700, 950)
           ok(W) == /\ AtMost(t.targets, Dsts(W))
                    /\ AtLeast(W, t.block, IsNarrowBlocked) /\ Syns(W, t)
           f(w) == Signal(meta(w.events), Cardinality(w.events), t.events, w.events, w.last.src,
                          Dsts(w.events), key(w.last), FirstOf(w.events, 3), w.at)
<1>1. RemoteServiceProbe(es) =
        {f(w) : w \in {v \in V : Cardinality(v.events) >= t.events /\ ok(v.events)}}
  BY DEF RemoteServiceProbe, Scan, Source
<1>2. D \in SUBSET es /\ t.window \in Nat /\ t.events \in Int
  BY SettledRules
<1>3. \A W : /\ meta(W).rule = meta(W).type
             /\ meta(W).type \in {"rdp_probe", "ssh_probe"}
             /\ meta(W).lo \in Int /\ meta(W).hi \in Int
             /\ meta(W).family \notin CROSS_PRIMARY /\ meta(W).type \notin EXPOSURE_TYPES
  BY DEF Meta, CROSS_PRIMARY, EXPOSURE_TYPES
<1> HIDE DEF D, key, t, ok, meta
<1>4. \A w \in V : WindowOK(w, es) /\ \A v \in V : Compatible(w, v, "window")
  BY <1>2, WindowsShape
<1> HIDE DEF V
<1>5. ASSUME NEW w \in V
      PROVE  /\ Tells(f(w), w)
             /\ f(w).rule = f(w).type
             /\ f(w).type \in {"rdp_probe", "ssh_probe"}
             /\ f(w).family = meta(w.events).family
  <2> DEFINE m == meta(w.events)
             n == t.events
  <2>1. m.lo \in Int /\ m.hi \in Int /\ n \in Int /\ WindowOK(w, es)
    BY <1>2, <1>3, <1>4
  <2>2. f(w) = Signal(m, Cardinality(w.events), n, w.events,
                      w.last.src, Dsts(w.events), key(w.last), FirstOf(w.events, 3), w.at)
    OBVIOUS
  <2> HIDE DEF m, n, f
  <2>3. Tells(f(w), w) /\ f(w).rule = m.rule /\ f(w).type = m.type /\ f(w).family = m.family
    BY <2>1, <2>2, SignalTells
  <2> QED
    BY <2>3, <1>3 DEF m
<1> HIDE DEF f
<1>9. \A w \in V : Shown(f(w), es)
  BY <1>3, <1>5, NotExposure DEF EXPOSURE_TYPES
<1> QED
  BY <1>1, <1>4, <1>5, <1>9 DEF Twins

-----------------------------------------------------------------------------
\* The window of a sequence: what precedes an event, and the event.
Ending(a, B) == [last |-> a, events |-> B \cup {a}, at |-> a.n]

\* Sequences known by the event that ends them are compatible.
LEMMA Endings ==
  ASSUME NEW es, EventsOK(es), NEW a \in es, NEW b \in es, NEW A \in SUBSET es,
         NEW B \in SUBSET es, \A f \in A : f.n < a.n, a = b => A = B
  PROVE  /\ WindowOK(Ending(a, A), es)
         /\ Compatible(Ending(a, A), Ending(b, B), "sequence")
<1>1. WindowOK(Ending(a, A), es)
  BY DEF Ending, WindowOK, EventsOK
<1>2. Compatible(Ending(a, A), Ending(b, B), "sequence")
  BY DEF Ending, Compatible
<1> QED
  BY <1>1, <1>2

\* The signals of each rule that tells a sequence.
LEMMA ScanThenTwins ==
  ASSUME NEW es, EventsOK(es), NEW s \in ScanThenAllowed(es),
         NEW r \in ScanThenAllowed(es)
  PROVE  /\ Twins(s, r, es, "sequence") /\ Shown(s, es)
         /\ s.rule = "scan_followed_by_allowed_connection"
         /\ s.type = "scan_followed_by_allowed_connection"
<1> DEFINE t == Threshold["scan_followed_by_allowed_connection"]
           seen == {e \in es : /\ e.src # NoAddr /\ e.dst # NoAddr
                               /\ e.dport # NoPort /\ e.action # "none"}
           before(a) == {f \in Preceding(seen, a, t.window) : IsBlocked(f)}
           ok(B, a) == /\ AtMost(t.targets, Dsts(B)) \/ AtMost(t.ports, DPorts(B))
                       /\ \E f \in B : f.dst = a.dst /\ SameService(f, a)
           meta == Meta("scan_followed_by_allowed_connection",
                        "scan_followed_by_allowed_connection",
                        "network_intrusion_candidate", "high", 800, 950)
           f(a) == Signal(meta, Cardinality(before(a)), t.events, before(a) \cup {a}, a.src,
                          Bounded(Dsts(before(a) \cup {a})), <<a.dst, a.dport>>,
                          FirstOf(before(a), 2) \cup {a}, a.n)
           last == {b \in {e \in seen : IsAllowed(e)} :
                      /\ Cardinality(before(b)) >= t.events
                      /\ before(b) # {} /\ ok(before(b), b)}
<1>1. ScanThenAllowed(es) = {f(a) : a \in last}
  BY DEF ScanThenAllowed, Sequence
<1>2. t.window \in Nat /\ t.events \in Int
  BY SettledRules
<1>3. \A a \in last : a \in es
  OBVIOUS
<1>4. \A a : before(a) \in SUBSET es /\ \A g \in before(a) : g.n < a.n
  BY DEF Preceding
<1>5. /\ meta.rule = "scan_followed_by_allowed_connection"
      /\ meta.type = "scan_followed_by_allowed_connection"
      /\ meta.lo \in Int /\ meta.hi \in Int
      /\ meta.family \notin CROSS_PRIMARY /\ meta.type \notin EXPOSURE_TYPES
  BY DEF Meta, CROSS_PRIMARY, EXPOSURE_TYPES
<1> HIDE DEF last, before, t, ok, meta
<1>6. \A a \in last : WindowOK(Ending(a, before(a)), es) /\ \A b \in last :
         Compatible(Ending(a, before(a)), Ending(b, before(b)), "sequence")
  BY <1>3, <1>4, Endings
<1>7. \A a : IsFiniteSet(before(a)) /\ Cardinality(before(a)) \in Nat
  BY <1>4, FS_Subset, FS_CardinalityType DEF EventsOK
<1>9. ASSUME NEW a \in last
      PROVE  /\ Tells(f(a), Ending(a, before(a)))
             /\ f(a).rule = meta.rule /\ f(a).type = meta.type /\ f(a).family = meta.family
  <2> DEFINE c == Cardinality(before(a))
             w == Ending(a, before(a))
             lo == meta.lo
             hi == meta.hi
             n == t.events
  <2>1. c \in Int /\ c >= 0 /\ n \in Int /\ lo \in Int /\ hi \in Int
    BY <1>2, <1>5, <1>7
  <2>2. f(a).conf = Confidence(c, n, lo, hi)
    BY DEF Signal
  <2>3. w.events = before(a) \cup {a} /\ w.at = a.n
    BY DEF Ending
  <2> HIDE DEF c, n, lo, hi, w
  <2>4. f(a).conf \in Int
    BY <2>1, <2>2, ConfidenceType
  <2>5. Tells(f(a), w) /\ f(a).rule = meta.rule /\ f(a).type = meta.type /\ f(a).family = meta.family
    BY <2>3, <2>4 DEF Signal, Tells, SignalFields
  <2> QED
    BY <2>5 DEF w
<1> HIDE DEF f
<1>10. PICK a \in last, b \in last : s = f(a) /\ r = f(b)
  BY <1>1
<1>11. Ending(a, before(a)) = Ending(b, before(b)) => a = b
  BY DEF Ending
<1>12. Twins(s, r, es, "sequence")
  BY <1>6, <1>9, <1>10, <1>11 DEF Twins
<1>13. Shown(s, es)
  BY <1>5, <1>9, <1>10, NotExposure
<1> QED
  BY <1>5, <1>9, <1>10, <1>12, <1>13

\* The signals of spi_followed_by_allowed_connection.
LEMMA SpiThenTwins ==
  ASSUME NEW es, EventsOK(es), NEW s \in SpiThenAllowed(es), NEW r \in SpiThenAllowed(es)
  PROVE  /\ Twins(s, r, es, "sequence") /\ Shown(s, es)
         /\ s.rule = "spi_followed_by_allowed_connection"
         /\ s.type = "spi_followed_by_allowed_connection"
<1> DEFINE t == Threshold["spi_followed_by_allowed_connection"]
           seen == {e \in es : /\ e.src # NoAddr /\ e.dst # NoAddr
                               /\ e.dport # NoPort
                               /\ e.proto = "TCP" /\ e.action # "none"}
           before(a) == {f \in Preceding(seen, a, t.window) : IsSpiBlock(f, SpiFallback)}
           ok(B, a) == \E f \in B : f.dst = a.dst /\ SameService(f, a)
           meta == Meta("spi_followed_by_allowed_connection",
                        "spi_followed_by_allowed_connection",
                        "network_intrusion_candidate", "high", 800, 950)
           f(a) == Signal(meta, Cardinality(before(a)), t.events, before(a) \cup {a}, a.src,
                          Bounded(Dsts(before(a) \cup {a})), <<a.dst, a.dport>>,
                          FirstOf(before(a), 2) \cup {a}, a.n)
           last == {b \in {e \in seen : IsAllowed(e)} :
                      /\ Cardinality(before(b)) >= t.events
                      /\ before(b) # {} /\ ok(before(b), b)}
<1>1. SpiThenAllowed(es) = {f(a) : a \in last}
  BY DEF SpiThenAllowed, Sequence
<1>2. t.window \in Nat /\ t.events \in Int
  BY SettledRules
<1>3. \A a \in last : a \in es
  OBVIOUS
<1>4. \A a : before(a) \in SUBSET es /\ \A g \in before(a) : g.n < a.n
  BY DEF Preceding
<1>5. /\ meta.rule = "spi_followed_by_allowed_connection"
      /\ meta.type = "spi_followed_by_allowed_connection"
      /\ meta.lo \in Int /\ meta.hi \in Int
      /\ meta.family \notin CROSS_PRIMARY /\ meta.type \notin EXPOSURE_TYPES
  BY DEF Meta, CROSS_PRIMARY, EXPOSURE_TYPES
<1> HIDE DEF last, before, t, ok, meta
<1>6. \A a \in last : WindowOK(Ending(a, before(a)), es) /\ \A b \in last :
         Compatible(Ending(a, before(a)), Ending(b, before(b)), "sequence")
  BY <1>3, <1>4, Endings
<1>7. \A a : IsFiniteSet(before(a)) /\ Cardinality(before(a)) \in Nat
  BY <1>4, FS_Subset, FS_CardinalityType DEF EventsOK
<1>9. ASSUME NEW a \in last
      PROVE  /\ Tells(f(a), Ending(a, before(a)))
             /\ f(a).rule = meta.rule /\ f(a).type = meta.type /\ f(a).family = meta.family
  <2> DEFINE c == Cardinality(before(a))
             w == Ending(a, before(a))
             lo == meta.lo
             hi == meta.hi
             n == t.events
  <2>1. c \in Int /\ c >= 0 /\ n \in Int /\ lo \in Int /\ hi \in Int
    BY <1>2, <1>5, <1>7
  <2>2. f(a).conf = Confidence(c, n, lo, hi)
    BY DEF Signal
  <2>3. w.events = before(a) \cup {a} /\ w.at = a.n
    BY DEF Ending
  <2> HIDE DEF c, n, lo, hi, w
  <2>4. f(a).conf \in Int
    BY <2>1, <2>2, ConfidenceType
  <2>5. Tells(f(a), w) /\ f(a).rule = meta.rule /\ f(a).type = meta.type /\ f(a).family = meta.family
    BY <2>3, <2>4 DEF Signal, Tells, SignalFields
  <2> QED
    BY <2>5 DEF w
<1> HIDE DEF f
<1>10. PICK a \in last, b \in last : s = f(a) /\ r = f(b)
  BY <1>1
<1>11. Ending(a, before(a)) = Ending(b, before(b)) => a = b
  BY DEF Ending
<1>12. Twins(s, r, es, "sequence")
  BY <1>6, <1>9, <1>10, <1>11 DEF Twins
<1>13. Shown(s, es)
  BY <1>5, <1>9, <1>10, NotExposure
<1> QED
  BY <1>5, <1>9, <1>10, <1>12, <1>13

\* The signals of blocked_then_allowed_same_service.
LEMMA BlockedThenTwins ==
  ASSUME NEW es, EventsOK(es), NEW s \in BlockedThenAllowed(es),
         NEW r \in BlockedThenAllowed(es)
  PROVE  /\ Twins(s, r, es, "sequence") /\ Shown(s, es)
         /\ s.rule = "blocked_then_allowed_same_service"
         /\ s.type = "blocked_then_allowed_same_service"
<1> DEFINE t == Threshold["blocked_then_allowed_same_service"]
           service(e) == ServiceOrExactPort(EffectivePort(e))
           seen == {e \in es : /\ Exposure(e) /\ service(e) # <<"none", 0>>
                               /\ IsAllowed(e) \/ IsBlocked(e)}
           before(a) == {f \in Preceding(seen, a, t.window) :
                           /\ EffectiveDst(f) = EffectiveDst(a) /\ service(f) = service(a)
                           /\ IsBlocked(f) /\ ~IsSpi(f, SpiFallback)}
           meta == ExposureMeta("blocked_then_allowed_same_service",
                                "network_intrusion_candidate", "high")
           g(a) == Signal(meta, Cardinality(before(a)), t.events, before(a) \cup {a}, a.src,
                          {EffectiveDst(a)}, <<EffectiveDst(a), service(a), EffectivePort(a)>>,
                          FirstOf(before(a), 2) \cup {a}, a.n)
           f(a) == [g(a) EXCEPT !.conf = Confidence(Cardinality(g(a).ids), t.events, meta.lo, meta.hi)]
           last == {b \in {e \in seen : IsAllowed(e)} :
                      /\ Cardinality(before(b)) >= t.events
                      /\ before(b) # {} /\ TRUE}
<1>1. \A x : x \in BlockedThenAllowed(es) => \E a \in last : x = f(a)
  <2> DEFINE lift(x) == [x EXCEPT !.conf = Confidence(Cardinality(x.ids), t.events, meta.lo, meta.hi)]
             S == {g(a) : a \in last}
  <2>1. BlockedThenAllowed(es) = {lift(x) : x \in S}
    BY DEF BlockedThenAllowed, Sequence
  <2>2. \A a : f(a) = lift(g(a))
    OBVIOUS
  <2> HIDE DEF last, g, f, lift
  <2> QED
    BY <2>1, <2>2
<1>2. t.window \in Nat /\ t.events \in Int
  BY SettledRules
<1>3. \A a \in last : a \in es
  OBVIOUS
<1>4. \A a : before(a) \in SUBSET es /\ \A d \in before(a) : d.n < a.n
  BY DEF Preceding
<1>5. /\ meta.rule = "blocked_then_allowed_same_service"
      /\ meta.type = "blocked_then_allowed_same_service"
      /\ meta.lo \in Int /\ meta.hi \in Int
      /\ meta.family \notin CROSS_PRIMARY /\ meta.type \notin EXPOSURE_TYPES
  BY DEF ExposureMeta, Meta, CROSS_PRIMARY, EXPOSURE_TYPES
<1> HIDE DEF last, before, t, meta
<1>6. \A a \in last : WindowOK(Ending(a, before(a)), es) /\ \A b \in last :
         Compatible(Ending(a, before(a)), Ending(b, before(b)), "sequence")
  BY <1>3, <1>4, Endings
<1>7. ASSUME NEW a \in last
      PROVE  IsFiniteSet(g(a).ids) /\ Cardinality(g(a).ids) \in Nat
  <2> DEFINE W == before(a) \cup {a}
  <2>1. W \in SUBSET es
    BY <1>3, <1>4
  <2>2. g(a).ids = {e.id : e \in W}
    BY DEF Signal
  <2> HIDE DEF W
  <2>3. g(a).ids \in SUBSET Ids(es)
    BY <2>1, <2>2 DEF Ids
  <2> HIDE DEF g
  <2> QED
    BY <2>3, IdsFinite
<1>9. ASSUME NEW a \in last
      PROVE  /\ Tells(f(a), Ending(a, before(a)))
             /\ f(a).rule = meta.rule /\ f(a).type = meta.type /\ f(a).family = meta.family
  <2> DEFINE c == Cardinality(g(a).ids)
             w == Ending(a, before(a))
             lo == meta.lo
             hi == meta.hi
             n == t.events
             x == g(a)
  <2>8. lo \in Int /\ hi \in Int /\ n \in Int
    BY <1>2, <1>5
  <2>9. c \in Int /\ c >= 0
    <3> HIDE DEF g
    <3>1. c \in Nat
      BY <1>7
    <3> HIDE DEF c
    <3> QED
      BY <3>1
  <2>1. c \in Int /\ c >= 0 /\ n \in Int /\ lo \in Int /\ hi \in Int
    BY <2>8, <2>9
  <2>2. f(a) = [x EXCEPT !.conf = Confidence(c, n, lo, hi)]
    OBVIOUS
  <2>3. w.events = before(a) \cup {a} /\ w.at = a.n
    BY DEF Ending
  <2>4. /\ DOMAIN x = SignalFields /\ x.rule = meta.rule /\ x.type = meta.type /\ x.family = meta.family
        /\ x.first = Min(Times(w.events)) /\ x.last = Max(Times(w.events))
        /\ x.ids = {e.id : e \in w.events}
        /\ x.at = w.at /\ x.upto = Max({e.n : e \in w.events})
    BY <2>3 DEF Signal, SignalFields
  <2> HIDE DEF c, n, lo, hi, w, f, g, x
  <2>5. Confidence(c, n, lo, hi) \in Int
    BY <2>1, ConfidenceType
  <2>6. /\ DOMAIN f(a) = DOMAIN x /\ f(a).conf = Confidence(c, n, lo, hi)
        /\ f(a).rule = x.rule /\ f(a).type = x.type /\ f(a).family = x.family /\ f(a).first = x.first
        /\ f(a).last = x.last /\ f(a).ids = x.ids /\ f(a).at = x.at /\ f(a).upto = x.upto
    BY <2>2, <2>4 DEF SignalFields
  <2>7. Tells(f(a), w) /\ f(a).rule = meta.rule /\ f(a).type = meta.type /\ f(a).family = meta.family
    BY <2>4, <2>5, <2>6 DEF Tells
  <2> QED
    BY <2>7 DEF w
<1> HIDE DEF f
<1>10. PICK a \in last, b \in last : s = f(a) /\ r = f(b)
  BY <1>1
<1>11. Ending(a, before(a)) = Ending(b, before(b)) => a = b
  BY DEF Ending
<1>12. Twins(s, r, es, "sequence")
  BY <1>6, <1>9, <1>10, <1>11 DEF Twins
<1>13. Shown(s, es)
  BY <1>5, <1>9, <1>10, NotExposure
<1> QED
  BY <1>5, <1>9, <1>10, <1>12, <1>13

\* The signals of fixed source ports: one for each group.
LEMMA FixedTwins ==
  ASSUME NEW es, EventsOK(es), NEW s \in FixedSourcePortScan(es),
         NEW r \in FixedSourcePortScan(es)
  PROVE  /\ Twins(s, r, es, "group") /\ Shown(s, es)
         /\ s.rule = "network_scan_vertical" /\ s.type = "fixed_source_port_scan"
         /\ \E x : s.key = <<FIXED_SOURCE_PORT, x>>
<1> DEFINE t == Threshold["fixed_source_port_scan"]
           probes == {e \in es : /\ e.src # NoAddr /\ e.dst # NoAddr /\ e.dport # NoPort
                                 /\ e.sport \in FixedPorts
                                 /\ IsInitialProbe(e) /\ "wan" \in e.inz}
           group(e) == {f \in probes : f.src = e.src /\ f.sport = e.sport}
           severity(W) ==
             IF ~\E e \in W : IsAllowed(e)
             THEN IF Cardinality(W) < 10 THEN "low" ELSE "medium"
             ELSE IF \E p \in DPorts(W) : SensitiveService(p) # "none" THEN "high"
                  ELSE "medium"
           meta(W) == Meta("network_scan_vertical", "fixed_source_port_scan",
                           "network_scanning", severity(W), 600, 900)
           N(e) == {f.n : f \in group(e)}
           top(e) == CHOOSE f \in group(e) : f.n = Max(N(e))
           w(e) == [last |-> top(e), events |-> group(e), at |-> Min(N(e))]
           f(e) == Signal(meta(group(e)), Cardinality(group(e)), t.events, group(e), e.src,
                          Dsts(group(e)), <<FIXED_SOURCE_PORT, e.sport>>, FirstOf(group(e), 3),
                          Min(N(e)))
           D == {g \in probes : /\ Span(group(g)) <= t.window
                                 /\ Cardinality(group(g)) >= t.events
                                 /\ AtMost(t.ports, DPorts(group(g)))}
<1>1. FixedSourcePortScan(es) = {f(e) : e \in D}
  BY DEF FixedSourcePortScan
<1>2. t.window \in Nat /\ t.events \in Int
  BY SettledRules
<1>3. \A W : /\ meta(W).rule = "network_scan_vertical"
             /\ meta(W).type = "fixed_source_port_scan"
             /\ meta(W).lo \in Int /\ meta(W).hi \in Int
             /\ meta(W).family = "network_scanning"
  BY DEF Meta
<1>4. \A e \in D : e \in probes /\ e \in group(e)
  OBVIOUS
<1>5. \A e : /\ group(e) \in SUBSET es
              /\ \A d : group(e) \cap group(d) # {} => group(e) = group(d) /\ e.src = d.src /\ e.sport = d.sport
  OBVIOUS
<1>6. \A e : f(e).key = <<FIXED_SOURCE_PORT, e.sport>>
  BY DEF Signal
<1> HIDE DEF D, probes, group, t, meta
<1>7. ASSUME NEW e \in D
      PROVE  /\ top(e) \in group(e) /\ \A g \in group(e) : g.n <= top(e).n
             /\ \E g \in group(e) : g.n = Min(N(e))
             /\ Min(N(e)) \in Int
  <2>1. IsFiniteSet(group(e)) /\ group(e) # {} /\ \A y \in group(e) : y.t \in Int /\ y.n \in Int
    BY <1>4, <1>5, FS_Subset DEF EventsOK
  <2>2. IsFiniteSet(N(e)) /\ N(e) # {} /\ N(e) \in SUBSET Int
    BY <2>1, FieldsFinite
  <2> DEFINE K == N(e)
  <2>3. /\ K \in SUBSET Int /\ Min(K) \in K /\ Max(K) \in K /\ \A k \in K : k <= Max(K)
    <3> HIDE DEF K
    <3>1. IsFiniteSet(K) /\ K # {} /\ K \in SUBSET Int
      BY <2>2 DEF K
    <3> QED
      BY <3>1, MinMax
  <2>4. PICK g \in group(e) : g.n = Max(K)
    BY <2>3
  <2>5. top(e) \in group(e) /\ top(e).n = Max(K)
    BY <2>4
  <2> QED
    BY <2>3, <2>5
<1> HIDE DEF top
<1>8. \A e \in D : WindowOK(w(e), es)
  BY <1>5, <1>7 DEF WindowOK
<1>9. ASSUME NEW e \in D, NEW d \in D
      PROVE  /\ group(e) = group(d) => w(e) = w(d) /\ f(e) = f(d)
             /\ group(e) # group(d) => /\ group(e) \cap group(d) = {}
                                       /\ Min(N(e)) # Min(N(d)) /\ top(e) # top(d)
  <2>1. ASSUME group(e) = group(d) PROVE w(e) = w(d) /\ f(e) = f(d)
    <3>1. e.src = d.src /\ e.sport = d.sport
      BY <1>4, <1>5, <2>1
    <3>2. N(e) = N(d)
      BY <2>1
    <3>3. top(e) = top(d)
      BY <2>1, <3>2 DEF top
    <3> QED
      BY <2>1, <3>1, <3>2, <3>3
  <2>2. ASSUME group(e) # group(d)
        PROVE  /\ group(e) \cap group(d) = {}
               /\ Min(N(e)) # Min(N(d)) /\ top(e) # top(d)
    <3>1. group(e) \cap group(d) = {}
      BY <1>5, <2>2
    <3>2. PICK x \in group(e) : x.n = Min(N(e))
      BY <1>7
    <3>3. PICK y \in group(d) : y.n = Min(N(d))
      BY <1>7
    <3>4. x \in es /\ y \in es /\ x # y
      BY <1>5, <3>1
    <3>5. x.n # y.n
      BY <3>4 DEF EventsOK
    <3> QED
      BY <1>7, <3>1, <3>2, <3>3, <3>5
  <2> QED
    BY <2>1, <2>2
<1>10. \A e \in D : \A d \in D : Compatible(w(e), w(d), "group")
  <2> SUFFICES ASSUME NEW e \in D, NEW d \in D PROVE Compatible(w(e), w(d), "group")
    OBVIOUS
  <2>1. CASE group(e) = group(d)
    BY <1>9, <2>1 DEF Compatible
  <2>2. CASE group(e) # group(d)
    BY <1>9, <2>2 DEF Compatible
  <2> QED
    BY <2>1, <2>2
<1>11. ASSUME NEW e \in D
       PROVE  /\ Tells(f(e), w(e)) /\ f(e).rule = "network_scan_vertical"
              /\ f(e).type = "fixed_source_port_scan"
              /\ f(e).family = "network_scanning"
  <2> DEFINE v == w(e)
             key == <<FIXED_SOURCE_PORT, e.sport>>
             evidence == FirstOf(group(e), 3)
             m == meta(group(e))
             n == t.events
  <2>1. /\ f(e) = Signal(m, Cardinality(v.events), n, v.events, e.src, Dsts(group(e)), key,
                         evidence, v.at)
        /\ WindowOK(v, es) /\ n \in Int
    BY <1>2, <1>8
  <2>2. /\ m.rule = "network_scan_vertical" /\ m.type = "fixed_source_port_scan"
        /\ m.family = "network_scanning"
        /\ m.lo \in Int /\ m.hi \in Int
    BY <1>3
  <2> HIDE DEF v, key, evidence, m, n, f
  <2>3. Tells(f(e), v) /\ f(e).rule = m.rule /\ f(e).type = m.type /\ f(e).family = m.family
    BY <2>1, <2>2, SignalTells
  <2> QED
    BY <2>2, <2>3 DEF v
<1>12. PICK e \in D, d \in D : s = f(e) /\ r = f(d)
  BY <1>1
<1>13. w(e) = w(d) => group(e) = group(d)
  OBVIOUS
<1> HIDE DEF w, f
<1>14. Twins(s, r, es, "group")
  BY <1>8, <1>9, <1>10, <1>11, <1>12, <1>13 DEF Twins
<1>15. s.family \notin CROSS_PRIMARY /\ s.type \notin EXPOSURE_TYPES
  BY <1>11, <1>12 DEF CROSS_PRIMARY, EXPOSURE_TYPES
<1>16. Shown(s, es)
  BY <1>15, NotExposure
<1> QED
  BY <1>6, <1>11, <1>12, <1>14, <1>16

-----------------------------------------------------------------------------
(***************************************************************************)
(* Everything the rules emit.                                              *)
(***************************************************************************)

\* The types of signal; the rule a signal of a type names, the registered rule
\* that emits it, and how its windows are made.
TYPES == Range(PRECEDENCE) \cup Range(FALLBACK)

\* The rule id of a type of signal, and the registered rule that emits it.
RuleOf(type) ==
    IF type = "horizontal_scan" THEN "network_scan_horizontal"
    ELSE IF type \in {"vertical_scan", "fixed_source_port_scan"} THEN "network_scan_vertical"
    ELSE IF type = "network_flood" THEN "network_flood_dos"
    ELSE IF type = "spi_anomaly" THEN "spi_anomaly_burst" ELSE type

Registry(type) ==
    IF type \in {"rdp_probe", "ssh_probe"} THEN "remote_service_probe"
    ELSE IF type \in DATABASES THEN "database_service_probe"
    ELSE IF type \in {"kubernetes_api_probe", "kubelet_probe"} THEN "kubernetes_service_probe"
    ELSE IF type \in CLEARTEXT THEN "legacy_cleartext_service_probe" ELSE RuleOf(type)

Kind(type) ==
    IF type = "fixed_source_port_scan" THEN "group"
    ELSE IF type \in {"scan_followed_by_allowed_connection",
                      "spi_followed_by_allowed_connection",
                      "blocked_then_allowed_same_service"} THEN "sequence" ELSE "window"

\* A signal names the rule of its type.
Registered(s) ==
    /\ s.type \in TYPES /\ s.rule = RuleOf(s.type)
    /\ s.type = "vertical_scan" => DOMAIN s.key = 1 .. 3
    /\ s.type = "fixed_source_port_scan" => \E x : s.key = <<FIXED_SOURCE_PORT, x>>

\* Signals of one type are told by windows that fit together.
Emission(E, es) ==
    \A s, r \in E : /\ Registered(s) /\ Shown(s, es)
                    /\ (s.type = r.type => Twins(s, r, es, Kind(s.type)))

\* The two lists that rank types and families.
LEMMA Names ==
  /\ DOMAIN PRECEDENCE = 1 .. 36 /\ DOMAIN FALLBACK = 1 .. 10
  /\ Len(PRECEDENCE) = 36 /\ Len(FALLBACK) = 10
BY DEF PRECEDENCE, FALLBACK

\* Every type is one of these.
LEMMA Named ==
  /\ {"scan_followed_by_allowed_connection",
      "blocked_then_allowed_same_service",
      "spi_followed_by_allowed_connection",
      "critical_management_service_exposed",
      "dnat_sensitive_service_exposure",
      "wan_to_lan_sensitive_service_allowed",
      "multi_source_allowed_sensitive_service",
      "wan_to_dmz_administrative_service_allowed",
      "inbound_sensitive_service_allowed", "rdp_probe", "ssh_probe",
      "smb_probe", "vnc_probe", "winrm_probe", "mssql_probe", "oracle_probe",
      "mysql_probe", "postgresql_probe", "redis_probe", "elasticsearch_probe",
      "mongodb_probe", "docker_daemon_probe", "kubernetes_api_probe",
      "kubelet_probe", "telnet_probe", "ftp_probe", "web_admin_panel_probe",
      "low_and_slow_horizontal_scan", "low_and_slow_vertical_scan",
      "internal_lateral_scan", "subnet_sweep", "distributed_scan",
      "multi_service_sweep", "horizontal_scan", "vertical_scan",
      "repeated_blocked_scanner"} \subseteq TYPES
  /\ {"network_flood", "fixed_source_port_scan", "repeated_tcp_reset_anomaly",
      "spi_anomaly", "tcp_ack_scan", "tcp_fin_scan", "tcp_null_scan",
      "tcp_syn_fin_anomaly", "tcp_syn_rst_anomaly", "tcp_xmas_scan"} \subseteq TYPES
<1>1. /\ PRECEDENCE[1] = "scan_followed_by_allowed_connection"
      /\ PRECEDENCE[2] = "blocked_then_allowed_same_service"
      /\ PRECEDENCE[3] = "spi_followed_by_allowed_connection"
      /\ PRECEDENCE[4] = "critical_management_service_exposed"
      /\ PRECEDENCE[5] = "dnat_sensitive_service_exposure"
      /\ PRECEDENCE[6] = "wan_to_lan_sensitive_service_allowed"
      /\ PRECEDENCE[7] = "multi_source_allowed_sensitive_service"
      /\ PRECEDENCE[8] = "wan_to_dmz_administrative_service_allowed"
      /\ PRECEDENCE[9] = "inbound_sensitive_service_allowed"
      /\ PRECEDENCE[10] = "rdp_probe"
      /\ PRECEDENCE[11] = "ssh_probe"
      /\ PRECEDENCE[12] = "smb_probe"
      /\ PRECEDENCE[13] = "vnc_probe"
      /\ PRECEDENCE[14] = "winrm_probe"
      /\ PRECEDENCE[15] = "mssql_probe"
      /\ PRECEDENCE[16] = "oracle_probe"
      /\ PRECEDENCE[17] = "mysql_probe"
      /\ PRECEDENCE[18] = "postgresql_probe"
      /\ PRECEDENCE[19] = "redis_probe"
      /\ PRECEDENCE[20] = "elasticsearch_probe"
      /\ PRECEDENCE[21] = "mongodb_probe"
      /\ PRECEDENCE[22] = "docker_daemon_probe"
      /\ PRECEDENCE[23] = "kubernetes_api_probe"
      /\ PRECEDENCE[24] = "kubelet_probe"
      /\ PRECEDENCE[25] = "telnet_probe"
      /\ PRECEDENCE[26] = "ftp_probe"
      /\ PRECEDENCE[27] = "web_admin_panel_probe"
      /\ PRECEDENCE[28] = "low_and_slow_horizontal_scan"
      /\ PRECEDENCE[29] = "low_and_slow_vertical_scan"
      /\ PRECEDENCE[30] = "internal_lateral_scan"
      /\ PRECEDENCE[31] = "subnet_sweep"
      /\ PRECEDENCE[32] = "distributed_scan"
      /\ PRECEDENCE[33] = "multi_service_sweep"
      /\ PRECEDENCE[34] = "horizontal_scan"
      /\ PRECEDENCE[35] = "vertical_scan"
      /\ PRECEDENCE[36] = "repeated_blocked_scanner"
  BY DEF PRECEDENCE
<1>2. /\ FALLBACK[1] = "network_flood"
      /\ FALLBACK[2] = "fixed_source_port_scan"
      /\ FALLBACK[3] = "repeated_tcp_reset_anomaly"
      /\ FALLBACK[4] = "spi_anomaly"
      /\ FALLBACK[5] = "tcp_ack_scan"
      /\ FALLBACK[6] = "tcp_fin_scan"
      /\ FALLBACK[7] = "tcp_null_scan"
      /\ FALLBACK[8] = "tcp_syn_fin_anomaly"
      /\ FALLBACK[9] = "tcp_syn_rst_anomaly"
      /\ FALLBACK[10] = "tcp_xmas_scan"
  BY DEF FALLBACK
<1>3. /\ \A i \in 1 .. 36 : PRECEDENCE[i] \in TYPES
      /\ \A i \in 1 .. 10 : FALLBACK[i] \in TYPES
  BY Names DEF TYPES, Range
<1> QED
  BY <1>1, <1>2, <1>3

\* There are finitely many types.
LEMMA TypesFinite == IsFiniteSet(TYPES)
<1>1. IsFiniteSet(1 .. 36) /\ IsFiniteSet(1 .. 10)
  <2>1. \A n \in Int : IsFiniteSet(1 .. n)
    BY FS_Interval
  <2> DEFINE m == 36
             k == 10
  <2>2. m \in Int /\ k \in Int
    OBVIOUS
  <2>3. IsFiniteSet(1 .. m) /\ IsFiniteSet(1 .. k)
    <3> HIDE DEF m, k
    <3> QED
      BY <2>1, <2>2
  <2> QED
    BY <2>3
<1>2. IsFiniteSet({PRECEDENCE[i] : i \in 1 .. 36}) /\ IsFiniteSet({FALLBACK[i] : i \in 1 .. 10})
  BY <1>1, FiniteImage
<1>3. Range(PRECEDENCE) = {PRECEDENCE[i] : i \in 1 .. 36} /\ Range(FALLBACK) = {FALLBACK[i] : i \in 1 .. 10}
  BY Names DEF Range
<1> QED
  BY <1>2, <1>3, FS_Union DEF TYPES

\* Ranks tell types apart.
LEMMA Positions ==
  /\ \A x \in TYPES : Position(x, PRECEDENCE) \in Int /\ Position(x, FALLBACK) \in Int
  /\ \A x, y \in TYPES :
        Position(x, PRECEDENCE) = Position(y, PRECEDENCE)
            /\ Position(x, FALLBACK) = Position(y, FALLBACK) => x = y
<1>1. \A x : IF x \in Range(PRECEDENCE)
             THEN Position(x, PRECEDENCE) \in 1 .. 36 /\ PRECEDENCE[Position(x, PRECEDENCE)] = x
             ELSE Position(x, PRECEDENCE) = 37
  BY Names DEF Position, Range
<1>2. \A x : IF x \in Range(FALLBACK)
             THEN Position(x, FALLBACK) \in 1 .. 10 /\ FALLBACK[Position(x, FALLBACK)] = x
             ELSE Position(x, FALLBACK) = 11
  BY Names DEF Position, Range
<1>3. ASSUME NEW x \in TYPES, NEW y \in TYPES,
             Position(x, PRECEDENCE) = Position(y, PRECEDENCE),
             Position(x, FALLBACK) = Position(y, FALLBACK)
      PROVE  x = y
  <2>1. CASE x \in Range(PRECEDENCE)
    <3>1. y \in Range(PRECEDENCE)
      BY <1>1, <1>3, <2>1
    <3> QED
      BY <1>1, <1>3, <2>1, <3>1
  <2>2. CASE x \notin Range(PRECEDENCE)
    <3>1. y \notin Range(PRECEDENCE)
      BY <1>1, <1>3, <2>2
    <3>2. x \in Range(FALLBACK) /\ y \in Range(FALLBACK)
      BY <2>2, <3>1 DEF TYPES
    <3> QED
      BY <1>2, <1>3, <3>2
  <2> QED
    BY <2>1, <2>2
<1>4. \A x : Position(x, PRECEDENCE) \in Int /\ Position(x, FALLBACK) \in Int
  BY <1>1, <1>2
<1> QED
  BY <1>3, <1>4

\* A signal of several profiles is of one of them.
LEMMA ProfiledMember ==
  ASSUME NEW es, NEW profiles, NEW s \in ProfiledProbes(es, profiles)
  PROVE  \E p \in profiles : s \in ProfiledProbes(es, {p})
BY DEF ProfiledProbes

\* What is shown of each rule.
Sound(S, rule, es) ==
    \A s, r \in S : /\ Registered(s) /\ Registry(s.type) = rule
                    /\ (s.type = r.type => Twins(s, r, es, Kind(s.type)))
                    /\ Shown(s, es)

\* Rules with one type of signal, over a sliding window.
LEMMA OneType ==
  ASSUME NEW es, NEW S, NEW rule, NEW type \in TYPES, RuleOf(type) = rule, Registry(type) = rule,
         Kind(type) = "window", type # "vertical_scan",
         \A s \in S : \A r \in S : Twins(s, r, es, "window") /\ s.rule = rule /\ s.type = type
                                  /\ Shown(s, es)
  PROVE  Sound(S, rule, es)
<1>1. type # "fixed_source_port_scan"
  BY DEF Kind
<1> QED
  BY <1>1 DEF Sound, Registered

\* The registered rules one by one: those on TCP flags,
LEMMA FlagPatterns ==
  ASSUME NEW es, EventsOK(es)
  PROVE  /\ Sound(TcpNullScan(es), "tcp_null_scan", es)
         /\ Sound(TcpXmasScan(es), "tcp_xmas_scan", es)
         /\ Sound(TcpFinScan(es), "tcp_fin_scan", es)
         /\ Sound(TcpAckScan(es), "tcp_ack_scan", es)
         /\ Sound(TcpSynFinAnomaly(es), "tcp_syn_fin_anomaly", es)
         /\ Sound(TcpSynRstAnomaly(es), "tcp_syn_rst_anomaly", es)
         /\ Sound(RepeatedTcpResetAnomaly(es), "repeated_tcp_reset_anomaly", es)
<1>1. Sound(TcpNullScan(es), "tcp_null_scan", es)
  <2> DEFINE A == {e \in es : e.null}
             th == Threshold["tcp_flag_scan"]
             rule == "tcp_null_scan"
             family == "network_scanning"
             sev == "medium"
  <2>1. A \in SUBSET es /\ th.window \in Nat /\ th.events \in Int
    BY SettledRules
  <2>2. TcpNullScan(es) = FlagPattern(A, rule, family, sev, th)
    BY DEF TcpNullScan
  <2>3. rule \in TYPES /\ RuleOf(rule) = rule /\ Registry(rule) = rule /\ Kind(rule) = "window"
        /\ rule # "vertical_scan" /\ family \notin CROSS_PRIMARY /\ rule \notin EXPOSURE_TYPES
    BY Named DEF RuleOf, Registry, Kind, DATABASES, CLEARTEXT, CROSS_PRIMARY, EXPOSURE_TYPES
  <2> HIDE DEF A, th, rule, family, sev
  <2>4. \A s \in TcpNullScan(es) : \A r \in TcpNullScan(es) :
           Twins(s, r, es, "window") /\ s.rule = rule /\ s.type = rule /\ Shown(s, es)
    BY <2>1, <2>2, <2>3, FlagTwins
  <2>5. Sound(TcpNullScan(es), rule, es)
    BY <2>3, <2>4, OneType
  <2> QED
    BY <2>5 DEF rule
<1>2. Sound(TcpXmasScan(es), "tcp_xmas_scan", es)
  <2> DEFINE A == {e \in es : e.flags = {"FIN", "PSH", "URG"}}
             th == Threshold["tcp_flag_scan"]
             rule == "tcp_xmas_scan"
             family == "network_scanning"
             sev == "medium"
  <2>1. A \in SUBSET es /\ th.window \in Nat /\ th.events \in Int
    BY SettledRules
  <2>2. TcpXmasScan(es) = FlagPattern(A, rule, family, sev, th)
    BY DEF TcpXmasScan
  <2>3. rule \in TYPES /\ RuleOf(rule) = rule /\ Registry(rule) = rule /\ Kind(rule) = "window"
        /\ rule # "vertical_scan" /\ family \notin CROSS_PRIMARY /\ rule \notin EXPOSURE_TYPES
    BY Named DEF RuleOf, Registry, Kind, DATABASES, CLEARTEXT, CROSS_PRIMARY, EXPOSURE_TYPES
  <2> HIDE DEF A, th, rule, family, sev
  <2>4. \A s \in TcpXmasScan(es) : \A r \in TcpXmasScan(es) :
           Twins(s, r, es, "window") /\ s.rule = rule /\ s.type = rule /\ Shown(s, es)
    BY <2>1, <2>2, <2>3, FlagTwins
  <2>5. Sound(TcpXmasScan(es), rule, es)
    BY <2>3, <2>4, OneType
  <2> QED
    BY <2>5 DEF rule
<1>3. Sound(TcpFinScan(es), "tcp_fin_scan", es)
  <2> DEFINE A == {e \in es : e.flags = {"FIN"}}
             th == Threshold["tcp_flag_scan"]
             rule == "tcp_fin_scan"
             family == "network_scanning"
             sev == "medium"
  <2>1. A \in SUBSET es /\ th.window \in Nat /\ th.events \in Int
    BY SettledRules
  <2>2. TcpFinScan(es) = FlagPattern(A, rule, family, sev, th)
    BY DEF TcpFinScan
  <2>3. rule \in TYPES /\ RuleOf(rule) = rule /\ Registry(rule) = rule /\ Kind(rule) = "window"
        /\ rule # "vertical_scan" /\ family \notin CROSS_PRIMARY /\ rule \notin EXPOSURE_TYPES
    BY Named DEF RuleOf, Registry, Kind, DATABASES, CLEARTEXT, CROSS_PRIMARY, EXPOSURE_TYPES
  <2> HIDE DEF A, th, rule, family, sev
  <2>4. \A s \in TcpFinScan(es) : \A r \in TcpFinScan(es) :
           Twins(s, r, es, "window") /\ s.rule = rule /\ s.type = rule /\ Shown(s, es)
    BY <2>1, <2>2, <2>3, FlagTwins
  <2>5. Sound(TcpFinScan(es), rule, es)
    BY <2>3, <2>4, OneType
  <2> QED
    BY <2>5 DEF rule
<1>4. Sound(TcpAckScan(es), "tcp_ack_scan", es)
  <2> DEFINE A == {e \in es : e.flags = {"ACK"}}
             th == Threshold["tcp_ack_scan"]
             rule == "tcp_ack_scan"
             family == "network_scanning"
             sev == "medium"
  <2>1. A \in SUBSET es /\ th.window \in Nat /\ th.events \in Int
    BY SettledRules
  <2>2. TcpAckScan(es) = FlagPattern(A, rule, family, sev, th)
    BY DEF TcpAckScan
  <2>3. rule \in TYPES /\ RuleOf(rule) = rule /\ Registry(rule) = rule /\ Kind(rule) = "window"
        /\ rule # "vertical_scan" /\ family \notin CROSS_PRIMARY /\ rule \notin EXPOSURE_TYPES
    BY Named DEF RuleOf, Registry, Kind, DATABASES, CLEARTEXT, CROSS_PRIMARY, EXPOSURE_TYPES
  <2> HIDE DEF A, th, rule, family, sev
  <2>4. \A s \in TcpAckScan(es) : \A r \in TcpAckScan(es) :
           Twins(s, r, es, "window") /\ s.rule = rule /\ s.type = rule /\ Shown(s, es)
    BY <2>1, <2>2, <2>3, FlagTwins
  <2>5. Sound(TcpAckScan(es), rule, es)
    BY <2>3, <2>4, OneType
  <2> QED
    BY <2>5 DEF rule
<1>5. Sound(TcpSynFinAnomaly(es), "tcp_syn_fin_anomaly", es)
  <2> DEFINE A == {e \in es : {"SYN", "FIN"} \subseteq e.flags}
             th == Threshold["tcp_invalid"]
             rule == "tcp_syn_fin_anomaly"
             family == "network_anomaly"
             sev == "high"
  <2>1. A \in SUBSET es /\ th.window \in Nat /\ th.events \in Int
    BY SettledRules
  <2>2. TcpSynFinAnomaly(es) = FlagPattern(A, rule, family, sev, th)
    BY DEF TcpSynFinAnomaly
  <2>3. rule \in TYPES /\ RuleOf(rule) = rule /\ Registry(rule) = rule /\ Kind(rule) = "window"
        /\ rule # "vertical_scan" /\ family \notin CROSS_PRIMARY /\ rule \notin EXPOSURE_TYPES
    BY Named DEF RuleOf, Registry, Kind, DATABASES, CLEARTEXT, CROSS_PRIMARY, EXPOSURE_TYPES
  <2> HIDE DEF A, th, rule, family, sev
  <2>4. \A s \in TcpSynFinAnomaly(es) : \A r \in TcpSynFinAnomaly(es) :
           Twins(s, r, es, "window") /\ s.rule = rule /\ s.type = rule /\ Shown(s, es)
    BY <2>1, <2>2, <2>3, FlagTwins
  <2>5. Sound(TcpSynFinAnomaly(es), rule, es)
    BY <2>3, <2>4, OneType
  <2> QED
    BY <2>5 DEF rule
<1>6. Sound(TcpSynRstAnomaly(es), "tcp_syn_rst_anomaly", es)
  <2> DEFINE A == {e \in es : {"SYN", "RST"} \subseteq e.flags}
             th == Threshold["tcp_invalid"]
             rule == "tcp_syn_rst_anomaly"
             family == "network_anomaly"
             sev == "medium"
  <2>1. A \in SUBSET es /\ th.window \in Nat /\ th.events \in Int
    BY SettledRules
  <2>2. TcpSynRstAnomaly(es) = FlagPattern(A, rule, family, sev, th)
    BY DEF TcpSynRstAnomaly
  <2>3. rule \in TYPES /\ RuleOf(rule) = rule /\ Registry(rule) = rule /\ Kind(rule) = "window"
        /\ rule # "vertical_scan" /\ family \notin CROSS_PRIMARY /\ rule \notin EXPOSURE_TYPES
    BY Named DEF RuleOf, Registry, Kind, DATABASES, CLEARTEXT, CROSS_PRIMARY, EXPOSURE_TYPES
  <2> HIDE DEF A, th, rule, family, sev
  <2>4. \A s \in TcpSynRstAnomaly(es) : \A r \in TcpSynRstAnomaly(es) :
           Twins(s, r, es, "window") /\ s.rule = rule /\ s.type = rule /\ Shown(s, es)
    BY <2>1, <2>2, <2>3, FlagTwins
  <2>5. Sound(TcpSynRstAnomaly(es), rule, es)
    BY <2>3, <2>4, OneType
  <2> QED
    BY <2>5 DEF rule
<1>7. Sound(RepeatedTcpResetAnomaly(es), "repeated_tcp_reset_anomaly", es)
  <2> DEFINE A == {e \in es : "RST" \in e.flags /\ "SYN" \notin e.flags}
             th == Threshold["tcp_reset"]
             rule == "repeated_tcp_reset_anomaly"
             family == "network_anomaly"
             sev == "medium"
  <2>1. A \in SUBSET es /\ th.window \in Nat /\ th.events \in Int
    BY SettledRules
  <2>2. RepeatedTcpResetAnomaly(es) = FlagPattern(A, rule, family, sev, th)
    BY DEF RepeatedTcpResetAnomaly
  <2>3. rule \in TYPES /\ RuleOf(rule) = rule /\ Registry(rule) = rule /\ Kind(rule) = "window"
        /\ rule # "vertical_scan" /\ family \notin CROSS_PRIMARY /\ rule \notin EXPOSURE_TYPES
    BY Named DEF RuleOf, Registry, Kind, DATABASES, CLEARTEXT, CROSS_PRIMARY, EXPOSURE_TYPES
  <2> HIDE DEF A, th, rule, family, sev
  <2>4. \A s \in RepeatedTcpResetAnomaly(es) : \A r \in RepeatedTcpResetAnomaly(es) :
           Twins(s, r, es, "window") /\ s.rule = rule /\ s.type = rule /\ Shown(s, es)
    BY <2>1, <2>2, <2>3, FlagTwins
  <2>5. Sound(RepeatedTcpResetAnomaly(es), rule, es)
    BY <2>3, <2>4, OneType
  <2> QED
    BY <2>5 DEF rule
<1> QED
  BY <1>1, <1>2, <1>3, <1>4, <1>5, <1>6, <1>7

\* those with a sliding window,
LEMMA SlidingRules ==
  ASSUME NEW es, EventsOK(es)
  PROVE  /\ Sound(CriticalManagementExposed(es), "critical_management_service_exposed", es)
         /\ Sound(DnatSensitiveExposure(es), "dnat_sensitive_service_exposure", es)
         /\ Sound(WanToLanAllowed(es), "wan_to_lan_sensitive_service_allowed", es)
         /\ Sound(MultiSourceAllowed(es), "multi_source_allowed_sensitive_service", es)
         /\ Sound(WanToDmzAllowed(es), "wan_to_dmz_administrative_service_allowed", es)
         /\ Sound(InboundSensitive(es), "inbound_sensitive_service_allowed", es)
         /\ Sound(InternalLateralScan(es), "internal_lateral_scan", es)
         /\ Sound(DistributedScan(es), "distributed_scan", es)
         /\ Sound(MultiServiceSweep(es), "multi_service_sweep", es)
         /\ Sound(SubnetSweep(es), "subnet_sweep", es)
         /\ Sound(HorizontalScan(es), "network_scan_horizontal", es)
         /\ Sound(NetworkFlood(es), "network_flood_dos", es)
         /\ Sound(SpiAnomalyBurst(es), "spi_anomaly_burst", es)
         /\ Sound(RepeatedBlockedScanner(es), "repeated_blocked_scanner", es)
         /\ Sound(LowAndSlowHorizontalScan(es), "low_and_slow_horizontal_scan", es)
         /\ Sound(LowAndSlowVerticalScan(es), "low_and_slow_vertical_scan", es)
<1>1. Sound(CriticalManagementExposed(es), "critical_management_service_exposed", es)
  <2> DEFINE rule == "critical_management_service_exposed"
             type == "critical_management_service_exposed"
  <2>1. type \in TYPES /\ RuleOf(type) = rule /\ Registry(type) = rule /\ Kind(type) = "window"
        /\ type # "vertical_scan"
    BY Named DEF RuleOf, Registry, Kind, DATABASES, CLEARTEXT
  <2>2. \A s \in CriticalManagementExposed(es) : \A r \in CriticalManagementExposed(es) :
           Twins(s, r, es, "window") /\ s.rule = rule /\ s.type = type /\ Shown(s, es)
    BY CriticalTwins
  <2> HIDE DEF rule, type
  <2>3. Sound(CriticalManagementExposed(es), rule, es)
    BY <2>1, <2>2, OneType
  <2> QED
    BY <2>3 DEF rule
<1>2. Sound(DnatSensitiveExposure(es), "dnat_sensitive_service_exposure", es)
  <2> DEFINE rule == "dnat_sensitive_service_exposure"
             type == "dnat_sensitive_service_exposure"
  <2>1. type \in TYPES /\ RuleOf(type) = rule /\ Registry(type) = rule /\ Kind(type) = "window"
        /\ type # "vertical_scan"
    BY Named DEF RuleOf, Registry, Kind, DATABASES, CLEARTEXT
  <2>2. \A s \in DnatSensitiveExposure(es) : \A r \in DnatSensitiveExposure(es) :
           Twins(s, r, es, "window") /\ s.rule = rule /\ s.type = type /\ Shown(s, es)
    BY DnatTwins
  <2> HIDE DEF rule, type
  <2>3. Sound(DnatSensitiveExposure(es), rule, es)
    BY <2>1, <2>2, OneType
  <2> QED
    BY <2>3 DEF rule
<1>3. Sound(WanToLanAllowed(es), "wan_to_lan_sensitive_service_allowed", es)
  <2> DEFINE rule == "wan_to_lan_sensitive_service_allowed"
             type == "wan_to_lan_sensitive_service_allowed"
  <2>1. type \in TYPES /\ RuleOf(type) = rule /\ Registry(type) = rule /\ Kind(type) = "window"
        /\ type # "vertical_scan"
    BY Named DEF RuleOf, Registry, Kind, DATABASES, CLEARTEXT
  <2>2. \A s \in WanToLanAllowed(es) : \A r \in WanToLanAllowed(es) :
           Twins(s, r, es, "window") /\ s.rule = rule /\ s.type = type /\ Shown(s, es)
    BY LanTwins
  <2> HIDE DEF rule, type
  <2>3. Sound(WanToLanAllowed(es), rule, es)
    BY <2>1, <2>2, OneType
  <2> QED
    BY <2>3 DEF rule
<1>4. Sound(MultiSourceAllowed(es), "multi_source_allowed_sensitive_service", es)
  <2> DEFINE rule == "multi_source_allowed_sensitive_service"
             type == "multi_source_allowed_sensitive_service"
  <2>1. type \in TYPES /\ RuleOf(type) = rule /\ Registry(type) = rule /\ Kind(type) = "window"
        /\ type # "vertical_scan"
    BY Named DEF RuleOf, Registry, Kind, DATABASES, CLEARTEXT
  <2>2. \A s \in MultiSourceAllowed(es) : \A r \in MultiSourceAllowed(es) :
           Twins(s, r, es, "window") /\ s.rule = rule /\ s.type = type /\ Shown(s, es)
    BY SourcesTwins
  <2> HIDE DEF rule, type
  <2>3. Sound(MultiSourceAllowed(es), rule, es)
    BY <2>1, <2>2, OneType
  <2> QED
    BY <2>3 DEF rule
<1>5. Sound(WanToDmzAllowed(es), "wan_to_dmz_administrative_service_allowed", es)
  <2> DEFINE rule == "wan_to_dmz_administrative_service_allowed"
             type == "wan_to_dmz_administrative_service_allowed"
  <2>1. type \in TYPES /\ RuleOf(type) = rule /\ Registry(type) = rule /\ Kind(type) = "window"
        /\ type # "vertical_scan"
    BY Named DEF RuleOf, Registry, Kind, DATABASES, CLEARTEXT
  <2>2. \A s \in WanToDmzAllowed(es) : \A r \in WanToDmzAllowed(es) :
           Twins(s, r, es, "window") /\ s.rule = rule /\ s.type = type /\ Shown(s, es)
    BY DmzTwins
  <2> HIDE DEF rule, type
  <2>3. Sound(WanToDmzAllowed(es), rule, es)
    BY <2>1, <2>2, OneType
  <2> QED
    BY <2>3 DEF rule
<1>6. Sound(InboundSensitive(es), "inbound_sensitive_service_allowed", es)
  <2> DEFINE rule == "inbound_sensitive_service_allowed"
             type == "inbound_sensitive_service_allowed"
  <2>1. type \in TYPES /\ RuleOf(type) = rule /\ Registry(type) = rule /\ Kind(type) = "window"
        /\ type # "vertical_scan"
    BY Named DEF RuleOf, Registry, Kind, DATABASES, CLEARTEXT
  <2>2. \A s \in InboundSensitive(es) : \A r \in InboundSensitive(es) :
           Twins(s, r, es, "window") /\ s.rule = rule /\ s.type = type /\ Shown(s, es)
    BY InboundTwins
  <2> HIDE DEF rule, type
  <2>3. Sound(InboundSensitive(es), rule, es)
    BY <2>1, <2>2, OneType
  <2> QED
    BY <2>3 DEF rule
<1>7. Sound(InternalLateralScan(es), "internal_lateral_scan", es)
  <2> DEFINE rule == "internal_lateral_scan"
             type == "internal_lateral_scan"
  <2>1. type \in TYPES /\ RuleOf(type) = rule /\ Registry(type) = rule /\ Kind(type) = "window"
        /\ type # "vertical_scan"
    BY Named DEF RuleOf, Registry, Kind, DATABASES, CLEARTEXT
  <2>2. \A s \in InternalLateralScan(es) : \A r \in InternalLateralScan(es) :
           Twins(s, r, es, "window") /\ s.rule = rule /\ s.type = type /\ Shown(s, es)
    BY LateralTwins
  <2> HIDE DEF rule, type
  <2>3. Sound(InternalLateralScan(es), rule, es)
    BY <2>1, <2>2, OneType
  <2> QED
    BY <2>3 DEF rule
<1>8. Sound(DistributedScan(es), "distributed_scan", es)
  <2> DEFINE rule == "distributed_scan"
             type == "distributed_scan"
  <2>1. type \in TYPES /\ RuleOf(type) = rule /\ Registry(type) = rule /\ Kind(type) = "window"
        /\ type # "vertical_scan"
    BY Named DEF RuleOf, Registry, Kind, DATABASES, CLEARTEXT
  <2>2. \A s \in DistributedScan(es) : \A r \in DistributedScan(es) :
           Twins(s, r, es, "window") /\ s.rule = rule /\ s.type = type /\ Shown(s, es)
    BY DistributedTwins
  <2> HIDE DEF rule, type
  <2>3. Sound(DistributedScan(es), rule, es)
    BY <2>1, <2>2, OneType
  <2> QED
    BY <2>3 DEF rule
<1>9. Sound(MultiServiceSweep(es), "multi_service_sweep", es)
  <2> DEFINE rule == "multi_service_sweep"
             type == "multi_service_sweep"
  <2>1. type \in TYPES /\ RuleOf(type) = rule /\ Registry(type) = rule /\ Kind(type) = "window"
        /\ type # "vertical_scan"
    BY Named DEF RuleOf, Registry, Kind, DATABASES, CLEARTEXT
  <2>2. \A s \in MultiServiceSweep(es) : \A r \in MultiServiceSweep(es) :
           Twins(s, r, es, "window") /\ s.rule = rule /\ s.type = type /\ Shown(s, es)
    BY ServicesTwins
  <2> HIDE DEF rule, type
  <2>3. Sound(MultiServiceSweep(es), rule, es)
    BY <2>1, <2>2, OneType
  <2> QED
    BY <2>3 DEF rule
<1>10. Sound(SubnetSweep(es), "subnet_sweep", es)
  <2> DEFINE rule == "subnet_sweep"
             type == "subnet_sweep"
  <2>1. type \in TYPES /\ RuleOf(type) = rule /\ Registry(type) = rule /\ Kind(type) = "window"
        /\ type # "vertical_scan"
    BY Named DEF RuleOf, Registry, Kind, DATABASES, CLEARTEXT
  <2>2. \A s \in SubnetSweep(es) : \A r \in SubnetSweep(es) :
           Twins(s, r, es, "window") /\ s.rule = rule /\ s.type = type /\ Shown(s, es)
    BY SweepTwins
  <2> HIDE DEF rule, type
  <2>3. Sound(SubnetSweep(es), rule, es)
    BY <2>1, <2>2, OneType
  <2> QED
    BY <2>3 DEF rule
<1>11. Sound(HorizontalScan(es), "network_scan_horizontal", es)
  <2> DEFINE rule == "network_scan_horizontal"
             type == "horizontal_scan"
  <2>1. type \in TYPES /\ RuleOf(type) = rule /\ Registry(type) = rule /\ Kind(type) = "window"
        /\ type # "vertical_scan"
    BY Named DEF RuleOf, Registry, Kind, DATABASES, CLEARTEXT
  <2>2. \A s \in HorizontalScan(es) : \A r \in HorizontalScan(es) :
           Twins(s, r, es, "window") /\ s.rule = rule /\ s.type = type /\ Shown(s, es)
    BY HorizontalTwins
  <2> HIDE DEF rule, type
  <2>3. Sound(HorizontalScan(es), rule, es)
    BY <2>1, <2>2, OneType
  <2> QED
    BY <2>3 DEF rule
<1>12. Sound(NetworkFlood(es), "network_flood_dos", es)
  <2> DEFINE rule == "network_flood_dos"
             type == "network_flood"
  <2>1. type \in TYPES /\ RuleOf(type) = rule /\ Registry(type) = rule /\ Kind(type) = "window"
        /\ type # "vertical_scan"
    BY Named DEF RuleOf, Registry, Kind, DATABASES, CLEARTEXT
  <2>2. \A s \in NetworkFlood(es) : \A r \in NetworkFlood(es) :
           Twins(s, r, es, "window") /\ s.rule = rule /\ s.type = type /\ Shown(s, es)
    BY FloodTwins
  <2> HIDE DEF rule, type
  <2>3. Sound(NetworkFlood(es), rule, es)
    BY <2>1, <2>2, OneType
  <2> QED
    BY <2>3 DEF rule
<1>13. Sound(SpiAnomalyBurst(es), "spi_anomaly_burst", es)
  <2> DEFINE rule == "spi_anomaly_burst"
             type == "spi_anomaly"
  <2>1. type \in TYPES /\ RuleOf(type) = rule /\ Registry(type) = rule /\ Kind(type) = "window"
        /\ type # "vertical_scan"
    BY Named DEF RuleOf, Registry, Kind, DATABASES, CLEARTEXT
  <2>2. \A s \in SpiAnomalyBurst(es) : \A r \in SpiAnomalyBurst(es) :
           Twins(s, r, es, "window") /\ s.rule = rule /\ s.type = type /\ Shown(s, es)
    BY SpiTwins
  <2> HIDE DEF rule, type
  <2>3. Sound(SpiAnomalyBurst(es), rule, es)
    BY <2>1, <2>2, OneType
  <2> QED
    BY <2>3 DEF rule
<1>14. Sound(RepeatedBlockedScanner(es), "repeated_blocked_scanner", es)
  <2> DEFINE rule == "repeated_blocked_scanner"
             type == "repeated_blocked_scanner"
  <2>1. type \in TYPES /\ RuleOf(type) = rule /\ Registry(type) = rule /\ Kind(type) = "window"
        /\ type # "vertical_scan"
    BY Named DEF RuleOf, Registry, Kind, DATABASES, CLEARTEXT
  <2>2. \A s \in RepeatedBlockedScanner(es) : \A r \in RepeatedBlockedScanner(es) :
           Twins(s, r, es, "window") /\ s.rule = rule /\ s.type = type /\ Shown(s, es)
    BY ScannerTwins
  <2> HIDE DEF rule, type
  <2>3. Sound(RepeatedBlockedScanner(es), rule, es)
    BY <2>1, <2>2, OneType
  <2> QED
    BY <2>3 DEF rule
<1>15. Sound(LowAndSlowHorizontalScan(es), "low_and_slow_horizontal_scan", es)
  <2> DEFINE rule == "low_and_slow_horizontal_scan"
             type == "low_and_slow_horizontal_scan"
  <2>1. type \in TYPES /\ RuleOf(type) = rule /\ Registry(type) = rule /\ Kind(type) = "window"
        /\ type # "vertical_scan"
    BY Named DEF RuleOf, Registry, Kind, DATABASES, CLEARTEXT
  <2>2. \A s \in LowAndSlowHorizontalScan(es) : \A r \in LowAndSlowHorizontalScan(es) :
           Twins(s, r, es, "window") /\ s.rule = rule /\ s.type = type /\ Shown(s, es)
    BY SlowHorizontalTwins
  <2> HIDE DEF rule, type
  <2>3. Sound(LowAndSlowHorizontalScan(es), rule, es)
    BY <2>1, <2>2, OneType
  <2> QED
    BY <2>3 DEF rule
<1>16. Sound(LowAndSlowVerticalScan(es), "low_and_slow_vertical_scan", es)
  <2> DEFINE rule == "low_and_slow_vertical_scan"
             type == "low_and_slow_vertical_scan"
  <2>1. type \in TYPES /\ RuleOf(type) = rule /\ Registry(type) = rule /\ Kind(type) = "window"
        /\ type # "vertical_scan"
    BY Named DEF RuleOf, Registry, Kind, DATABASES, CLEARTEXT
  <2>2. \A s \in LowAndSlowVerticalScan(es) : \A r \in LowAndSlowVerticalScan(es) :
           Twins(s, r, es, "window") /\ s.rule = rule /\ s.type = type /\ Shown(s, es)
    BY SlowVerticalTwins
  <2> HIDE DEF rule, type
  <2>3. Sound(LowAndSlowVerticalScan(es), rule, es)
    BY <2>1, <2>2, OneType
  <2> QED
    BY <2>3 DEF rule
<1> QED
  BY <1>1, <1>2, <1>3, <1>4, <1>5, <1>6, <1>7, <1>8, <1>9, <1>10, <1>11, <1>12, <1>13, <1>14,
     <1>15, <1>16

\* those that tell a sequence,
LEMMA SequenceRules ==
  ASSUME NEW es, EventsOK(es)
  PROVE  /\ Sound(ScanThenAllowed(es), "scan_followed_by_allowed_connection", es)
         /\ Sound(SpiThenAllowed(es), "spi_followed_by_allowed_connection", es)
         /\ Sound(BlockedThenAllowed(es), "blocked_then_allowed_same_service", es)
<1>1. Sound(ScanThenAllowed(es), "scan_followed_by_allowed_connection", es)
  <2> DEFINE rule == "scan_followed_by_allowed_connection"
  <2>1. /\ rule \in TYPES /\ RuleOf(rule) = rule /\ Registry(rule) = rule /\ Kind(rule) = "sequence"
        /\ rule # "vertical_scan" /\ rule # "fixed_source_port_scan"
    BY Named DEF RuleOf, Registry, Kind, DATABASES, CLEARTEXT
  <2>2. \A s \in ScanThenAllowed(es) : \A r \in ScanThenAllowed(es) :
           Twins(s, r, es, "sequence") /\ s.rule = rule /\ s.type = rule /\ Shown(s, es)
    BY ScanThenTwins
  <2> HIDE DEF rule
  <2>3. Sound(ScanThenAllowed(es), rule, es)
    BY <2>1, <2>2 DEF Sound, Registered
  <2> QED
    BY <2>3 DEF rule
<1>2. Sound(SpiThenAllowed(es), "spi_followed_by_allowed_connection", es)
  <2> DEFINE rule == "spi_followed_by_allowed_connection"
  <2>1. /\ rule \in TYPES /\ RuleOf(rule) = rule /\ Registry(rule) = rule /\ Kind(rule) = "sequence"
        /\ rule # "vertical_scan" /\ rule # "fixed_source_port_scan"
    BY Named DEF RuleOf, Registry, Kind, DATABASES, CLEARTEXT
  <2>2. \A s \in SpiThenAllowed(es) : \A r \in SpiThenAllowed(es) :
           Twins(s, r, es, "sequence") /\ s.rule = rule /\ s.type = rule /\ Shown(s, es)
    BY SpiThenTwins
  <2> HIDE DEF rule
  <2>3. Sound(SpiThenAllowed(es), rule, es)
    BY <2>1, <2>2 DEF Sound, Registered
  <2> QED
    BY <2>3 DEF rule
<1>3. Sound(BlockedThenAllowed(es), "blocked_then_allowed_same_service", es)
  <2> DEFINE rule == "blocked_then_allowed_same_service"
  <2>1. /\ rule \in TYPES /\ RuleOf(rule) = rule /\ Registry(rule) = rule /\ Kind(rule) = "sequence"
        /\ rule # "vertical_scan" /\ rule # "fixed_source_port_scan"
    BY Named DEF RuleOf, Registry, Kind, DATABASES, CLEARTEXT
  <2>2. \A s \in BlockedThenAllowed(es) : \A r \in BlockedThenAllowed(es) :
           Twins(s, r, es, "sequence") /\ s.rule = rule /\ s.type = rule /\ Shown(s, es)
    BY BlockedThenTwins
  <2> HIDE DEF rule
  <2>3. Sound(BlockedThenAllowed(es), rule, es)
    BY <2>1, <2>2 DEF Sound, Registered
  <2> QED
    BY <2>3 DEF rule
<1> QED
  BY <1>1, <1>2, <1>3

\* the probes of remote services,
LEMMA RemoteRule ==
  ASSUME NEW es, EventsOK(es)
  PROVE  Sound(RemoteServiceProbe(es), "remote_service_probe", es)
<1>1. \A type \in {"rdp_probe", "ssh_probe"} :
         /\ type \in TYPES /\ RuleOf(type) = type /\ Registry(type) = "remote_service_probe"
         /\ Kind(type) = "window" /\ type # "vertical_scan" /\ type # "fixed_source_port_scan"
  BY Named DEF RuleOf, Registry, Kind, DATABASES, CLEARTEXT
<1>2. \A s \in RemoteServiceProbe(es) : \A r \in RemoteServiceProbe(es) :
         Twins(s, r, es, "window") /\ s.rule = s.type /\ s.type \in {"rdp_probe", "ssh_probe"} /\ Shown(s, es)
  BY RemoteTwins
<1> QED
  BY <1>1, <1>2 DEF Sound, Registered

\* vertical scans, with fixed source ports beside them,
LEMMA VerticalRule ==
  ASSUME NEW es, EventsOK(es)
  PROVE  Sound(VerticalScan(es) \cup FixedSourcePortScan(es), "network_scan_vertical", es)
<1>1. \A type \in {"vertical_scan", "fixed_source_port_scan"} :
         type \in TYPES /\ RuleOf(type) = "network_scan_vertical" /\ Registry(type) = "network_scan_vertical"
  BY Named DEF RuleOf, Registry, DATABASES, CLEARTEXT
<1>2. Kind("vertical_scan") = "window" /\ Kind("fixed_source_port_scan") = "group"
  BY DEF Kind
<1>3. \A s \in VerticalScan(es) : \A r \in VerticalScan(es) :
         Twins(s, r, es, "window") /\ s.rule = "network_scan_vertical" /\ s.type = "vertical_scan" /\ Shown(s, es)
         /\ DOMAIN s.key = 1 .. 3
  BY VerticalTwins
<1>4. \A s \in FixedSourcePortScan(es) : \A r \in FixedSourcePortScan(es) :
         /\ Twins(s, r, es, "group") /\ Shown(s, es) /\ s.rule = "network_scan_vertical"
         /\ s.type = "fixed_source_port_scan"
         /\ \E x : s.key = <<FIXED_SOURCE_PORT, x>>
  BY FixedTwins
<1> QED
  BY <1>1, <1>2, <1>3, <1>4 DEF Sound, Registered

\* and the probes by profile, where one registered rule has several.
LEMMA ProfiledRule ==
  ASSUME NEW es, EventsOK(es), NEW profiles, NEW rule,
         \A p \in profiles : /\ p \in TYPES /\ RuleOf(p) = p /\ Registry(p) = rule
                              /\ Kind(p) = "window" /\ p # "vertical_scan"
                              /\ p # "fixed_source_port_scan" /\ p \notin EXPOSURE_TYPES
  PROVE  Sound(ProfiledProbes(es, profiles), rule, es)
<1>1. \A p \in profiles : \A s \in ProfiledProbes(es, {p}) : \A r \in ProfiledProbes(es, {p}) :
         Twins(s, r, es, "window") /\ s.rule = p /\ s.type = p /\ Shown(s, es)
  BY ProfiledTwins
<1>2. \A s \in ProfiledProbes(es, profiles) : \E p \in profiles : s \in ProfiledProbes(es, {p})
  BY ProfiledMember
<1>3. ASSUME NEW s \in ProfiledProbes(es, profiles), NEW r \in ProfiledProbes(es, profiles)
      PROVE  /\ Registered(s) /\ Registry(s.type) = rule
             /\ (s.type = r.type => Twins(s, r, es, Kind(s.type)))
             /\ Shown(s, es)
  <2>1. PICK p \in profiles : s \in ProfiledProbes(es, {p})
    BY <1>2
  <2>2. PICK d \in profiles : r \in ProfiledProbes(es, {d})
    BY <1>2
  <2>3. s.rule = p /\ s.type = p /\ r.type = d /\ Shown(s, es)
    BY <1>1, <2>1, <2>2
  <2>4. Registered(s) /\ Registry(s.type) = rule /\ Kind(s.type) = "window"
    BY <2>3 DEF Registered
  <2>5. s.type = r.type => Twins(s, r, es, "window")
    BY <1>1, <2>1, <2>2, <2>3
  <2> QED
    BY <2>3, <2>4, <2>5
<1> QED
  BY <1>3 DEF Sound

\* The rules that are made of profiles.
LEMMA ProfiledRules ==
  ASSUME NEW es, EventsOK(es)
  PROVE  /\ Sound(ProfiledProbes(es, DATABASES), "database_service_probe", es)
         /\ Sound(ProfiledProbes(es, {"kubernetes_api_probe", "kubelet_probe"}),
                  "kubernetes_service_probe", es)
         /\ Sound(ProfiledProbes(es, CLEARTEXT), "legacy_cleartext_service_probe", es)
         /\ \A rule \in {"smb_probe", "vnc_probe", "winrm_probe", "docker_daemon_probe",
                          "web_admin_panel_probe"} : Sound(ProfiledProbes(es, {rule}), rule, es)
<1> DEFINE ok(p, rule) == /\ p \in TYPES /\ RuleOf(p) = p /\ Registry(p) = rule
                          /\ Kind(p) = "window" /\ p # "vertical_scan"
                          /\ p # "fixed_source_port_scan" /\ p \notin EXPOSURE_TYPES
<1>1. \A p \in DATABASES : ok(p, "database_service_probe")
  BY Named DEF RuleOf, Registry, Kind, DATABASES, CLEARTEXT, EXPOSURE_TYPES
<1>2. \A p \in {"kubernetes_api_probe", "kubelet_probe"} : ok(p, "kubernetes_service_probe")
  BY Named DEF RuleOf, Registry, Kind, DATABASES, CLEARTEXT, EXPOSURE_TYPES
<1>3. \A p \in CLEARTEXT : ok(p, "legacy_cleartext_service_probe")
  BY Named DEF RuleOf, Registry, Kind, DATABASES, CLEARTEXT, EXPOSURE_TYPES
<1>4. \A rule \in {"smb_probe", "vnc_probe", "winrm_probe", "docker_daemon_probe",
                    "web_admin_panel_probe"} : ok(rule, rule)
  BY Named DEF RuleOf, Registry, Kind, DATABASES, CLEARTEXT, EXPOSURE_TYPES
<1>5. Sound(ProfiledProbes(es, DATABASES), "database_service_probe", es)
  BY <1>1, ProfiledRule
<1>6. Sound(ProfiledProbes(es, {"kubernetes_api_probe", "kubelet_probe"}),
            "kubernetes_service_probe", es)
  BY <1>2, ProfiledRule
<1>7. Sound(ProfiledProbes(es, CLEARTEXT), "legacy_cleartext_service_probe", es)
  BY <1>3, ProfiledRule
<1>8. ASSUME NEW rule \in {"smb_probe", "vnc_probe", "winrm_probe", "docker_daemon_probe",
                           "web_admin_panel_probe"}
      PROVE  Sound(ProfiledProbes(es, {rule}), rule, es)
  <2>1. \A p \in {rule} : ok(p, rule)
    BY <1>4
  <2> QED
    BY <2>1, ProfiledRule
<1> QED
  BY <1>5, <1>6, <1>7, <1>8

\* Every registered rule emits signals of its own types, any two of one type
\* told by compatible windows (DetectionEngine.evaluate).
LEMMA Evaluated ==
  ASSUME NEW es, EventsOK(es), NEW rule \in DEFAULT_RULES
  PROVE  Sound(Evaluate(rule, es), rule, es)
<1>1. CASE rule = "critical_management_service_exposed"
  <2>1. Evaluate(rule, es) = CriticalManagementExposed(es)
    BY <1>1 DEF Evaluate
  <2> QED
    BY <1>1, <2>1, SlidingRules
<1>2. CASE rule = "dnat_sensitive_service_exposure"
  <2>1. Evaluate(rule, es) = DnatSensitiveExposure(es)
    BY <1>2 DEF Evaluate
  <2> QED
    BY <1>2, <2>1, SlidingRules
<1>3. CASE rule = "wan_to_lan_sensitive_service_allowed"
  <2>1. Evaluate(rule, es) = WanToLanAllowed(es)
    BY <1>3 DEF Evaluate
  <2> QED
    BY <1>3, <2>1, SlidingRules
<1>4. CASE rule = "multi_source_allowed_sensitive_service"
  <2>1. Evaluate(rule, es) = MultiSourceAllowed(es)
    BY <1>4 DEF Evaluate
  <2> QED
    BY <1>4, <2>1, SlidingRules
<1>5. CASE rule = "wan_to_dmz_administrative_service_allowed"
  <2>1. Evaluate(rule, es) = WanToDmzAllowed(es)
    BY <1>5 DEF Evaluate
  <2> QED
    BY <1>5, <2>1, SlidingRules
<1>6. CASE rule = "inbound_sensitive_service_allowed"
  <2>1. Evaluate(rule, es) = InboundSensitive(es)
    BY <1>6 DEF Evaluate
  <2> QED
    BY <1>6, <2>1, SlidingRules
<1>7. CASE rule = "internal_lateral_scan"
  <2>1. Evaluate(rule, es) = InternalLateralScan(es)
    BY <1>7 DEF Evaluate
  <2> QED
    BY <1>7, <2>1, SlidingRules
<1>8. CASE rule = "distributed_scan"
  <2>1. Evaluate(rule, es) = DistributedScan(es)
    BY <1>8 DEF Evaluate
  <2> QED
    BY <1>8, <2>1, SlidingRules
<1>9. CASE rule = "multi_service_sweep"
  <2>1. Evaluate(rule, es) = MultiServiceSweep(es)
    BY <1>9 DEF Evaluate
  <2> QED
    BY <1>9, <2>1, SlidingRules
<1>10. CASE rule = "subnet_sweep"
  <2>1. Evaluate(rule, es) = SubnetSweep(es)
    BY <1>10 DEF Evaluate
  <2> QED
    BY <1>10, <2>1, SlidingRules
<1>11. CASE rule = "network_scan_horizontal"
  <2>1. Evaluate(rule, es) = HorizontalScan(es)
    BY <1>11 DEF Evaluate
  <2> QED
    BY <1>11, <2>1, SlidingRules
<1>12. CASE rule = "network_flood_dos"
  <2>1. Evaluate(rule, es) = NetworkFlood(es)
    BY <1>12 DEF Evaluate
  <2> QED
    BY <1>12, <2>1, SlidingRules
<1>13. CASE rule = "spi_anomaly_burst"
  <2>1. Evaluate(rule, es) = SpiAnomalyBurst(es)
    BY <1>13 DEF Evaluate
  <2> QED
    BY <1>13, <2>1, SlidingRules
<1>14. CASE rule = "repeated_blocked_scanner"
  <2>1. Evaluate(rule, es) = RepeatedBlockedScanner(es)
    BY <1>14 DEF Evaluate
  <2> QED
    BY <1>14, <2>1, SlidingRules
<1>15. CASE rule = "low_and_slow_horizontal_scan"
  <2>1. Evaluate(rule, es) = LowAndSlowHorizontalScan(es)
    BY <1>15 DEF Evaluate
  <2> QED
    BY <1>15, <2>1, SlidingRules
<1>16. CASE rule = "low_and_slow_vertical_scan"
  <2>1. Evaluate(rule, es) = LowAndSlowVerticalScan(es)
    BY <1>16 DEF Evaluate
  <2> QED
    BY <1>16, <2>1, SlidingRules
<1>17. CASE rule = "scan_followed_by_allowed_connection"
  <2>1. Evaluate(rule, es) = ScanThenAllowed(es)
    BY <1>17 DEF Evaluate
  <2> QED
    BY <1>17, <2>1, SequenceRules
<1>18. CASE rule = "spi_followed_by_allowed_connection"
  <2>1. Evaluate(rule, es) = SpiThenAllowed(es)
    BY <1>18 DEF Evaluate
  <2> QED
    BY <1>18, <2>1, SequenceRules
<1>19. CASE rule = "blocked_then_allowed_same_service"
  <2>1. Evaluate(rule, es) = BlockedThenAllowed(es)
    BY <1>19 DEF Evaluate
  <2> QED
    BY <1>19, <2>1, SequenceRules
<1>20. CASE rule = "tcp_null_scan"
  <2>1. Evaluate(rule, es) = TcpNullScan(es)
    BY <1>20 DEF Evaluate
  <2> QED
    BY <1>20, <2>1, FlagPatterns
<1>21. CASE rule = "tcp_xmas_scan"
  <2>1. Evaluate(rule, es) = TcpXmasScan(es)
    BY <1>21 DEF Evaluate
  <2> QED
    BY <1>21, <2>1, FlagPatterns
<1>22. CASE rule = "tcp_fin_scan"
  <2>1. Evaluate(rule, es) = TcpFinScan(es)
    BY <1>22 DEF Evaluate
  <2> QED
    BY <1>22, <2>1, FlagPatterns
<1>23. CASE rule = "tcp_ack_scan"
  <2>1. Evaluate(rule, es) = TcpAckScan(es)
    BY <1>23 DEF Evaluate
  <2> QED
    BY <1>23, <2>1, FlagPatterns
<1>24. CASE rule = "tcp_syn_fin_anomaly"
  <2>1. Evaluate(rule, es) = TcpSynFinAnomaly(es)
    BY <1>24 DEF Evaluate
  <2> QED
    BY <1>24, <2>1, FlagPatterns
<1>25. CASE rule = "tcp_syn_rst_anomaly"
  <2>1. Evaluate(rule, es) = TcpSynRstAnomaly(es)
    BY <1>25 DEF Evaluate
  <2> QED
    BY <1>25, <2>1, FlagPatterns
<1>26. CASE rule = "repeated_tcp_reset_anomaly"
  <2>1. Evaluate(rule, es) = RepeatedTcpResetAnomaly(es)
    BY <1>26 DEF Evaluate
  <2> QED
    BY <1>26, <2>1, FlagPatterns
<1>27. CASE rule = "remote_service_probe"
  <2>1. Evaluate(rule, es) = RemoteServiceProbe(es)
    BY <1>27 DEF Evaluate
  <2> QED
    BY <1>27, <2>1, RemoteRule
<1>28. CASE rule = "network_scan_vertical"
  <2>1. Evaluate(rule, es) = VerticalScan(es) \cup FixedSourcePortScan(es)
    BY <1>28 DEF Evaluate
  <2> QED
    BY <1>28, <2>1, VerticalRule
<1>29. CASE rule = "database_service_probe"
  <2>1. Evaluate(rule, es) = ProfiledProbes(es, DATABASES)
    BY <1>29 DEF Evaluate
  <2> QED
    BY <1>29, <2>1, ProfiledRules
<1>30. CASE rule = "kubernetes_service_probe"
  <2>1. Evaluate(rule, es) = ProfiledProbes(es, {"kubernetes_api_probe", "kubelet_probe"})
    BY <1>30 DEF Evaluate
  <2> QED
    BY <1>30, <2>1, ProfiledRules
<1>31. CASE rule = "legacy_cleartext_service_probe"
  <2>1. Evaluate(rule, es) = ProfiledProbes(es, CLEARTEXT)
    BY <1>31 DEF Evaluate
  <2> QED
    BY <1>31, <2>1, ProfiledRules
<1>32. CASE rule \in {"smb_probe", "vnc_probe", "winrm_probe", "docker_daemon_probe",
                    "web_admin_panel_probe"}
  <2>1. Evaluate(rule, es) = ProfiledProbes(es, {rule})
    BY <1>32 DEF Evaluate
  <2> QED
    BY <1>32, <2>1, ProfiledRules
<1> QED
  BY <1>1, <1>2, <1>3, <1>4, <1>5, <1>6, <1>7, <1>8, <1>9, <1>10, <1>11, <1>12, <1>13, <1>14,
     <1>15, <1>16, <1>17, <1>18, <1>19, <1>20, <1>21, <1>22, <1>23, <1>24, <1>25, <1>26, <1>27,
     <1>28, <1>29, <1>30, <1>31, <1>32 DEF DEFAULT_RULES

\* So does a set of them: signals of one type come of one rule.
LEMMA EmittedShape ==
  ASSUME NEW es, EventsOK(es), NEW rules \in SUBSET DEFAULT_RULES
  PROVE  Emission(UNION {Evaluate(rule, es) : rule \in rules}, es)
<1> DEFINE E == UNION {Evaluate(rule, es) : rule \in rules}
<1>1. \A rule \in rules : Sound(Evaluate(rule, es), rule, es)
  BY Evaluated
<1>2. ASSUME NEW s \in E, NEW r \in E
      PROVE  Registered(s) /\ Shown(s, es) /\ (s.type = r.type => Twins(s, r, es, Kind(s.type)))
  <2>1. PICK a \in rules : s \in Evaluate(a, es)
    OBVIOUS
  <2>2. PICK b \in rules : r \in Evaluate(b, es)
    OBVIOUS
  <2>3. Registered(s) /\ Shown(s, es) /\ Registry(s.type) = a /\ Registry(r.type) = b
    BY <1>1, <2>1, <2>2 DEF Sound
  <2>4. s.type = r.type => a = b
    BY <2>3
  <2> QED
    BY <1>1, <2>1, <2>2, <2>3, <2>4 DEF Sound
<1> QED
  BY <1>2 DEF Emission

\* A signal is about events of es: the first at first, the last in rank at upto.
Formed(s, es) ==
    /\ DOMAIN s = SignalFields
    /\ s.first \in Int /\ s.last \in Int /\ s.conf \in Int /\ s.at \in Int /\ s.upto \in Int
    /\ s.ids \in SUBSET Ids(es) /\ s.ids # {}
    /\ \A e \in es : e.id \in s.ids => s.first <= e.t /\ e.n <= s.upto
    /\ \E e \in es : e.id \in s.ids /\ e.t = s.first
    /\ \E e \in es : e.id \in s.ids /\ e.n = s.upto

\* The last event of r is not one of s.
TopNew(s, r, es) == \A e \in es : e.n = r.upto => e.id \notin s.ids

\* A signal has the events of its window, and they determine it.
LEMMA ToldWindow ==
  ASSUME NEW es, EventsOK(es), NEW w, WindowOK(w, es), NEW s, Tells(s, w)
  PROVE  /\ Formed(s, es) /\ s.at = w.at /\ s.upto = w.last.n
         /\ \A e \in es : e.id \in s.ids <=> e \in w.events
<1>1. IsFiniteSet(w.events) /\ w.events # {} /\ \A e \in w.events : e.t \in Int /\ e.n \in Int
  BY FS_Subset DEF EventsOK, WindowOK
<1> DEFINE T == Times(w.events)
           N == {e.n : e \in w.events}
<1>2. /\ IsFiniteSet(T) /\ T # {} /\ T \in SUBSET Int
      /\ IsFiniteSet(N) /\ N # {} /\ N \in SUBSET Int
  BY <1>1, FieldsFinite
<1>3. /\ s.first = Min(T) /\ s.last = Max(T) /\ s.upto = Max(N) /\ s.at = w.at
      /\ s.conf \in Int /\ DOMAIN s = SignalFields /\ s.ids = {e.id : e \in w.events}
  BY DEF Tells
<1>4. /\ \A e \in w.events : e.t \in T /\ e.n \in N
      /\ \A x \in T : \E e \in w.events : e.t = x
      /\ \A x \in N : \E e \in w.events : e.n = x
  BY DEF Times
<1> HIDE DEF T, N
<1>5. /\ Min(T) \in T /\ \A x \in T : Min(T) <= x
      /\ Max(T) \in T
      /\ Max(N) \in N /\ \A x \in N : x <= Max(N)
  BY <1>2, MinMax
<1>6. \A e \in es : e.id \in s.ids <=> e \in w.events
  BY <1>3 DEF EventsOK, WindowOK
<1>7. s.upto = w.last.n
  <2>1. w.last.n \in N /\ \A x \in N : x <= w.last.n
    BY <1>4 DEF WindowOK
  <2>2. Max(N) <= w.last.n /\ w.last.n <= Max(N) /\ Max(N) \in Int /\ w.last.n \in Int
    BY <1>2, <1>5, <2>1
  <2> QED
    BY <1>3, <2>2
<1>8. s.ids \in SUBSET Ids(es) /\ s.ids # {}
  BY <1>1, <1>3 DEF Ids, WindowOK
<1>9. /\ \A e \in es : e.id \in s.ids => s.first <= e.t /\ e.n <= s.upto
      /\ \E e \in es : e.id \in s.ids /\ e.t = s.first
      /\ \E e \in es : e.id \in s.ids /\ e.n = s.upto
  <2>1. \A e \in w.events : e \in es
    BY DEF WindowOK
  <2>2. \A e \in w.events : s.first <= e.t /\ e.n <= s.upto
    BY <1>3, <1>4, <1>5
  <2>3. (\E e \in w.events : e.t = s.first) /\ \E e \in w.events : e.n = s.upto
    BY <1>3, <1>4, <1>5
  <2> QED
    BY <1>6, <2>1, <2>2, <2>3
<1>10. s.first \in Int /\ s.last \in Int /\ s.at \in Int /\ s.upto \in Int
  BY <1>2, <1>3, <1>5 DEF WindowOK
<1> QED
  BY <1>3, <1>6, <1>7, <1>8, <1>9, <1>10 DEF Formed

\* Of two twins the later one has an event that the earlier one has not.
LEMMA TwinsApart ==
  ASSUME NEW es, EventsOK(es), NEW s, NEW r, NEW kind, Twins(s, r, es, kind)
  PROVE  /\ Formed(s, es) /\ Formed(r, es)
         /\ s.upto = r.upto => s = r
         /\ s.at < r.at \/ (s.at = r.at /\ s.upto < r.upto) => TopNew(s, r, es)
         /\ kind = "group" => s = r \/ s.ids \cap r.ids = {}
         /\ kind = "window" => \/ s.ids \cap r.ids = {}
                               \/ r.upto < s.upto \/ s.first <= r.first
<1>1. PICK w, v : /\ WindowOK(w, es) /\ WindowOK(v, es) /\ Compatible(w, v, kind)
                  /\ Tells(s, w) /\ Tells(r, v)
                  /\ w = v => s = r
  BY DEF Twins
<1>2. /\ Formed(s, es) /\ s.at = w.at /\ s.upto = w.last.n
      /\ \A e \in es : e.id \in s.ids <=> e \in w.events
  BY <1>1, ToldWindow
<1>3. /\ Formed(r, es) /\ r.at = v.at /\ r.upto = v.last.n
      /\ \A e \in es : e.id \in r.ids <=> e \in v.events
  BY <1>1, ToldWindow
<1>4. w.last \in es /\ v.last \in es /\ v.last \in v.events
  BY <1>1 DEF WindowOK
<1>5. ASSUME s.upto = r.upto PROVE s = r
  <2>1. w.last = v.last
    BY <1>2, <1>3, <1>4, <1>5 DEF EventsOK
  <2> QED
    BY <1>1, <2>1 DEF Compatible
<1>6. s.upto < r.upto => TopNew(s, r, es)
  BY <1>2 DEF Formed, TopNew, EventsOK
<1>7. w.events \cap v.events = {} => s.ids \cap r.ids = {}
  <2>1. \A x : x \in s.ids \cap r.ids => \E e \in es : e.id = x
    BY <1>2 DEF Formed, Ids
  <2> QED
    BY <1>2, <1>3, <2>1
<1>8. s.ids \cap r.ids = {} => TopNew(s, r, es)
  BY <1>3, <1>4 DEF TopNew, EventsOK
<1>9. ASSUME s.at < r.at \/ (s.at = r.at /\ s.upto < r.upto) PROVE TopNew(s, r, es)
  <2>1. s.at \in Int /\ r.at \in Int
    BY <1>2, <1>3 DEF Formed
  <2>2. CASE s.at < r.at
    <3>1. w.at # v.at
      BY <1>2, <1>3, <2>1, <2>2
    <3>2. CASE w.events \cap v.events = {}
      BY <1>7, <1>8, <3>2
    <3>3. CASE w.at = w.last.n /\ v.at = v.last.n
      BY <1>2, <1>3, <1>6, <2>2, <3>3
    <3> QED
      BY <1>1, <3>1, <3>2, <3>3 DEF Compatible
  <2>3. CASE s.upto < r.upto
    BY <1>6, <2>3
  <2> QED
    BY <1>9, <2>2, <2>3
<1>10. ASSUME kind = "group" PROVE s = r \/ s.ids \cap r.ids = {}
  BY <1>1, <1>7, <1>10 DEF Compatible
<1>11. ASSUME kind = "window", s.ids \cap r.ids # {}
       PROVE  r.upto < s.upto \/ s.first <= r.first
  <2>1. w.last.n <= v.last.n => \A f \in v.events : f.n <= w.last.n => f \in w.events
    BY <1>1, <1>7, <1>11 DEF Compatible
  <2>2. PICK e \in es : e.id \in r.ids /\ e.t = r.first
    BY <1>3 DEF Formed
  <2>3. /\ s.upto \in Int /\ r.upto \in Int /\ s.first \in Int /\ r.first \in Int
        /\ e.n \in Int /\ e.t \in Int /\ w.last.t \in Int
    BY <1>2, <1>3, <1>4 DEF Formed, EventsOK
  <2>4. CASE s.upto <= r.upto /\ e.n <= s.upto
    <3>1. e \in w.events
      BY <1>2, <1>3, <2>1, <2>2, <2>4
    <3> QED
      BY <1>2, <2>2, <3>1 DEF Formed
  <2>5. CASE s.upto < e.n
    <3>1. w.last.t <= e.t
      BY <1>2, <1>4, <2>5 DEF EventsOK
    <3>2. s.first <= w.last.t
      <4>1. w.last.id \in s.ids
        BY <1>1, <1>2, <1>4 DEF WindowOK
      <4> QED
        BY <1>2, <1>4, <4>1 DEF Formed
    <3> QED
      BY <2>2, <2>3, <3>1, <3>2
  <2> QED
    BY <2>3, <2>4, <2>5
<1> QED
  BY <1>2, <1>3, <1>5, <1>9, <1>10, <1>11

\* What deduplication may rely on about two emitted signals of a type.
LEMMA EmissionFacts ==
  ASSUME NEW es, EventsOK(es), NEW E, Emission(E, es), NEW s \in E
  PROVE  /\ Registered(s) /\ Formed(s, es)
         /\ \A r \in E : s.type = r.type =>
              /\ s.upto = r.upto => s = r
              /\ s.at < r.at \/ (s.at = r.at /\ s.upto < r.upto) => TopNew(s, r, es)
              /\ s.type = "fixed_source_port_scan" => s = r \/ s.ids \cap r.ids = {}
              /\ s.type = "vertical_scan" /\ s.first < r.first => TopNew(s, r, es)
<1>1. Registered(s) /\ Twins(s, s, es, Kind(s.type))
  BY DEF Emission
<1>2. Formed(s, es)
  BY <1>1, TwinsApart
<1>3. ASSUME NEW r \in E, s.type = r.type
      PROVE  /\ s.upto = r.upto => s = r
             /\ s.at < r.at \/ (s.at = r.at /\ s.upto < r.upto) => TopNew(s, r, es)
             /\ s.type = "fixed_source_port_scan" => s = r \/ s.ids \cap r.ids = {}
             /\ s.type = "vertical_scan" /\ s.first < r.first => TopNew(s, r, es)
  <2>1. Twins(s, r, es, Kind(s.type)) /\ Twins(r, s, es, Kind(s.type))
    BY <1>3 DEF Emission
  <2>2. /\ s.upto = r.upto => s = r
        /\ s.at < r.at \/ (s.at = r.at /\ s.upto < r.upto) => TopNew(s, r, es)
        /\ Kind(s.type) = "group" => s = r \/ s.ids \cap r.ids = {}
    BY <2>1, TwinsApart
  <2>3. ASSUME s.type = "vertical_scan", s.first < r.first PROVE TopNew(s, r, es)
    <3>1. Kind(s.type) = "window"
      BY <2>3 DEF Kind
    <3>2. Formed(r, es) /\ (r.ids \cap s.ids = {} \/ s.upto < r.upto \/ r.first <= s.first)
      BY <2>1, <3>1, TwinsApart
    <3>3. s.upto \in Int /\ r.upto \in Int /\ s.first \in Int /\ r.first \in Int
      BY <1>2, <3>2 DEF Formed
    <3>4. CASE r.ids \cap s.ids = {}
      BY <3>2, <3>4 DEF TopNew, Formed, EventsOK
    <3>5. CASE s.upto < r.upto
      BY <1>2, <3>3, <3>5 DEF TopNew, Formed, EventsOK
    <3> QED
      BY <2>3, <3>2, <3>3, <3>4, <3>5
  <2>4. s.type = "fixed_source_port_scan" => Kind(s.type) = "group"
    BY DEF Kind
  <2> QED
    BY <2>2, <2>3, <2>4
<1> QED
  BY <1>1, <1>2, <1>3

\* A rule emits finitely many signals: type and last event tell them apart.
LEMMA EmissionFinite ==
  ASSUME NEW es, EventsOK(es), NEW E, Emission(E, es)
  PROVE  IsFiniteSet(E)
<1> DEFINE N == {e.n : e \in es}
           f == [p \in TYPES \X N |-> CHOOSE s \in E : s.type = p[1] /\ s.upto = p[2]]
<1>1. IsFiniteSet(N)
  <2> DEFINE rank == [e \in es |-> e.n]
  <2>1. IsFiniteSet({rank[e] : e \in es})
    <3>1. IsFiniteSet(es)
      BY DEF EventsOK
    <3> QED
      BY <3>1, FiniteImage
  <2>2. {rank[e] : e \in es} = N
    OBVIOUS
  <2> QED
    BY <2>1, <2>2
<1>2. IsFiniteSet(TYPES \X N)
  BY <1>1, TypesFinite, FS_Product
<1>3. IsFiniteSet({f[p] : p \in TYPES \X N})
  <2> HIDE DEF f
  <2> QED
    BY <1>2, FiniteImage
<1>4. ASSUME NEW s \in E PROVE \E p \in TYPES \X N : f[p] = s
  <2>1. s.type \in TYPES /\ s.upto \in N
    BY EmissionFacts DEF Registered, Formed
  <2> DEFINE p == <<s.type, s.upto>>
  <2>2. p \in TYPES \X N /\ p[1] = s.type /\ p[2] = s.upto
    BY <2>1
  <2>3. f[p] = CHOOSE r \in E : r.type = s.type /\ r.upto = s.upto
    BY <2>2
  <2>4. \A r \in E : r.type = s.type /\ r.upto = s.upto => r = s
    BY EmissionFacts
  <2> HIDE DEF f
  <2>5. f[p] = s
    BY <2>3, <2>4
  <2> QED
    BY <2>2, <2>5
<1> HIDE DEF f, N
<1>5. E \subseteq {f[p] : p \in TYPES \X N}
  BY <1>4
<1> QED
  BY <1>3, <1>5, FS_Subset

-----------------------------------------------------------------------------
(***************************************************************************)
(* Deduplication: each merged signal gathers a block of the signals of its *)
(* rule and entity, in emission order.                                     *)
(***************************************************************************)

\* Emission order.
Before(a, b) == Precedes(EmissionKey(a), EmissionKey(b))

\* What a merged signal keeps of the first of its signals.
SameHead(x, h) ==
    /\ x.rule = h.rule /\ x.type = h.type /\ x.family = h.family
    /\ x.sev = h.sev /\ x.conf = h.conf
    /\ x.first = h.first /\ x.at = h.at /\ x.upto = h.upto /\ x.entity = h.entity

\* x is the signals of A merged: the first of them with the events of all.
Gathers(x, A) ==
    /\ DOMAIN x = SignalFields /\ x.last \in Int /\ x.ids = Union(A)
    /\ \A a \in A : a.rule = x.rule
    /\ \E h \in A :
        /\ \A a \in A : a = h \/ Before(h, a)
        /\ SameHead(x, h)
        /\ A = {h} => x.key = h.key
        /\ A # {h} => x.key = <<>> \/ \E y : x.key = <<TARGET, y>>
        /\ \A a \in A : a = h \/ \E b \in A : b # a /\ a.ids \cap b.ids # {}

\* The merged signals so far, and the blocks of Q they gather.
Gathered(out, Q, B) ==
    /\ \E T : out \in Seq(T)
    /\ \A j \in DOMAIN out : B[j] \in SUBSET Q /\ Gathers(out[j], B[j])
    /\ \A j, k \in DOMAIN out : j < k => \A a \in B[j], b \in B[k] : Before(a, b)
    /\ \A s \in Q : \E j \in DOMAIN out : s \in B[j]

\* A signal gathers itself,
LEMMA GathersOne ==
  ASSUME NEW s, DOMAIN s = SignalFields, s.last \in Int
  PROVE  Gathers(s, {s})
<1>1. Union({s}) = s.ids
  BY DEF Union
<1> QED
  BY <1>1 DEF Gathers, SameHead

\* and one that is merged with a later signal gathers that, too.
LEMMA MergeGathers ==
  ASSUME NEW x, NEW A, Gathers(x, A), NEW s, s \notin A, \A a \in A : Before(a, s),
         x.ids \cap s.ids # {}, s.last \in Int, s.rule = x.rule
  PROVE  Gathers(MergedSignal(x, s), A \cup {s})
<1> DEFINE y == MergedSignal(x, s)
           C == A \cup {s}
<1>1. PICK h \in A :
        /\ \A a \in A : a = h \/ Before(h, a)
        /\ SameHead(x, h)
        /\ \A a \in A : a = h \/ \E b \in A : b # a /\ a.ids \cap b.ids # {}
  BY DEF Gathers
<1>2. DOMAIN x = SignalFields /\ x.last \in Int /\ x.ids = Union(A)
      /\ \A a \in A : a.rule = x.rule
  BY DEF Gathers
<1>3. /\ DOMAIN y = SignalFields /\ y.last \in Int /\ y.ids = x.ids \cup s.ids
      /\ y.key = <<>> \/ \E z : y.key = <<TARGET, z>>
      /\ y.rule = x.rule /\ y.type = x.type /\ y.family = x.family
      /\ y.sev = x.sev /\ y.conf = x.conf
      /\ y.first = x.first /\ y.at = x.at /\ y.upto = x.upto /\ y.entity = x.entity
  BY <1>2 DEF MergedSignal, SignalFields
<1> HIDE DEF y
<1>4. SameHead(y, h)
  BY <1>1, <1>3 DEF SameHead
<1>5. y.ids = Union(C)
  BY <1>2, <1>3 DEF Union
<1>6. \A a \in C : a = h \/ Before(h, a)
  BY <1>1
<1>7. ASSUME NEW a \in C, a # h PROVE \E b \in C : b # a /\ a.ids \cap b.ids # {}
  <2>1. CASE a = s
    <3>1. PICK b \in A : b.ids \cap s.ids # {}
      BY <1>2 DEF Union
    <3> QED
      BY <2>1, <3>1
  <2>2. CASE a \in A
    BY <1>1, <1>7, <2>2
  <2> QED
    BY <2>1, <2>2
<1>8. C # {h}
  OBVIOUS
<1>9. h \in C
  OBVIOUS
<1>11. \A a \in C : a.rule = y.rule
  BY <1>2, <1>3
<1> HIDE DEF C
<1>10. Gathers(y, C)
  BY <1>3, <1>4, <1>5, <1>6, <1>7, <1>8, <1>9, <1>11 DEF Gathers
<1> QED
  BY <1>10 DEF y, C

\* One more signal, merged into the last block or starting one.
LEMMA AbsorbStep ==
  ASSUME NEW out, NEW Q, NEW B, Gathered(out, Q, B), NEW s, s \notin Q,
         \A a \in Q : Before(a, s) /\ a.rule = s.rule,
         DOMAIN s = SignalFields, s.last \in Int
  PROVE  \E C : Gathered(Absorb(out, s), Q \cup {s}, C)
<1> DEFINE merges == out # <<>> /\ Repeats(s, Last(out))
           n == Len(out)
<1>1. PICK T : out \in Seq(T)
  BY DEF Gathered
<1>2. n \in Nat /\ DOMAIN out = 1 .. n
  BY <1>1
<1>3. /\ \A j \in DOMAIN out : B[j] \in SUBSET Q /\ Gathers(out[j], B[j])
      /\ \A j, k \in DOMAIN out : j < k => \A a \in B[j], b \in B[k] : Before(a, b)
      /\ \A r \in Q : \E j \in DOMAIN out : r \in B[j]
  BY DEF Gathered
<1>4. CASE ~merges
  <2> DEFINE d == Append(out, s)
             C == [j \in 1 .. n + 1 |-> IF j = n + 1 THEN {s} ELSE B[j]]
  <2>1. Absorb(out, s) = d
    BY <1>4 DEF Absorb
  <2>2. /\ DOMAIN d = 1 .. n + 1 /\ d[n + 1] = s
        /\ \A j \in 1 .. n : d[j] = out[j]
        /\ \E U : d \in Seq(U)
    <3> DEFINE U == T \cup {s}
    <3>1. out \in Seq(U) /\ s \in U
      BY <1>1
    <3> HIDE DEF U, d
    <3>2. /\ Append(out, s) \in Seq(U) /\ DOMAIN Append(out, s) = 1 .. Len(out) + 1
          /\ \A i \in DOMAIN out : Append(out, s)[i] = out[i]
          /\ Append(out, s)[Len(out) + 1] = s
      BY <3>1, Appended
    <3> QED
      BY <1>2, <3>2 DEF d
  <2>3. Gathers(s, {s})
    BY GathersOne
  <2> HIDE DEF d
  <2>4. C[n + 1] = {s} /\ \A j \in 1 .. n : C[j] = B[j]
    BY <1>2
  <2> HIDE DEF C
  <2>5. ASSUME NEW j \in DOMAIN d PROVE C[j] \in SUBSET (Q \cup {s}) /\ Gathers(d[j], C[j])
    <3>1. CASE j = n + 1
      BY <2>2, <2>3, <2>4, <3>1
    <3>2. CASE j \in 1 .. n
      BY <1>2, <1>3, <2>2, <2>4, <3>2
    <3> QED
      BY <1>2, <2>2, <3>1, <3>2
  <2>6. ASSUME NEW j \in DOMAIN d, NEW k \in DOMAIN d, j < k, NEW a \in C[j], NEW b \in C[k]
        PROVE  Before(a, b)
    <3>1. j \in 1 .. n
      BY <1>2, <2>2, <2>6
    <3>2. CASE k = n + 1
      BY <1>2, <1>3, <2>4, <2>6, <3>1, <3>2
    <3>3. CASE k \in 1 .. n
      BY <1>2, <1>3, <2>4, <2>6, <3>1, <3>3
    <3> QED
      BY <1>2, <2>2, <3>2, <3>3
  <2>7. ASSUME NEW r \in Q \cup {s} PROVE \E j \in DOMAIN d : r \in C[j]
    <3>1. n + 1 \in DOMAIN d /\ \A j \in DOMAIN out : j \in 1 .. n /\ j \in DOMAIN d
      BY <1>2, <2>2
    <3> QED
      BY <1>3, <2>4, <3>1
  <2>8. Gathered(d, Q \cup {s}, C)
    BY <2>2, <2>5, <2>6, <2>7 DEF Gathered
  <2> QED
    BY <2>1, <2>8
<1>5. CASE merges
  <2>1. n \in DOMAIN out /\ n >= 1
    BY <1>1, <1>2, <1>5
  <2> DEFINE y == MergedSignal(out[n], s)
             d == [out EXCEPT ![n] = y]
             C == [j \in 1 .. n |-> IF j = n THEN B[n] \cup {s} ELSE B[j]]
  <2>2. Absorb(out, s) = d
    BY <1>5 DEF Absorb
  <2>3. out[n].ids \cap s.ids # {}
    BY <1>5 DEF Repeats, Last
  <2>4. Gathers(y, B[n] \cup {s})
    <3> DEFINE x == out[n]
               A == B[n]
    <3>1. Gathers(x, A) /\ s \notin A /\ (\A a \in A : Before(a, s) /\ a.rule = s.rule)
          /\ x.ids \cap s.ids # {}
      BY <1>3, <2>1, <2>3
    <3> HIDE DEF x, A
    <3>3. s.rule = x.rule
      <4>1. PICK h \in A : SameHead(x, h)
        BY <3>1 DEF Gathers
      <4> QED
        BY <3>1, <4>1 DEF SameHead
    <3>2. Gathers(MergedSignal(x, s), A \cup {s})
      BY <3>1, <3>3, MergeGathers
    <3> QED
      BY <3>2 DEF x, A
  <2> HIDE DEF y
  <2>5. /\ DOMAIN d = 1 .. n /\ d[n] = y /\ \A j \in 1 .. n : j # n => d[j] = out[j]
        /\ \E U : d \in Seq(U)
    <3> DEFINE U == T \cup {y}
    <3>1. out \in Seq(U) /\ y \in U
      BY <1>1
    <3>2. d = [out EXCEPT ![n] = y]
      OBVIOUS
    <3> HIDE DEF U, d, n
    <3>3. /\ d \in Seq(U) /\ DOMAIN d = DOMAIN out
          /\ \A i \in DOMAIN out : i # n => d[i] = out[i]
          /\ d[n] = y
      BY <2>1, <3>1, <3>2, Replaced
    <3> QED
      BY <1>2, <3>3
  <2> HIDE DEF d
  <2>6. C[n] = B[n] \cup {s} /\ \A j \in 1 .. n : j # n => C[j] = B[j]
    BY <1>2, <2>1
  <2> HIDE DEF C
  <2>7. ASSUME NEW j \in DOMAIN d PROVE C[j] \in SUBSET (Q \cup {s}) /\ Gathers(d[j], C[j])
    <3>1. CASE j = n
      BY <1>3, <2>1, <2>4, <2>5, <2>6, <3>1
    <3>2. CASE j # n
      BY <1>2, <1>3, <2>5, <2>6, <3>2
    <3> QED
      BY <3>1, <3>2
  <2>8. ASSUME NEW j \in DOMAIN d, NEW k \in DOMAIN d, j < k, NEW a \in C[j], NEW b \in C[k]
        PROVE  Before(a, b)
    <3>1. j \in DOMAIN out /\ k \in DOMAIN out /\ j # n
      <4>1. j \in 1 .. n /\ k \in 1 .. n
        BY <2>5, <2>8
      <4> HIDE DEF n
      <4> QED
        BY <1>2, <2>8, <4>1
    <3>2. a \in B[j] /\ (b \in B[k] \/ b = s)
      BY <1>2, <2>6, <2>8, <3>1
    <3>3. a \in Q
      BY <1>3, <3>1, <3>2
    <3> QED
      BY <1>3, <2>8, <3>1, <3>2, <3>3
  <2>9. ASSUME NEW r \in Q \cup {s} PROVE \E j \in DOMAIN d : r \in C[j]
    <3>1. \A j \in DOMAIN out : B[j] \subseteq C[j] /\ j \in DOMAIN d
      BY <1>2, <2>5, <2>6
    <3>2. n \in DOMAIN d /\ s \in C[n]
      BY <2>1, <1>2, <2>5, <2>6
    <3> QED
      BY <1>3, <3>1, <3>2
  <2>10. Gathered(d, Q \cup {s}, C)
    BY <2>5, <2>7, <2>8, <2>9 DEF Gathered
  <2> QED
    BY <2>2, <2>10
<1> QED
  BY <1>4, <1>5

\* Vertical scans sort before fixed source ports that begin with them.
Plain(s) == s.type # "fixed_source_port_scan"

\* A plain signal is of its rule's one type.
LEMMA PlainType ==
  ASSUME NEW s, NEW r, Registered(s), Registered(r), s.rule = r.rule
  PROVE  /\ Plain(s) /\ Plain(r) => s.type = r.type
         /\ Plain(s) /\ ~Plain(r) => s.type = "vertical_scan"
<1>1. \A type \in TYPES : type \notin {"network_scan_horizontal", "network_scan_vertical",
                                      "network_flood_dos", "spi_anomaly_burst"}
  <2>1. /\ \A i \in 1 .. 36 : PRECEDENCE[i] \notin {"network_scan_horizontal",
            "network_scan_vertical", "network_flood_dos", "spi_anomaly_burst"}
    BY DEF PRECEDENCE
  <2>2. /\ \A i \in 1 .. 10 : FALLBACK[i] \notin {"network_scan_horizontal",
            "network_scan_vertical", "network_flood_dos", "spi_anomaly_burst"}
    BY DEF FALLBACK
  <2> QED
    BY <2>1, <2>2, Names DEF TYPES, Range
<1> QED
  BY <1>1 DEF Registered, RuleOf, Plain

\* The order of lists of four.
LEMMA FourBefore ==
  ASSUME NEW a \in [1 .. 4 -> Int], NEW b \in [1 .. 4 -> Int], Precedes(a, b)
  PROVE  \/ a[1] < b[1]
         \/ a[1] = b[1] /\ a[2] < b[2]
         \/ a[1] = b[1] /\ a[2] = b[2] /\ a[3] < b[3]
         \/ a[1] = b[1] /\ a[2] = b[2] /\ a[3] = b[3] /\ a[4] < b[4]
<1>1. PICK i \in 1 .. 4 : (\A j \in 1 .. i - 1 : a[j] = b[j]) /\ a[i] < b[i]
  BY DEF Precedes
<1>2. CASE i = 1
  BY <1>1, <1>2
<1>3. CASE i = 2
  BY <1>1, <1>3
<1>4. CASE i = 3
  BY <1>1, <1>4
<1>5. CASE i = 4
  BY <1>1, <1>5
<1> QED
  BY <1>2, <1>3, <1>4, <1>5

\* What the signals of one rule and entity have in common.
OneGroup(G, es) == Emission(G, es) /\ \A s, r \in G : s.rule = r.rule /\ s.entity = r.entity

\* The part of the emission key that tells the two types of a group apart.
Flag(s) == IF s.type = "fixed_source_port_scan" THEN 1 ELSE 0

\* Emission keys are lists of four integers and tell the signals of a group
\* apart.
LEMMA EmissionKeys ==
  ASSUME NEW es, EventsOK(es), NEW G, OneGroup(G, es)
  PROVE  /\ \A s \in G : EmissionKey(s) \in [1 .. 4 -> Int]
         /\ \A s, r \in G : EmissionKey(s) = EmissionKey(r) => s = r
<1>1. \A s \in G : Registered(s) /\ Formed(s, es)
  BY EmissionFacts DEF OneGroup
<1>2. \A s \in G : EmissionKey(s) = <<s.first, Flag(s), s.at, s.upto>> /\ Flag(s) \in Int
  BY DEF EmissionKey, Flag
<1>3. ASSUME NEW s \in G, NEW r \in G, EmissionKey(s) = EmissionKey(r) PROVE s = r
  <2>1. Flag(s) = Flag(r) /\ s.upto = r.upto
    BY <1>2, <1>3
  <2>2. Plain(s) <=> Plain(r)
    BY <2>1 DEF Flag, Plain
  <2>3. s.type = r.type
    BY <1>1, <2>2, PlainType DEF OneGroup, Plain
  <2> QED
    BY <2>1, <2>3, EmissionFacts DEF OneGroup
<1> QED
  BY <1>1, <1>2, <1>3 DEF Formed

\* What it means to be earlier in a group.
LEMMA Befores ==
  ASSUME NEW es, EventsOK(es), NEW G, OneGroup(G, es), NEW s \in G,
         NEW r \in G, Before(s, r)
  PROVE  /\ s # r /\ s.first <= r.first
         /\ s.first = r.first /\ Plain(r) => Plain(s)
         /\ s.type = r.type /\ s.first = r.first => TopNew(s, r, es)
         /\ s.type = "vertical_scan" /\ r.type = "vertical_scan" => TopNew(s, r, es)
<1> DEFINE a == EmissionKey(s)
           b == EmissionKey(r)
<1>1. Formed(s, es) /\ Formed(r, es)
  BY EmissionFacts DEF OneGroup
<1>2. /\ a = <<s.first, Flag(s), s.at, s.upto>> /\ b = <<r.first, Flag(r), r.at, r.upto>>
  BY DEF EmissionKey, Flag
<1>3. a \in [1 .. 4 -> Int] /\ b \in [1 .. 4 -> Int]
  BY EmissionKeys
<1>4. Precedes(a, b)
  BY DEF Before
<1>5. /\ a[1] = s.first /\ a[2] = Flag(s) /\ a[3] = s.at /\ a[4] = s.upto
      /\ b[1] = r.first /\ b[2] = Flag(r) /\ b[3] = r.at /\ b[4] = r.upto
  BY <1>2
<1> HIDE DEF a, b
<1>6. \/ a[1] < b[1]
      \/ a[1] = b[1] /\ a[2] < b[2]
      \/ a[1] = b[1] /\ a[2] = b[2] /\ a[3] < b[3]
      \/ a[1] = b[1] /\ a[2] = b[2] /\ a[3] = b[3] /\ a[4] < b[4]
  BY <1>3, <1>4, FourBefore
<1>8. /\ s.first \in Int /\ r.first \in Int /\ s.at \in Int /\ r.at \in Int
      /\ s.upto \in Int /\ r.upto \in Int
  BY <1>1 DEF Formed
<1>7. \/ s.first < r.first
      \/ s.first = r.first /\ Flag(s) < Flag(r)
      \/ /\ s.first = r.first /\ Flag(s) = Flag(r)
         /\ s.at < r.at \/ (s.at = r.at /\ s.upto < r.upto)
  <2>1. CASE a[1] < b[1]
    BY <1>5, <2>1
  <2>2. CASE a[1] = b[1] /\ a[2] < b[2]
    BY <1>5, <2>2
  <2>3. CASE a[1] = b[1] /\ a[2] = b[2] /\ a[3] < b[3]
    <3>1. s.at < r.at
      BY <1>5, <2>3
    <3>2. s.first = r.first /\ Flag(s) = Flag(r)
      BY <1>5, <2>3
    <3> QED
      BY <3>1, <3>2
  <2>4. CASE a[1] = b[1] /\ a[2] = b[2] /\ a[3] = b[3] /\ a[4] < b[4]
    BY <1>5, <2>4
  <2> QED
    BY <1>6, <2>1, <2>2, <2>3, <2>4
<1>9. s # r /\ s.first <= r.first
  BY <1>7, <1>8 DEF Flag
<1>10. s.first = r.first /\ Plain(r) => Plain(s)
  BY <1>7, <1>8 DEF Flag, Plain
<1>11. ASSUME s.type = r.type, s.first = r.first PROVE TopNew(s, r, es)
  <2>1. s.at < r.at \/ (s.at = r.at /\ s.upto < r.upto)
    BY <1>7, <1>8, <1>11 DEF Flag
  <2> QED
    BY <1>11, <2>1, EmissionFacts DEF OneGroup
<1>12. ASSUME s.type = "vertical_scan", r.type = "vertical_scan" PROVE TopNew(s, r, es)
  <2>1. CASE s.first < r.first
    BY <1>12, <2>1, EmissionFacts DEF OneGroup
  <2>2. CASE s.first = r.first
    BY <1>11, <1>12, <2>2
  <2> QED
    BY <1>8, <1>9, <2>1, <2>2
<1> QED
  BY <1>9, <1>10, <1>11, <1>12

\* What is merged of one group.
LEMMA GroupGathered ==
  ASSUME NEW es, EventsOK(es), NEW G, OneGroup(G, es)
  PROVE  \E B : Gathered(Absorbed(InEmission(G)), G, B)
<1> DEFINE key == [s \in G |-> EmissionKey(s)]
           q == InOrder(G, key)
           N == 4
<1>1. InEmission(G) = q
  BY DEF InEmission, Sorted
<1>2. IsFiniteSet(G) /\ N \in Nat /\ key \in [G -> [1 .. N -> Int]]
      /\ \A x, y \in G : key[x] = key[y] => x = y
  BY EmissionFinite, EmissionKeys DEF OneGroup
<1>3. \A x, y \in G : Precedes(key[x], key[y]) => Before(x, y)
  BY DEF Before
<1> HIDE DEF key, q, N
<1>4. /\ q \in Seq(G)
      /\ \A x \in G : \E i \in DOMAIN q : q[i] = x
      /\ \A i, j \in DOMAIN q : i < j => Precedes(key[q[i]], key[q[j]])
  BY <1>2, InOrderLists DEF q
<1> DEFINE n == Len(q)
           P(k) == {q[i] : i \in 1 .. k}
<1>5. n \in Nat /\ DOMAIN q = 1 .. n /\ \A i \in 1 .. n : q[i] \in G
  BY <1>4
<1>6. \A i, j \in 1 .. n : i < j => Before(q[i], q[j]) /\ q[i] # q[j]
  <2>1. \A i, j \in 1 .. n : i < j => Before(q[i], q[j])
    BY <1>3, <1>4, <1>5
  <2> QED
    BY <1>5, <2>1, Befores
<1> HIDE DEF n
<1>7. PICK f : /\ f[0] = <<>> /\ f[n] = Absorbed(q)
               /\ \A k \in 1 .. n : f[k] = Absorb(f[k - 1], q[k])
  BY <1>5, AbsorbFold
<1> DEFINE R(k) == \E B : Gathered(f[k], P(k), B)
           T == {k \in Nat : k <= n => R(k)}
<1>8. 0 \in T
  <2>1. P(0) = {}
    OBVIOUS
  <2>2. <<>> \in Seq(G) /\ DOMAIN <<>> = {}
    OBVIOUS
  <2>3. Gathered(<<>>, P(0), <<>>)
    BY <2>1, <2>2 DEF Gathered
  <2>4. \E B : Gathered(f[0], P(0), B)
    <3> HIDE DEF P
    <3> QED
      BY <2>3, <1>7
  <2>5. R(0)
    BY <2>4
  <2> HIDE DEF R
  <2> QED
    BY <2>5
<1>9. ASSUME NEW k \in Nat, k \in T PROVE k + 1 \in T
  <2> SUFFICES ASSUME k + 1 <= n PROVE R(k + 1)
    <3> HIDE DEF R
    <3> QED
      OBVIOUS
  <2>1. k + 1 \in 1 .. n /\ (k + 1) - 1 = k
    BY <1>9, <1>5
  <2>0. R(k)
    <3> HIDE DEF R
    <3> QED
      BY <1>9, <1>5, <2>1
  <2>2. PICK B : Gathered(f[k], P(k), B)
    BY <2>0
  <2>3. f[k + 1] = Absorb(f[k], q[k + 1])
    BY <2>1, <1>7
  <2> DEFINE s == q[k + 1]
  <2>4. s \notin P(k) /\ \A a \in P(k) : Before(a, s) /\ a.rule = s.rule
    <3>1. \A i \in 1 .. k : i \in 1 .. n /\ i < k + 1
      BY <2>1, <1>5
    <3> QED
      BY <3>1, <2>1, <1>5, <1>6 DEF OneGroup
  <2>5. DOMAIN s = SignalFields /\ s.last \in Int
    BY <1>5, <2>1, EmissionFacts DEF OneGroup, Formed
  <2>6. P(k + 1) = P(k) \cup {s}
    OBVIOUS
  <2> DEFINE out == f[k]
             Q == P(k)
  <2>7. Gathered(out, Q, B) /\ s \notin Q /\ \A a \in Q : Before(a, s) /\ a.rule = s.rule
    BY <2>2, <2>4
  <2> HIDE DEF P, s, out, Q
  <2>8. \E C : Gathered(Absorb(out, s), Q \cup {s}, C)
    BY <2>5, <2>7, AbsorbStep
  <2>9. f[k + 1] = Absorb(out, s) /\ P(k + 1) = Q \cup {s}
    BY <2>3, <2>6 DEF out, Q, s
  <2>10. \E C : Gathered(f[k + 1], P(k + 1), C)
    BY <2>8, <2>9
  <2> QED
    BY <2>10 DEF P
<1>10. n \in T
  <2> HIDE DEF T
  <2> QED
    BY <1>5, <1>8, <1>9, Inductive
<1>11. \E B : Gathered(f[n], P(n), B)
  <2>1. R(n)
    <3> HIDE DEF R
    <3> QED
      BY <1>10, <1>5
  <2> QED
    BY <2>1
<1>12. P(n) = G
  BY <1>4, <1>5
<1> HIDE DEF P
<1> QED
  BY <1>1, <1>7, <1>11, <1>12

\* Two blocks of a group, one before the other, are told apart by their ids or
\* by their keys.
LEMMA BlocksApart ==
  ASSUME NEW es, EventsOK(es), NEW A, NEW B, OneGroup(A \cup B, es), NEW x, Gathers(x, A),
         NEW y, Gathers(y, B), \A a \in A, b \in B : Before(a, b),
         x.ids = y.ids, x.key = y.key
  PROVE  FALSE
<1> DEFINE G == A \cup B
<1>1. \A s \in G : Registered(s) /\ Formed(s, es) /\ s.first \in Int
  BY EmissionFacts DEF OneGroup, Formed
<1>2. \A s, r \in G : s.rule = r.rule
  BY DEF OneGroup
<1>3. Union(A) = Union(B)
  BY DEF Gathers
<1>4. PICK h \in A : /\ \A a \in A : a = h \/ Before(h, a)
                     /\ A = {h} => x.key = h.key
                     /\ A # {h} => x.key = <<>> \/ \E z : x.key = <<TARGET, z>>
  BY DEF Gathers
<1>5. PICK b1 \in B : /\ \A b \in B : b = b1 \/ Before(b1, b)
                      /\ B = {b1} => y.key = b1.key
                      /\ \A b \in B : b = b1 \/ \E c \in B : c # b /\ b.ids \cap c.ids # {}
  BY DEF Gathers
<1>6. \A b \in B : b1.first <= b.first
  <2>1. \A b \in B : b = b1 \/ b1.first <= b.first
    BY <1>5, Befores
  <2> QED
    BY <1>1, <2>1
<1>7. \A a \in A : h.first <= a.first /\ a.first <= b1.first
  <2>1. \A a \in A : a = h \/ h.first <= a.first
    BY <1>4, Befores
  <2>2. \A a \in A : a.first <= b1.first
    BY Befores
  <2> QED
    BY <1>1, <2>1, <2>2
<1>8. h.first = b1.first
  <2>1. PICK e \in es : e.id \in h.ids /\ e.t = h.first
    BY <1>1 DEF Formed
  <2>2. PICK b \in B : e.id \in b.ids
    BY <1>3, <2>1 DEF Union
  <2>3. b.first <= e.t
    BY <1>1, <2>2 DEF Formed
  <2> QED
    BY <1>1, <1>6, <1>7, <2>1, <2>3
<1>9. \A a \in A : a.first = b1.first
  BY <1>1, <1>7, <1>8
<1>10. \A b \in B : \E a \in A : ~TopNew(a, b, es)
  <2> SUFFICES ASSUME NEW b \in B PROVE \E a \in A : ~TopNew(a, b, es)
    OBVIOUS
  <2>1. PICK e \in es : e.id \in b.ids /\ e.n = b.upto
    BY <1>1 DEF Formed
  <2>2. PICK a \in A : e.id \in a.ids
    BY <1>3, <2>1 DEF Union
  <2> QED
    BY <2>1, <2>2 DEF TopNew
<1>11. \A s, r \in G : ~Plain(s) /\ ~Plain(r) => s = r \/ s.ids \cap r.ids = {}
  BY EmissionFacts DEF OneGroup, Plain
<1>12. CASE \E a \in A : ~Plain(a)
  <2>1. PICK a \in A : ~Plain(a)
    BY <1>12
  <2>2. PICK e \in es : e.id \in a.ids /\ e.t = a.first
    BY <1>1 DEF Formed
  <2>3. PICK b \in B : e.id \in b.ids
    BY <1>3, <2>2 DEF Union
  <2>4. b.first <= e.t
    BY <1>1, <2>3 DEF Formed
  <2>5. a.first = b.first
    BY <1>1, <1>6, <1>9, <2>2, <2>4
  <2>6. ~Plain(b) /\ a # b
    BY <2>1, <2>5, Befores
  <2> QED
    BY <1>11, <2>1, <2>2, <2>3, <2>6
<1>13. CASE (\A a \in A : Plain(a)) /\ Plain(b1)
  <2>1. \A a \in A : a.type = b1.type
    BY <1>1, <1>2, <1>13, PlainType
  <2>2. \A a \in A : TopNew(a, b1, es)
    BY <1>9, <2>1, Befores
  <2> QED
    BY <1>10, <2>2
<1>14. CASE (\A a \in A : Plain(a)) /\ ~Plain(b1)
  <2>1. \A a \in A : a.type = "vertical_scan"
    BY <1>1, <1>2, <1>14, PlainType
  <2>2. \A b \in B : ~Plain(b)
    <3> SUFFICES ASSUME NEW b \in B, Plain(b) PROVE FALSE
      OBVIOUS
    <3>1. b.type = "vertical_scan"
      BY <1>1, <1>2, <1>4, <1>14, <2>1, PlainType
    <3>2. \A a \in A : TopNew(a, b, es)
      BY <2>1, <3>1, Befores
    <3> QED
      BY <1>10, <3>2
  <2>3. B = {b1}
    BY <1>5, <1>11, <2>2
  <2>4. PICK z : x.key = <<FIXED_SOURCE_PORT, z>>
    BY <1>1, <1>5, <1>14, <2>3 DEF Registered, Plain
  <2>5. x.key # <<>> /\ DOMAIN x.key # 1 .. 3 /\ x.key[1] # TARGET
    <3>1. x.key[1] = FIXED_SOURCE_PORT /\ DOMAIN x.key = 1 .. 2
      BY <2>4
    <3>2. 3 \in 1 .. 3 /\ 3 \notin 1 .. 2 /\ 1 \in 1 .. 2 /\ DOMAIN <<>> = {}
      OBVIOUS
    <3>3. x.key # <<>> /\ DOMAIN x.key # 1 .. 3
      BY <3>1, <3>2
    <3>4. x.key[1] # TARGET
      BY <3>1 DEF FIXED_SOURCE_PORT, TARGET
    <3> QED
      BY <3>3, <3>4
  <2>6. A # {h} => FALSE
    BY <1>4, <2>5
  <2>7. A = {h} => FALSE
    BY <1>1, <1>4, <2>1, <2>5 DEF Registered
  <2> QED
    BY <2>6, <2>7
<1> QED
  BY <1>12, <1>13, <1>14

-----------------------------------------------------------------------------
\* Merged signals gather signals of E, no two of them a common one, and those
\* of one group one after the other.
InTurn(x, A, y, B, es) ==
    \/ x = y /\ A = B
    \/ A \cap B = {} /\ (x.rule # y.rule \/ x.entity # y.entity)
    \/ A \cap B = {} /\ OneGroup(A \cup B, es) /\ \A a \in A, b \in B : Before(a, b)
    \/ A \cap B = {} /\ OneGroup(B \cup A, es) /\ \A a \in A, b \in B : Before(b, a)

\* Deduplication: any two merged signals gather blocks that follow each other,
\* and no event of an emitted signal is lost.
LEMMA Merging ==
  ASSUME NEW es, EventsOK(es), NEW E, Emission(E, es)
  PROVE  /\ \A x, y \in Deduplicated(E) : \E A, B \in SUBSET E :
               Gathers(x, A) /\ Gathers(y, B) /\ InTurn(x, A, y, B, es)
         /\ \A s \in E : \E x \in Deduplicated(E) : s.ids \subseteq x.ids
<1> DEFINE Group(g) == {s \in E : <<s.rule, s.entity>> = g}
           groups == {<<s.rule, s.entity>> : s \in E}
           out(g) == Absorbed(InEmission(Group(g)))
<1>1. Deduplicated(E) = UNION {Range(out(g)) : g \in groups}
  BY DEF Deduplicated
<1>2. \A g : OneGroup(Group(g), es) /\ Group(g) \in SUBSET E
  BY DEF OneGroup, Emission
<1>3. \A g : \A s \in E : s \in Group(g) <=> <<s.rule, s.entity>> = g
  OBVIOUS
<1>4. \A s \in E : <<s.rule, s.entity>> \in groups
  OBVIOUS
<1> HIDE DEF Group, groups
<1>5. \A g : \E B : Gathered(out(g), Group(g), B)
  BY <1>2, GroupGathered
<1> HIDE DEF out
<1>6. ASSUME NEW x \in Deduplicated(E), NEW y \in Deduplicated(E)
      PROVE  \E A, B \in SUBSET E : Gathers(x, A) /\ Gathers(y, B) /\ InTurn(x, A, y, B, es)
  <2>1. PICK g \in groups : x \in Range(out(g))
    BY <1>1
  <2>2. PICK d \in groups : y \in Range(out(d))
    BY <1>1
  <2>3. PICK B : Gathered(out(g), Group(g), B)
    BY <1>5
  <2>4. PICK C : Gathered(out(d), Group(d), C) /\ (g = d => C = B)
    BY <1>5, <2>3
  <2>5. PICK j \in DOMAIN out(g) : x = out(g)[j]
    BY <2>1 DEF Range
  <2>6. PICK k \in DOMAIN out(d) : y = out(d)[k]
    BY <2>2 DEF Range
  <2>7. /\ B[j] \in SUBSET Group(g) /\ Gathers(x, B[j]) /\ B[j] \in SUBSET E
        /\ C[k] \in SUBSET Group(d) /\ Gathers(y, C[k]) /\ C[k] \in SUBSET E
    BY <1>2, <2>3, <2>4, <2>5, <2>6 DEF Gathered
  <2>8. CASE g # d
    <3>1. B[j] \cap C[k] = {}
      BY <1>3, <2>7, <2>8
    <3>2. PICK a \in B[j] : SameHead(x, a)
      BY <2>7 DEF Gathers
    <3>3. PICK b \in C[k] : SameHead(y, b)
      BY <2>7 DEF Gathers
    <3>4. <<x.rule, x.entity>> = g /\ <<y.rule, y.entity>> = d
      BY <1>3, <2>7, <3>2, <3>3 DEF SameHead
    <3>5. x.rule # y.rule \/ x.entity # y.entity
      BY <2>8, <3>4
    <3> QED
      BY <2>7, <3>1, <3>5 DEF InTurn
  <2>9. CASE g = d /\ j = k
    BY <2>4, <2>5, <2>6, <2>7, <2>9 DEF InTurn
  <2>10. CASE g = d /\ j # k
    <3>1. C = B /\ B[k] \in SUBSET Group(g) /\ k \in DOMAIN out(g)
      BY <2>4, <2>6, <2>7, <2>10
    <3>2. OneGroup(B[j] \cup B[k], es) /\ OneGroup(B[k] \cup B[j], es)
      BY <1>2, <2>7, <3>1 DEF OneGroup, Emission
    <3>3. j \in Int /\ k \in Int
      <4>1. PICK T : out(g) \in Seq(T)
        BY <2>3 DEF Gathered
      <4> QED
        BY <2>5, <3>1, <4>1
    <3>4. \/ \A a \in B[j], b \in B[k] : Before(a, b)
          \/ \A a \in B[j], b \in B[k] : Before(b, a)
      BY <2>3, <2>5, <2>10, <3>1, <3>3 DEF Gathered
    <3>5. B[j] \cap B[k] = {}
      BY <3>2, <3>4, Befores
    <3> QED
      BY <2>7, <3>1, <3>2, <3>4, <3>5 DEF InTurn
  <2> QED
    BY <2>8, <2>9, <2>10
<1>7. ASSUME NEW s \in E PROVE \E x \in Deduplicated(E) : s.ids \subseteq x.ids
  <2> DEFINE g == <<s.rule, s.entity>>
  <2>1. g \in groups /\ s \in Group(g)
    BY <1>3, <1>4
  <2>2. PICK B : Gathered(out(g), Group(g), B)
    BY <1>5
  <2>3. PICK j \in DOMAIN out(g) : s \in B[j] /\ Gathers(out(g)[j], B[j])
    BY <2>1, <2>2 DEF Gathered
  <2>4. s.ids \subseteq out(g)[j].ids
    BY <2>3 DEF Gathers, Union
  <2>5. out(g)[j] \in Deduplicated(E)
    BY <1>1, <2>1, <2>3 DEF Range
  <2> QED
    BY <2>4, <2>5
<1> QED
  BY <1>6, <1>7

\* A merged signal is ordered by its first one.
LEMMA HeadKey ==
  ASSUME NEW es, EventsOK(es), NEW h, Registered(h), Formed(h, es), NEW x, SameHead(x, h)
  PROVE  /\ PrecedenceKey(x) \in [1 .. 7 -> Int]
         /\ \A r, y : Registered(r) /\ SameHead(y, r) /\ PrecedenceKey(x) = PrecedenceKey(y)
                => h.type = r.type /\ h.upto = r.upto
<1> DEFINE p(s) == Position(s.type, PRECEDENCE)
           v(s) == -SeverityRank(s.sev)
           c(s) == -s.conf
           f(s) == Position(s.type, FALLBACK)
<1>1. \A s : PrecedenceKey(s) = <<p(s), v(s), c(s), s.first, f(s), s.at, s.upto>>
  BY DEF PrecedenceKey
<1>2. v(x) \in Int
  <2>1. Position(x.sev, SEVERITIES) \in Int
    BY DEF Position, Range, SEVERITIES
  <2> HIDE DEF v
  <2>2. v(x) = -(Position(x.sev, SEVERITIES) - 1)
    BY DEF v, SeverityRank
  <2> QED
    BY <2>1, <2>2
<1>3. p(x) \in Int /\ f(x) \in Int
  BY Positions DEF Registered, SameHead
<1>4. c(x) \in Int /\ x.first \in Int /\ x.at \in Int /\ x.upto \in Int
  BY DEF Formed, SameHead
<1> HIDE DEF p, v, c, f
<1>5. PrecedenceKey(x) \in [1 .. 7 -> Int]
  BY <1>1, <1>2, <1>3, <1>4
<1>6. ASSUME NEW r, NEW y, Registered(r), SameHead(y, r), PrecedenceKey(x) = PrecedenceKey(y)
      PROVE  h.type = r.type /\ h.upto = r.upto
  <2>1. p(x) = p(y) /\ f(x) = f(y) /\ x.upto = y.upto
    BY <1>1, <1>6
  <2>2. x.type = h.type /\ y.type = r.type /\ x.upto = h.upto /\ y.upto = r.upto
    BY <1>6 DEF SameHead
  <2> QED
    BY <1>6, <2>1, <2>2, Positions DEF p, f, Registered
<1> QED
  BY <1>5, <1>6

\* The rule of a signal of these types has no other type.
LEMMA SettledType ==
  ASSUME NEW a, NEW h, Registered(a), Registered(h), a.rule = h.rule, h.type \in SENSITIVE_TYPES
  PROVE  a.type = h.type
<1>1. h.rule = h.type
  BY DEF Registered, RuleOf, SENSITIVE_TYPES, EXPOSURE_TYPES
<1>2. h.type \notin {"network_scan_horizontal", "network_scan_vertical", "network_flood_dos",
                    "spi_anomaly_burst"}
  BY DEF SENSITIVE_TYPES, EXPOSURE_TYPES
<1> QED
  BY <1>1, <1>2 DEF Registered, RuleOf

\* Hence merged signals have names of their own, and together the events that
\* were emitted (DetectionEngine._deduplicate).
LEMMA DedupShape ==
  ASSUME NEW es, EventsOK(es), NEW E, Emission(E, es)
  PROVE  Active(Deduplicated(E), es) /\ Union(Deduplicated(E)) = Union(E)
<1> DEFINE D == Deduplicated(E)
<1>1. \A x, y \in D : \E A, B \in SUBSET E :
         Gathers(x, A) /\ Gathers(y, B) /\ InTurn(x, A, y, B, es)
  BY Merging
<1>2. \A s \in E : \E x \in D : s.ids \subseteq x.ids
  BY Merging
<1> HIDE DEF D
<1>3. \A s \in E : Registered(s) /\ Formed(s, es) /\ Shown(s, es)
  BY EmissionFacts DEF Emission
<1>4. ASSUME NEW x \in D
      PROVE  /\ x.first \in Int /\ x.last \in Int /\ x.ids \in SUBSET Ids(es) /\ x.ids # {}
             /\ x.conf \in Int /\ Shown(x, es)
             /\ PrecedenceKey(x) \in [1 .. 7 -> Int]
             /\ \E h \in E : SameHead(x, h)
             /\ x.ids \subseteq Union(E)
  <2>1. PICK A \in SUBSET E : Gathers(x, A)
    BY <1>1
  <2>2. PICK h \in A : SameHead(x, h)
    BY <2>1 DEF Gathers
  <2>3. PrecedenceKey(x) \in [1 .. 7 -> Int] /\ x.first \in Int /\ x.conf \in Int
    BY <1>3, <2>2, HeadKey DEF SameHead, Formed
  <2>8. Shown(x, es)
    <3>1. x.type = h.type /\ x.family = h.family /\ x.rule = h.rule /\ Shown(h, es)
      BY <1>3, <2>2 DEF SameHead
    <3>2. ASSUME x.type \in SENSITIVE_TYPES, NEW e \in EventsOf(es, x.ids) PROVE Reaches(e)
      <4>1. PICK a \in A : e \in EventsOf(es, a.ids)
        BY <2>1 DEF Gathers, Union, EventsOf
      <4>2. a.rule = h.rule /\ Registered(a) /\ Registered(h) /\ Shown(a, es)
        BY <1>3, <2>1, <3>1 DEF Gathers
      <4>3. a.type = h.type
        BY <3>1, <3>2, <4>2, SettledType
      <4> QED
        BY <3>1, <3>2, <4>1, <4>2, <4>3 DEF Shown
    <3> QED
      BY <3>1, <3>2 DEF Shown
  <2>4. x.ids = Union(A) /\ x.last \in Int
    BY <2>1 DEF Gathers
  <2>5. Union(A) \in SUBSET Ids(es)
    BY <1>3 DEF Formed, Union
  <2>6. Union(A) # {}
    BY <1>3, <2>2 DEF Formed, Union
  <2>7. Union(A) \subseteq Union(E)
    BY DEF Union
  <2> QED
    BY <2>2, <2>3, <2>4, <2>5, <2>6, <2>7, <2>8
<1>5. ASSUME NEW x \in D, NEW y \in D, PrecedenceKey(x) = PrecedenceKey(y) PROVE x = y
  <2>1. PICK A \in SUBSET E, B \in SUBSET E :
          Gathers(x, A) /\ Gathers(y, B) /\ InTurn(x, A, y, B, es)
    BY <1>1
  <2>2. PICK h \in A : SameHead(x, h)
    BY <2>1 DEF Gathers
  <2>3. PICK r \in B : SameHead(y, r)
    BY <2>1 DEF Gathers
  <2>4. h.type = r.type /\ h.upto = r.upto
    BY <1>3, <1>5, <2>2, <2>3, HeadKey
  <2>5. h = r
    BY <2>4, EmissionFacts
  <2> QED
    BY <2>1, <2>2, <2>3, <2>5 DEF InTurn
<1>6. ASSUME NEW x \in D, NEW y \in D, SigId(x) = SigId(y) PROVE x = y
  <2>1. PICK A \in SUBSET E, B \in SUBSET E :
          Gathers(x, A) /\ Gathers(y, B) /\ InTurn(x, A, y, B, es)
    BY <1>1
  <2>2. x.rule = y.rule /\ x.entity = y.entity /\ x.key = y.key /\ x.ids = y.ids
    BY <1>6 DEF SigId
  <2>3. ASSUME OneGroup(A \cup B, es), \A a \in A, b \in B : Before(a, b) PROVE FALSE
    BY <2>1, <2>2, <2>3, BlocksApart
  <2>4. ASSUME OneGroup(B \cup A, es), \A a \in A, b \in B : Before(b, a) PROVE FALSE
    <3>1. \A b \in B, a \in A : Before(b, a)
      BY <2>4
    <3> QED
      BY <2>1, <2>2, <2>4, <3>1, BlocksApart
  <2> QED
    BY <2>1, <2>2, <2>3, <2>4 DEF InTurn
<1>7. IsFiniteSet(D)
  <2> DEFINE f == [h \in E |-> CHOOSE x \in D : PrecedenceKey(x) = PrecedenceKey(h)]
  <2>1. ASSUME NEW x \in D PROVE \E h \in E : f[h] = x
    <3>1. PICK h \in E : SameHead(x, h)
      BY <1>4
    <3>2. PrecedenceKey(x) = PrecedenceKey(h)
      BY <3>1 DEF SameHead, PrecedenceKey
    <3> QED
      BY <1>5, <3>1, <3>2
  <2> HIDE DEF f
  <2>2. IsFiniteSet({f[h] : h \in E})
    BY EmissionFinite, FiniteImage
  <2>3. D \subseteq {f[h] : h \in E}
    BY <2>1
  <2> QED
    BY <2>2, <2>3, FS_Subset
<1>8. Active(D, es)
  BY <1>4, <1>5, <1>6, <1>7 DEF Active
<1>9. Union(D) = Union(E)
  BY <1>2, <1>4 DEF Union
<1> QED
  BY <1>8, <1>9 DEF D

-----------------------------------------------------------------------------
(***************************************************************************)
(* The pipeline.                                                           *)
(***************************************************************************)

\* What is not known yet at a stage is empty.
Unknown ==
    /\ stage \in {"receiving", "selected", "evaluated", "deduplicated", "done"}
    /\ stage = "receiving" => eligible = {}
    /\ stage \in {"receiving", "selected"} => emitted = {}
    /\ stage \in {"receiving", "selected", "evaluated"} => suppressed = {} /\ signals = {}
    /\ stage # "done" => incidents = {} /\ uncorrelated = {}

\* What holds between any two steps: the events that the engine accepted have
\* ids and ranks of their own, the rules emitted what their windows tell, the
\* active signals have names of their own and together the events of the
\* signals that were not suppressed, and the incidents share them out.
PipelineInvariant ==
    /\ theme \in Themes /\ Unknown
    /\ CandidatesOK(candidates) /\ EventsOK(eligible)
    /\ Emission(emitted, eligible) /\ Active(signals, eligible)
    /\ Union(signals) = Union(emitted \ suppressed) \/ stage = "evaluated"
    /\ Done => /\ Correlated(incidents, signals, eligible)
               /\ uncorrelated = Ids(eligible) \ Union(incidents)

\* Before the first line there is nothing.
LEMMA Nothing ==
  /\ EventsOK({}) /\ Emission({}, {}) /\ Union({}) = {} /\ Ids({}) = {}
  /\ \A es : Emission({}, es) /\ Active({}, es) /\ Correlated({}, {}, es)
<1>1. IsFiniteSet({})
  BY FS_EmptySet
<1>2. Union({}) = {} /\ Ids({}) = {}
  BY DEF Union, Ids
<1> QED
  BY <1>1, <1>2 DEF EventsOK, Emission, Active, Correlated

\* The invariant holds in the beginning,
LEMMA PipelineInit == Init => PipelineInvariant
<1> SUFFICES ASSUME Init PROVE PipelineInvariant
  OBVIOUS
<1>1. CandidatesOK(<<>>)
  <2>1. <<>> \in Seq({}) /\ DOMAIN <<>> = {}
    OBVIOUS
  <2> QED
    BY <2>1 DEF CandidatesOK
<1> QED
  BY <1>1, Nothing DEF Init, PipelineInvariant, Unknown, Done

\* and every step of the pipeline keeps it: a line comes in,
LEMMA ReceiveKeeps == PipelineInvariant /\ Receive => PipelineInvariant'
<1> SUFFICES ASSUME PipelineInvariant, Receive PROVE PipelineInvariant'
  OBVIOUS
<1>1. CandidatesOK(candidates) /\ theme \in Themes
  BY DEF PipelineInvariant
<1>2. CandidatesOK(candidates')
  <2> DEFINE now == IF candidates = <<>> THEN 1000
                    ELSE Max({candidates[i].t : i \in DOMAIN candidates})
  <2>0. now \in Int
    BY <1>1, LatestTime
  <2>3. \/ \E shape \in theme.shapes, gap \in theme.gaps :
             candidates' = Append(candidates,
                 With(shape, [id |-> Len(candidates) + 1, t |-> now + gap]))
        \/ candidates # <<>> /\ candidates' = Append(candidates, candidates[1])
    BY DEF Receive
  <2> HIDE DEF now
  <2>1. ASSUME NEW shape \in theme.shapes, NEW gap \in theme.gaps,
               candidates' = Append(candidates,
                   With(shape, [id |-> Len(candidates) + 1, t |-> now + gap]))
        PROVE  CandidatesOK(candidates')
    <3>2. /\ "id" \notin DOMAIN shape /\ "n" \notin DOMAIN shape
          /\ "t" \in DOMAIN shape => shape.t \in Int
          /\ \A x \in {"src", "sport", "dst", "tdst"} : x \in DOMAIN shape /\ shape[x] \in Int
      BY <1>1, ThemesAssumption
    <3>3. gap \in Int
      BY <1>1, ThemesAssumption
    <3> DEFINE later == now + gap
    <3>4. later \in Int
      BY <2>0, <3>3
    <3> HIDE DEF later
    <3>5. CandidatesOK(Append(candidates, With(shape, [id |-> Len(candidates) + 1, t |-> later])))
      BY <1>1, <3>2, <3>4, NewCandidate
    <3> QED
      BY <2>1, <3>5 DEF later
  <2>2. ASSUME candidates # <<>>, candidates' = Append(candidates, candidates[1])
        PROVE  CandidatesOK(candidates')
    BY <1>1, <2>2, RepeatedCandidate
  <2> QED
    BY <2>1, <2>2, <2>3
<1>3. UNCHANGED <<theme, policy, stage, eligible, failed, emitted, suppressed,
                  signals, incidents, uncorrelated>> /\ stage = "receiving"
  BY DEF Receive
<1> QED
  BY <1>2, <1>3 DEF PipelineInvariant, Unknown, Done

\* the engine accepts events,
LEMMA SelectKeeps == PipelineInvariant /\ Select => PipelineInvariant'
<1> SUFFICES ASSUME PipelineInvariant, Select PROVE PipelineInvariant'
  OBVIOUS
<1>1. EventsOK(eligible')
  <2> DEFINE es == EligibleEvents(candidates)
  <2>1. /\ IsFiniteSet(es) /\ \A e \in es : Delivered(e) /\ e.id \in Int
        /\ \A e, f \in es : e.id = f.id => e = f
    BY EligibleDelivered DEF PipelineInvariant
  <2> HIDE DEF es
  <2>2. EventsOK(Ranked(es))
    BY <2>1, RankedEvents
  <2> QED
    BY <2>2 DEF Select, es
<1>2. /\ stage = "receiving" /\ eligible = {} /\ emitted = {} /\ suppressed = {} /\ signals = {}
      /\ incidents = {} /\ uncorrelated = {} /\ theme \in Themes /\ CandidatesOK(candidates)
  BY DEF Select, PipelineInvariant, Unknown
<1>3. /\ theme' = theme /\ candidates' = candidates /\ emitted' = {} /\ suppressed' = {}
      /\ signals' = {} /\ incidents' = {} /\ uncorrelated' = {}
      /\ stage' = IF eligible' = {} THEN "done" ELSE "selected"
  BY <1>2 DEF Select
<1>4. CASE eligible' = {}
  <2>1. stage' = "done" /\ Ids(eligible') = {} /\ Union(incidents') = {}
    BY <1>3, <1>4, Nothing
  <2> QED
    BY <1>1, <1>2, <1>3, <2>1, Nothing DEF PipelineInvariant, Unknown, Done
<1>5. CASE eligible' # {}
  <2>1. stage' = "selected"
    BY <1>3, <1>5
  <2> QED
    BY <1>1, <1>2, <1>3, <2>1, Nothing DEF PipelineInvariant, Unknown, Done
<1> QED
  BY <1>4, <1>5

\* the rules emit and the engine deduplicates,
LEMMA RunRulesKeeps == PipelineInvariant /\ RunRules => PipelineInvariant'
<1> SUFFICES ASSUME PipelineInvariant, RunRules PROVE PipelineInvariant'
  OBVIOUS
<1>1. PICK rules \in SUBSET DEFAULT_RULES :
        emitted' = UNION {Evaluate(rule, eligible) : rule \in rules}
  BY DEF RunRules
<1>2. Emission(emitted', eligible)
  BY <1>1, EmittedShape DEF PipelineInvariant
<1>3. /\ stage = "selected" /\ stage' = "evaluated"
      /\ UNCHANGED <<theme, policy, candidates, eligible, suppressed, signals, incidents,
                     uncorrelated>>
  BY DEF RunRules
<1> QED
  BY <1>2, <1>3 DEF PipelineInvariant, Unknown, Done

\* the analyst's rules suppress,
LEMMA SuppressKeeps == PipelineInvariant /\ Suppress => PipelineInvariant'
<1> SUFFICES ASSUME PipelineInvariant, Suppress PROVE PipelineInvariant'
  OBVIOUS
<1> DEFINE E == emitted \ suppressed'
<1>1. Emission(E, eligible) /\ EventsOK(eligible)
  BY DEF PipelineInvariant, Emission
<1> HIDE DEF E
<1>2. signals' = Deduplicated(E)
  BY DEF Suppress, E
<1>3. Active(signals', eligible) /\ Union(signals') = Union(E)
  BY <1>1, <1>2, DedupShape
<1>4. /\ stage = "evaluated" /\ stage' = "deduplicated"
      /\ UNCHANGED <<theme, policy, candidates, eligible, failed, emitted, incidents,
                     uncorrelated>>
  BY DEF Suppress
<1> QED
  BY <1>3, <1>4 DEF PipelineInvariant, Unknown, Done, E

\* and the correlator makes incidents.
LEMMA CorrelateKeeps == PipelineInvariant /\ Correlate => PipelineInvariant'
<1> SUFFICES ASSUME PipelineInvariant, Correlate PROVE PipelineInvariant'
  OBVIOUS
<1>1. /\ stage = "deduplicated" /\ stage' = "done"
      /\ UNCHANGED <<theme, policy, candidates, eligible, failed, emitted, suppressed, signals>>
      /\ uncorrelated' = Ids(eligible) \ Union(incidents')
  BY DEF Correlate, Ids, Union
<1>2. EventsOK(eligible) /\ Active(signals, eligible)
  BY DEF PipelineInvariant
<1>3. Correlated(incidents', signals, eligible)
  <2>1. CASE signals = {}
    BY <2>1, Nothing DEF Correlate
  <2>2. CASE signals # {}
    <3> DEFINE context == ContextEvents(candidates)
    <3>1. incidents' = CorrelatedIncidents(signals, eligible, context)
      BY <2>2 DEF Correlate
    <3> HIDE DEF context
    <3> QED
      BY <1>2, <3>1, CorrelatedShape
  <2> QED
    BY <2>1, <2>2
<1> QED
  BY <1>1, <1>3 DEF PipelineInvariant, Unknown, Done

\* The invariant of DetectionEngine.run, CorrelationEngine.correlate and the
\* stages between: it holds throughout.
THEOREM PipelineInvariance == Spec => []PipelineInvariant
<1>1. PipelineInvariant /\ [Next]_vars => PipelineInvariant'
  <2> SUFFICES ASSUME PipelineInvariant, [Next]_vars PROVE PipelineInvariant'
    OBVIOUS
  <2>1. CASE UNCHANGED vars
    BY <2>1 DEF vars, PipelineInvariant, Unknown, Done
  <2> QED
    BY <2>1, ReceiveKeeps, SelectKeeps, RunRulesKeeps, SuppressKeeps, CorrelateKeeps DEF Next
<1> QED
  BY <1>1, PipelineInit, PTL DEF Spec

\* Every accepted event is either in an incident, through a signal that was not
\* suppressed, or reported as uncorrelated, however signals are merged and
\* grouped (DetectionEngine.run, the uncorrelated_event_ids of the result).
THEOREM EveryEventAccounted == Spec => []EventsAccounted
<1>1. PipelineInvariant => EventsAccounted
  <2> SUFFICES ASSUME PipelineInvariant, Done
               PROVE  uncorrelated = {e.id : e \in eligible} \ Union(emitted \ suppressed)
    BY DEF EventsAccounted
  <2>1. Union(incidents) = Union(emitted \ suppressed)
    BY DEF PipelineInvariant, Correlated, Done
  <2>2. uncorrelated = Ids(eligible) \ Union(incidents)
    BY DEF PipelineInvariant
  <2> QED
    BY <2>1, <2>2 DEF Ids
<1> QED
  BY <1>1, PipelineInvariance, PTL

\* The severity of an incident follows what its events show: reconnaissance that
\* was blocked stays low or medium, allowed access to critical management is
\* critical (IncidentBuilder._incident_severity).
THEOREM SeverityFollows == Spec => []SeverityFollowsEvents
<1>1. PipelineInvariant => SeverityFollowsEvents
  <2> SUFFICES ASSUME PipelineInvariant, Done PROVE SeverityFollowsEvents
    BY DEF SeverityFollowsEvents
  <2> SUFFICES ASSUME NEW i \in incidents, NEW W, W = EventsOf(eligible, i.ids)
      PROVE  LET allowed == {e \in W : IsAllowed(e)}
             IN  /\ i.family \in RECON /\ allowed = {} => i.sev \in {"low", "medium"}
                 /\ (i.family \in EVENT_AWARE /\ \E e \in allowed :
                        EffectivePort(e) \in CRITICAL_MANAGEMENT_PORTS) => i.sev = "critical"
    BY DEF SeverityFollowsEvents
  <2> DEFINE R == SignalsOf(signals, i.signals)
             family == i.family
  <2>1. i.sev = IncidentSeverity(family, R, W)
    BY DEF PipelineInvariant, Correlated, Told, TellsOf
  <2> HIDE DEF R, family
  <2>2. ASSUME family \in RECON, {e \in W : IsAllowed(e)} = {}
        PROVE  i.sev \in {"low", "medium"}
    BY <2>1, <2>2, BlockedScanning
  <2>3. ASSUME family \in EVENT_AWARE, NEW e \in W, IsAllowed(e),
               EffectivePort(e) \in CRITICAL_MANAGEMENT_PORTS
        PROVE  i.sev = "critical"
    BY <2>1, <2>3, CriticalAccess
  <2> QED
    BY <2>2, <2>3 DEF family
<1> QED
  BY <1>1, PipelineInvariance, PTL

\* Every active signal is in exactly one incident, which is made of what its
\* signals tell (CorrelationEngine.correlate, IncidentBuilder.build and the
\* merging of overlapping incidents).
THEOREM SignalsTold == Spec => []SignalsToldOnce
<1>1. PipelineInvariant => SignalsToldOnce
  <2> SUFFICES ASSUME PipelineInvariant, Done PROVE SignalsToldOnce
    BY DEF SignalsToldOnce
  <2>1. /\ \A i \in incidents : Told(i, signals, eligible)
        /\ \A s \in signals : Cardinality({i \in incidents : SigId(s) \in i.signals}) = 1
    BY DEF PipelineInvariant, Correlated
  <2>2. ASSUME NEW i \in incidents, NEW own, own = {s \in signals : SigId(s) \in i.signals}
        PROVE  /\ i.ids = Union(own) /\ i.signals = {SigId(s) : s \in own}
               /\ i.first = Min({s.first : s \in own})
               /\ i.last = Max({s.last : s \in own})
               /\ i.anchor \in i.signals /\ i.absorbed = i.signals \ {i.anchor}
    <3>1. own = SignalsOf(signals, i.signals)
      BY <2>2 DEF SignalsOf
    <3>2. TellsOf(i, own, eligible)
      BY <2>1, <3>1 DEF Told
    <3>3. \E s \in own : i.anchor = SigId(s)
      BY <3>2 DEF TellsOf
    <3> QED
      BY <3>2, <3>3 DEF TellsOf, SigIds, Firsts, Lasts
  <2> QED
    BY <2>1, <2>2 DEF SignalsToldOnce
<1> QED
  BY <1>1, PipelineInvariance, PTL
=============================================================================
