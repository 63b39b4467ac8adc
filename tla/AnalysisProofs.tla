--------------------------- MODULE AnalysisProofs ---------------------------
(* Theorems about the analyses (MCAnalysis runs their instances): the      *)
(* interval sets every comparison of rules is computed with, the answers   *)
(* to a flow, what is found about the rules of a device and the rows that  *)
(* findings become, what an advisory applies to, what devices and the      *)
(* servers that authenticate them disagree about, what a check says, and    *)
(* the verdict on a path.                                                  *)
EXTENDS IntervalSets, Advisories, RuleReview, AaaCorrelation, CheckEngine, PathTrace,
        FiniteSetTheorems, WellFoundedInduction, TLAPS

-----------------------------------------------------------------------------
(* Induction and recursion *)

LEMMA Least == \A S \in SUBSET Nat : S # {} => \E x \in S : \A y \in S : x <= y
<1> SUFFICES ASSUME NEW S \in SUBSET Nat, S # {} PROVE \E x \in S : \A y \in S : x <= y
  OBVIOUS
<1>1. PICK x \in S : \A y \in S : <<y, x>> \notin OpToRel(<, Nat)
  BY NatLessThanWellFounded, WFMin
<1>2. \A y \in S : ~(y < x)
  BY <1>1 DEF OpToRel
<1> QED BY <1>2

\* What holds wherever it holds of all that rank below, holds everywhere.
LEMMA RankInduction ==
    ASSUME NEW D, NEW rank \in [D -> Nat], NEW T,
           \A x \in D : (\A y \in D : rank[y] < rank[x] => y \in T) => x \in T
    PROVE  \A x \in D : x \in T
<1> SUFFICES ASSUME NEW z \in D, z \notin T PROVE FALSE
  OBVIOUS
<1> DEFINE R == {r \in Nat : \E x \in D : x \notin T /\ rank[x] = r}
<1>1. PICK r \in R : \A q \in R : r <= q
  <2>1. R \in SUBSET Nat /\ rank[z] \in R
    OBVIOUS
  <2> HIDE DEF R
  <2> QED BY <2>1, Least
<1>2. PICK x \in D : x \notin T /\ rank[x] = r
  BY <1>1
<1>3. PICK y \in D : rank[y] < rank[x] /\ y \notin T
  BY <1>2
<1>4. rank[y] \in R
  BY <1>3
<1>5. r \in Nat /\ rank[y] \in Nat
  BY <1>1
<1> QED BY <1>1, <1>2, <1>3, <1>4, <1>5

\* A walk that goes down in rank until it stops defines a function: every recursive
\* function of the rule comparisons is one.
Descends(D, n, rank, S, stop, base, next, comb) ==
    /\ n \in Nat /\ rank \in [D -> 0 .. n] /\ stop \in SUBSET D /\ base \in [stop -> S]
    /\ next \in [D \ stop -> D] /\ comb \in [(D \ stop) \X S -> S]
    /\ \A x \in D \ stop : rank[next[x]] < rank[x]

LEMMA WalkExists ==
    ASSUME NEW D, NEW n, NEW rank, NEW S, NEW stop, NEW base, NEW next, NEW comb,
           Descends(D, n, rank, S, stop, base, next, comb)
    PROVE  \E f \in [D -> S] : \A x \in D :
              f[x] = IF x \in stop THEN base[x] ELSE comb[<<x, f[next[x]]>>]
<1> n \in Nat /\ rank \in [D -> 0 .. n] /\ stop \in SUBSET D /\ base \in [stop -> S]
    /\ next \in [D \ stop -> D] /\ comb \in [(D \ stop) \X S -> S]
    /\ \A x \in D \ stop : rank[next[x]] < rank[x]
  BY DEF Descends
<1> DEFINE Below(m) == {x \in D : rank[x] < m}
           Walks(f, m) == \A x \in Below(m) : f[x] = IF x \in stop THEN base[x] ELSE comb[<<x, f[next[x]]>>]
           Walkable(m) == \E f \in [Below(m) -> S] : Walks(f, m)
           Bad == {m \in Nat : ~Walkable(m)}
<1>1. Walkable(0)
  <2>1. Below(0) = {}
    OBVIOUS
  <2>2. [x \in {} |-> x] \in [Below(0) -> S] /\ Walks([x \in {} |-> x], 0)
    BY <2>1
  <2> QED BY <2>2
<1>2. ASSUME NEW m \in Nat, m # 0, Walkable(m - 1) PROVE Walkable(m)
  <2>4. PICK f \in [Below(m - 1) -> S] : Walks(f, m - 1)
    BY <1>2
  <2> DEFINE g == [x \in Below(m) |-> IF x \in Below(m - 1) THEN f[x]
                                       ELSE IF x \in stop THEN base[x] ELSE comb[<<x, f[next[x]]>>]]
  <2>5. \A x \in Below(m) \ stop : next[x] \in Below(m - 1) /\ next[x] \in Below(m)
    <3> TAKE x \in Below(m) \ stop
    <3>1. next[x] \in D /\ rank[next[x]] < rank[x] /\ rank[x] < m /\ rank[x] \in Int /\ rank[next[x]] \in Int /\ m \in Int
      OBVIOUS
    <3> QED BY <3>1
  <2>6. Below(m - 1) \subseteq Below(m)
    OBVIOUS
  <2>7. g \in [Below(m) -> S]
    <3>1. ASSUME NEW x \in Below(m), x \notin Below(m - 1), x \notin stop PROVE comb[<<x, f[next[x]]>>] \in S
      <4>1. f[next[x]] \in S
        BY <2>4, <2>5, <3>1
      <4>2. <<x, f[next[x]]>> \in (D \ stop) \X S
        BY <3>1, <4>1
      <4> QED BY <4>2
    <3>2. \A x \in Below(m) : x \in stop => base[x] \in S
      OBVIOUS
    <3>3. \A x \in Below(m) : (IF x \in Below(m - 1) THEN f[x] ELSE IF x \in stop THEN base[x] ELSE comb[<<x, f[next[x]]>>]) \in S
      BY <2>4, <3>1, <3>2
    <3> HIDE DEF Below, Walks
    <3> QED BY <3>3
  <2>8. Walks(g, m)
    <3> SUFFICES ASSUME NEW x \in Below(m)
                 PROVE  g[x] = IF x \in stop THEN base[x] ELSE comb[<<x, g[next[x]]>>]
      OBVIOUS
    <3>1. x \notin stop => g[next[x]] = f[next[x]]
      BY <2>5
    <3>2. x \in Below(m - 1) => g[x] = IF x \in stop THEN base[x] ELSE comb[<<x, f[next[x]]>>]
      BY <2>4
    <3>3. x \notin Below(m - 1) => g[x] = IF x \in stop THEN base[x] ELSE comb[<<x, f[next[x]]>>]
      OBVIOUS
    <3> HIDE DEF g
    <3> QED BY <3>1, <3>2, <3>3
  <2> QED BY <2>7, <2>8
<1>3. Walkable(n + 1)
  <2> HIDE DEF Walkable
  <2> SUFFICES ASSUME ~Walkable(n + 1) PROVE FALSE
    OBVIOUS
  <2>1. Bad \in SUBSET Nat /\ Bad # {}
    OBVIOUS
  <2>2. PICK m \in Bad : \A q \in Bad : m <= q
    <3> HIDE DEF Bad
    <3> QED BY <2>1, Least
  <2>3. m \in Nat /\ ~Walkable(m) /\ m # 0
    BY <1>1, <2>2
  <2>4. m - 1 \in Nat /\ ~(m <= m - 1)
    BY <2>3
  <2>5. m - 1 \notin Bad
    <3> HIDE DEF Bad
    <3> QED BY <2>2, <2>4
  <2> QED BY <1>2, <2>3, <2>4, <2>5
<1>4. Below(n + 1) = D
  <2>1. \A x \in D : rank[x] \in 0 .. n
    OBVIOUS
  <2> QED BY <2>1
<1>5. PICK f \in [Below(n + 1) -> S] : Walks(f, n + 1)
  BY <1>3
<1> QED BY <1>4, <1>5

LEMMA LoopInduction ==
    ASSUME NEW n \in Nat, NEW T, 0 \in T, \A k \in 1 .. n : k - 1 \in T => k \in T
    PROVE  \A k \in 0 .. n : k \in T
<1> DEFINE D == 0 .. n
           rank == [k \in D |-> k]
<1>1. rank \in [D -> Nat]
  OBVIOUS
<1>2. ASSUME NEW x \in D, \A y \in D : rank[y] < rank[x] => y \in T PROVE x \in T
  <2>1. CASE x = 0
    BY <2>1
  <2>2. CASE x # 0
    <3>1. x - 1 \in D /\ rank[x - 1] < rank[x] /\ x \in 1 .. n
      BY <2>2
    <3> QED BY <1>2, <3>1
  <2> QED BY <2>1, <2>2
<1> HIDE DEF D, rank
<1>3. \A x \in D : x \in T
  BY <1>1, <1>2, RankInduction
<1> QED BY <1>3 DEF D

\* A loop over 1 .. n defines a function too.
Loop(n, S, base, step) == n \in Nat /\ base \in S /\ step \in [(1 .. n) \X S -> S]

LEMMA LoopExists ==
    ASSUME NEW n, NEW S, NEW base, NEW step, Loop(n, S, base, step)
    PROVE  \E f \in [0 .. n -> S] : f[0] = base /\ \A k \in 1 .. n : f[k] = step[<<k, f[k - 1]>>]
<1> n \in Nat /\ base \in S /\ step \in [(1 .. n) \X S -> S]
  BY DEF Loop
<1> DEFINE D == 0 .. n
           rank == [k \in D |-> k]
           stop == {0}
           at == [k \in stop |-> base]
           next == [k \in D \ stop |-> k - 1]
<1>1. rank \in [D -> 0 .. n] /\ stop \in SUBSET D /\ at \in [stop -> S] /\ next \in [D \ stop -> D]
  OBVIOUS
<1>2. D \ stop = 1 .. n /\ step \in [(D \ stop) \X S -> S]
  OBVIOUS
<1>3. \A x \in D \ stop : rank[next[x]] < rank[x]
  OBVIOUS
<1>4. PICK f \in [D -> S] : \A x \in D : f[x] = IF x \in stop THEN at[x] ELSE step[<<x, f[next[x]]>>]
  <2> HIDE DEF D, rank, stop, at, next
  <2>1. Descends(D, n, rank, S, stop, at, next, step)
    BY <1>1, <1>2, <1>3 DEF Descends
  <2> QED BY <2>1, WalkExists
<1>5. f[0] = base
  <2>1. 0 \in D /\ 0 \in stop /\ at[0] = base
    OBVIOUS
  <2> HIDE DEF D, rank, stop, at, next
  <2> QED BY <1>4, <2>1
<1>6. \A k \in 1 .. n : f[k] = step[<<k, f[k - 1]>>]
  BY <1>4
<1> QED BY <1>5, <1>6

-----------------------------------------------------------------------------
(* Interval sets *)

\* Sorted, merged and apart: at least one value lies between two intervals.
Canonical(s) ==
    /\ s \in Seq(Pair)
    /\ \A i, j \in DOMAIN s : i < j => s[i][2] + 1 < s[j][1]

InPair(p, v) == p[1] <= v /\ v <= p[2]
Keeps(s, v) == \E i \in DOMAIN s : InPair(s[i], v)

LEMMA PairIs == \A p \in Pair : p = <<p[1], p[2]>> /\ p[1] \in Value /\ p[2] \in Value /\ p[1] \in Nat /\ p[2] \in Nat /\ p[1] <= p[2] /\ p[2] <= Top
BY IntervalAssumption DEF Pair, Value

LEMMA PairMade == \A a, b \in Nat : a <= b /\ b <= Top => <<a, b>> \in Pair /\ <<a, b>>[1] = a /\ <<a, b>>[2] = b
BY IntervalAssumption DEF Pair, Value

LEMMA ValuesAre ==
    ASSUME NEW s \in Seq(Pair)
    PROVE  \A v : v \in Values(s) <=> v \in Value /\ Keeps(s, v)
<1>1. ToSet(s) = {s[i] : i \in DOMAIN s} /\ \A i \in DOMAIN s : s[i] \in Pair
  BY DEF ToSet
<1>2. ASSUME NEW v, v \in Values(s) PROVE v \in Value /\ Keeps(s, v)
  <2>1. PICK p \in ToSet(s) : v \in p[1] .. p[2]
    BY <1>2 DEF Values
  <2>2. PICK i \in DOMAIN s : p = s[i]
    BY <1>1, <2>1
  <2>3. p \in Pair
    BY <1>1, <2>2
  <2>4. v \in Value /\ InPair(s[i], v)
    BY <2>1, <2>2, <2>3, PairIs, IntervalAssumption DEF Value, InPair
  <2> QED BY <2>4 DEF Keeps
<1>3. ASSUME NEW v \in Value, Keeps(s, v) PROVE v \in Values(s)
  <2>1. PICK i \in DOMAIN s : InPair(s[i], v)
    BY <1>3 DEF Keeps
  <2>2. v \in s[i][1] .. s[i][2] /\ s[i] \in ToSet(s)
    BY <1>1, <2>1, PairIs, IntervalAssumption DEF Value, InPair
  <2> QED BY <2>2 DEF Values
<1> QED BY <1>2, <1>3

LEMMA GreatestOf ==
    ASSUME NEW n \in Nat, NEW S, S \subseteq 0 .. n, S # {}
    PROVE  \E x \in S : \A y \in S : y <= x
<1> DEFINE R == {n - x : x \in S}
<1>1. R \in SUBSET Nat /\ R # {}
  <2>1. \A x \in S : n - x \in Nat
    OBVIOUS
  <2>2. PICK x \in S : TRUE
    OBVIOUS
  <2>3. n - x \in R
    OBVIOUS
  <2> QED BY <2>1, <2>3
<1>2. PICK r \in R : \A q \in R : r <= q
  <2> HIDE DEF R
  <2> QED BY <1>1, Least
<1>3. PICK x \in S : r = n - x
  BY <1>2
<1>4. ASSUME NEW y \in S PROVE y <= x
  <2>1. n - y \in R /\ n - x <= n - y
    BY <1>2, <1>3
  <2>2. x \in Int /\ y \in Int
    BY <1>3
  <2> QED BY <2>1, <2>2
<1> QED BY <1>3, <1>4

Before(p, q) == p[1] < q[1] \/ (p[1] = q[1] /\ p[2] < q[2])

LEMMA GreatestPair ==
    ASSUME NEW S \in SUBSET Pair, S # {}
    PROVE  \E m \in S : \A p \in S : p = m \/ Before(p, m)
<1> DEFINE A == {p[1] : p \in S}
<1>1. A \subseteq 0 .. Top /\ A # {}
  BY PairIs, IntervalAssumption DEF Value
<1>2. PICK a \in A : \A y \in A : y <= a
  <2> HIDE DEF A
  <2> QED BY <1>1, GreatestOf, IntervalAssumption
<1> DEFINE B == {p[2] : p \in {q \in S : q[1] = a}}
<1>3. B \subseteq 0 .. Top /\ B # {}
  BY <1>2, PairIs, IntervalAssumption DEF Value
<1>4. PICK b \in B : \A y \in B : y <= b
  <2> HIDE DEF B
  <2> QED BY <1>3, GreatestOf, IntervalAssumption
<1>5. PICK m \in S : m[1] = a /\ m[2] = b
  BY <1>4
<1>6. ASSUME NEW p \in S PROVE p = m \/ Before(p, m)
  <2>1. p = <<p[1], p[2]>> /\ m = <<m[1], m[2]>> /\ p[1] \in Int /\ p[2] \in Int /\ m[1] \in Int /\ m[2] \in Int
    BY PairIs
  <2>2. p[1] <= m[1]
    BY <1>2, <1>5
  <2>3. p[1] = m[1] => p[2] <= m[2]
    BY <1>4, <1>5
  <2> QED BY <2>1, <2>2, <2>3 DEF Before
<1> QED BY <1>6

Enumerates(s, S) ==
    /\ s \in [1 .. Cardinality(S) -> S] /\ ToSet(s) = S
    /\ \A i, j \in DOMAIN s : i < j => Before(s[i], s[j])

LEMMA Enumerable ==
    ASSUME NEW S \in SUBSET Pair, IsFiniteSet(S)
    PROVE  \E s : Enumerates(s, S)
<1> DEFINE T == {n \in Nat : \A U \in SUBSET Pair : IsFiniteSet(U) /\ Cardinality(U) = n => \E s : Enumerates(s, U)}
<1>1. 0 \in T
  <2> SUFFICES ASSUME NEW U \in SUBSET Pair, IsFiniteSet(U), Cardinality(U) = 0 PROVE \E s : Enumerates(s, U)
    OBVIOUS
  <2>1. U = {} /\ 1 .. Cardinality(U) = {}
    BY FS_EmptySet
  <2>2. Enumerates([i \in {} |-> i], U)
    BY <2>1 DEF Enumerates, ToSet
  <2> QED BY <2>2
<1>2. ASSUME NEW n \in Nat \ {0}, n - 1 \in T PROVE n \in T
  <2> SUFFICES ASSUME NEW U \in SUBSET Pair, IsFiniteSet(U), Cardinality(U) = n PROVE \E s : Enumerates(s, U)
    OBVIOUS
  <2>1. U # {}
    BY FS_EmptySet
  <2>2. PICK m \in U : \A p \in U : p = m \/ Before(p, m)
    BY <2>1, GreatestPair
  <2> DEFINE V == U \ {m}
  <2>3. IsFiniteSet(V) /\ Cardinality(V) = n - 1
    BY FS_RemoveElement
  <2>4. PICK t : Enumerates(t, V)
    BY <1>2, <2>3
  <2>5. t \in [1 .. n - 1 -> V] /\ (\A i, j \in 1 .. n - 1 : i < j => Before(t[i], t[j])) /\ \A p \in V : \E i \in 1 .. n - 1 : t[i] = p
    BY <2>3, <2>4 DEF Enumerates, ToSet
  <2> DEFINE s == [i \in 1 .. n |-> IF i = n THEN m ELSE t[i]]
  <2>6. s \in [1 .. n -> U] /\ \A i \in 1 .. n : s[i] = IF i = n THEN m ELSE t[i]
    <3>1. \A i \in 1 .. n : i # n => i \in 1 .. n - 1
      OBVIOUS
    <3> QED BY <2>5, <3>1
  <2> HIDE DEF s
  <2>7. \A i, j \in 1 .. n : i < j => Before(s[i], s[j])
    <3> SUFFICES ASSUME NEW i \in 1 .. n, NEW j \in 1 .. n, i < j PROVE Before(s[i], s[j])
      OBVIOUS
    <3>1. i \in 1 .. n - 1 /\ s[i] = t[i] /\ t[i] \in V
      BY <2>5, <2>6
    <3>2. CASE j = n
      BY <2>2, <2>6, <3>1, <3>2
    <3>3. CASE j # n
      <4>1. j \in 1 .. n - 1 /\ s[j] = t[j]
        BY <2>6, <3>3
      <4> QED BY <2>5, <3>1, <4>1
    <3> QED BY <3>2, <3>3
  <2>8. ToSet(s) = U
    <3>1. ToSet(s) = {s[i] : i \in 1 .. n}
      BY <2>6 DEF ToSet
    <3>2. \A p \in U : \E i \in 1 .. n : s[i] = p
      <4> TAKE p \in U
      <4>1. CASE p = m
        BY <2>6, <4>1
      <4>2. CASE p # m
        <5>1. PICK i \in 1 .. n - 1 : t[i] = p
          BY <2>5, <4>2
        <5>2. i \in 1 .. n /\ i # n
          OBVIOUS
        <5> QED BY <2>6, <5>1, <5>2
      <4> QED BY <4>1, <4>2
    <3> QED BY <2>6, <3>1, <3>2
  <2>9. DOMAIN s = 1 .. n
    BY <2>6
  <2> QED BY <2>6, <2>7, <2>8, <2>9 DEF Enumerates
<1>3. Cardinality(S) \in Nat
  BY FS_CardinalityType
<1>4. \A k \in 0 .. Cardinality(S) : k \in T
  <2> HIDE DEF T
  <2>1. \A k \in 1 .. Cardinality(S) : k - 1 \in T => k \in T
    BY <1>2
  <2> QED BY <1>1, <1>3, <2>1, LoopInduction
<1> QED BY <1>3, <1>4

LEMMA SortedIs ==
    ASSUME NEW S \in SUBSET Pair, IsFiniteSet(S)
    PROVE  /\ Sorted(S) \in Seq(Pair) /\ DOMAIN Sorted(S) = 1 .. Len(Sorted(S)) /\ ToSet(Sorted(S)) = S
           /\ \A i, j \in DOMAIN Sorted(S) : i < j => Before(Sorted(S)[i], Sorted(S)[j])
<1> DEFINE Right(s) == /\ ToSet(s) = S
                       /\ \A i, j \in DOMAIN s : i < j => s[i][1] < s[j][1] \/ (s[i][1] = s[j][1] /\ s[i][2] < s[j][2])
<1>1. \E s \in [1 .. Cardinality(S) -> S] : Right(s)
  BY Enumerable DEF Enumerates, Before
<1>2. Sorted(S) = CHOOSE s \in [1 .. Cardinality(S) -> S] : Right(s)
  BY DEF Sorted
<1>3. Sorted(S) \in [1 .. Cardinality(S) -> S] /\ Right(Sorted(S))
  <2> HIDE DEF Right
  <2> QED BY <1>1, <1>2
<1>4. Cardinality(S) \in Nat
  BY FS_CardinalityType
<1>5. Sorted(S) \in Seq(Pair)
  BY <1>3, <1>4
<1> QED BY <1>3, <1>4, <1>5 DEF Before

\* One more pair is merged into what is merged already.
Folded(done, p) ==
    IF Joins(done, p) THEN [done EXCEPT ![Len(done)] = <<Last(done)[1], Upper(Last(done)[2], p[2])>>]
    ELSE Append(done, p)

\* Merging is such a loop.
LEMMA MergedIs ==
    ASSUME NEW o \in Seq(Pair), \A m \in Seq(Pair), p \in Pair : Folded(m, p) \in Seq(Pair)
    PROVE  \E g : /\ g[0] = <<>> /\ g[Len(o)] = Merged(o)
                  /\ \A k \in 1 .. Len(o) : g[k] = Folded(g[k - 1], o[k])
<1> DEFINE n == Len(o)
           S == Seq(Pair)
           Eq(f) == f = [k \in 0 .. n |-> IF k = 0 THEN <<>> ELSE Folded(f[k - 1], o[k])]
           step == [x \in (1 .. n) \X S |-> Folded(x[2], o[x[1]])]
<1>1. n \in Nat /\ (\A k \in 1 .. n : o[k] \in Pair) /\ <<>> \in S
  OBVIOUS
<1>2. \A m \in S, p \in Pair : Folded(m, p) \in S
  OBVIOUS
<1>3. Merged(o) = (CHOOSE g : Eq(g))[n]
  BY DEF Merged, Folded
<1> HIDE DEF n, S
<1>4. step \in [(1 .. n) \X S -> S]
  BY <1>1, <1>2
<1>5. PICK f \in [0 .. n -> S] : f[0] = <<>> /\ \A k \in 1 .. n : f[k] = step[<<k, f[k - 1]>>]
  <2> HIDE DEF step
  <2>1. Loop(n, S, <<>>, step)
    BY <1>1, <1>4 DEF Loop
  <2> QED BY <2>1, LoopExists
<1>6. \A k \in 1 .. n : f[k] = Folded(f[k - 1], o[k])
  <2> TAKE k \in 1 .. n
  <2>1. k - 1 \in 0 .. n
    BY <1>1
  <2>2. <<k, f[k - 1]>> \in (1 .. n) \X S
    BY <2>1
  <2> QED BY <1>5, <2>2
<1>7. Eq(f)
  <2>1. \A k \in 0 .. n : f[k] = IF k = 0 THEN <<>> ELSE Folded(f[k - 1], o[k])
    BY <1>1, <1>5, <1>6
  <2> QED BY <2>1
<1>8. Eq(CHOOSE g : Eq(g))
  <2> HIDE DEF Eq
  <2> QED BY <1>7
<1> DEFINE g == CHOOSE g : Eq(g)
<1> HIDE DEF g
<1>9. g = [k \in 0 .. n |-> IF k = 0 THEN <<>> ELSE Folded(g[k - 1], o[k])] /\ g[n] = Merged(o)
  BY <1>3, <1>8 DEF g
<1>10. g[0] = <<>> /\ \A k \in 1 .. n : g[k] = Folded(g[k - 1], o[k])
  <2>1. \A k \in 0 .. n : g[k] = IF k = 0 THEN <<>> ELSE Folded(g[k - 1], o[k])
    BY <1>9
  <2> QED BY <1>1, <2>1
<1> QED BY <1>9, <1>10 DEF n

LEMMA FoldedIs ==
    ASSUME NEW m \in Seq(Pair), NEW p \in Pair
    PROVE  /\ Folded(m, p) \in Seq(Pair) /\ Folded(m, p) # <<>>
           /\ Joins(m, p) => /\ m # <<>> /\ Len(Folded(m, p)) = Len(m)
                             /\ \A i \in 1 .. Len(m) - 1 : Folded(m, p)[i] = m[i]
                             /\ Folded(m, p)[Len(m)] = <<m[Len(m)][1], Upper(m[Len(m)][2], p[2])>>
           /\ ~Joins(m, p) => /\ Len(Folded(m, p)) = Len(m) + 1
                              /\ \A i \in 1 .. Len(m) : Folded(m, p)[i] = m[i]
                              /\ Folded(m, p)[Len(m) + 1] = p
<1>1. CASE Joins(m, p)
  <2>1. m # <<>> /\ Len(m) \in 1 .. Len(m) /\ m[Len(m)] \in Pair /\ Last(m) = m[Len(m)]
    BY <1>1 DEF Joins, Last
  <2> DEFINE q == <<m[Len(m)][1], Upper(m[Len(m)][2], p[2])>>
  <2>2. q \in Pair
    BY <2>1, PairIs, PairMade DEF Upper
  <2>3. Folded(m, p) = [m EXCEPT ![Len(m)] = q]
    BY <1>1, <2>1 DEF Folded
  <2> HIDE DEF q
  <2>4. Folded(m, p) \in Seq(Pair) /\ Len(Folded(m, p)) = Len(m) /\ Folded(m, p)[Len(m)] = q
        /\ \A i \in 1 .. Len(m) - 1 : Folded(m, p)[i] = m[i]
    BY <2>1, <2>2, <2>3
  <2> QED BY <1>1, <2>1, <2>4 DEF q
<1>2. CASE ~Joins(m, p)
  BY <1>2 DEF Folded
<1> QED BY <1>1, <1>2

LEMMA FoldedGrows ==
    ASSUME NEW m, Canonical(m), NEW p \in Pair, m # <<>> => m[Len(m)][1] <= p[1]
    PROVE  /\ Canonical(Folded(m, p)) /\ Folded(m, p) # <<>>
           /\ Folded(m, p)[Len(Folded(m, p))][1] <= p[1]
           /\ \A v \in Int : Keeps(Folded(m, p), v) <=> Keeps(m, v) \/ InPair(p, v)
<1> DEFINE n == Len(m)
           f == Folded(m, p)
<1>1. m \in Seq(Pair) /\ n \in Nat /\ DOMAIN m = 1 .. n /\ \A i \in 1 .. n : m[i] \in Pair /\ m[i][1] \in Nat /\ m[i][2] \in Nat /\ m[i][1] <= m[i][2]
  BY PairIs DEF Canonical
<1>2. \A i, j \in 1 .. n : i < j => m[i][2] + 1 < m[j][1]
  BY <1>1 DEF Canonical
<1>3. p[1] \in Nat /\ p[2] \in Nat /\ p[1] <= p[2]
  BY PairIs
<1>4. f \in Seq(Pair) /\ f # <<>> /\ DOMAIN f = 1 .. Len(f)
  BY <1>1, FoldedIs
<1>5. CASE Joins(m, p)
  <2>1. n \in 1 .. n /\ Len(f) = n /\ f[n] = <<m[n][1], Upper(m[n][2], p[2])>> /\ \A i \in 1 .. n - 1 : f[i] = m[i]
    <3>1. m # <<>>
      BY <1>5 DEF Joins
    <3>2. n \in 1 .. n
      BY <1>1, <3>1
    <3>3. Len(f) = n /\ f[n] = <<m[n][1], Upper(m[n][2], p[2])>> /\ \A i \in 1 .. n - 1 : f[i] = m[i]
      BY <1>1, <1>5, FoldedIs
    <3> QED BY <3>2, <3>3
  <2>2. p[1] <= m[n][2] + 1 /\ m[n][1] <= p[1]
    BY <1>1, <1>5, <2>1 DEF Joins, Last
  <2>3. f[n][1] = m[n][1] /\ f[n][2] = Upper(m[n][2], p[2])
    BY <2>1
  <2> HIDE DEF f, n
  <2>4. \A i, j \in 1 .. n : i < j => f[i][2] + 1 < f[j][1]
    <3> SUFFICES ASSUME NEW i \in 1 .. n, NEW j \in 1 .. n, i < j PROVE f[i][2] + 1 < f[j][1]
      OBVIOUS
    <3>1. i \in 1 .. n - 1 /\ f[i] = m[i] /\ m[i][2] + 1 < m[j][1]
      BY <1>1, <1>2, <2>1
    <3>2. f[j][1] = m[j][1]
      BY <1>1, <2>1, <2>3
    <3> QED BY <3>1, <3>2
  <2>5. \A v \in Int : InPair(f[n], v) <=> InPair(m[n], v) \/ InPair(p, v)
    BY <1>1, <1>3, <2>1, <2>2, <2>3 DEF InPair, Upper
  <2>6. \A v \in Int : (\E i \in 1 .. n : InPair(f[i], v)) <=> (\E i \in 1 .. n : InPair(m[i], v)) \/ InPair(p, v)
    <3> TAKE v \in Int
    <3>1. \A i \in 1 .. n : i = n \/ i \in 1 .. n - 1
      BY <1>1
    <3> QED BY <2>1, <2>5, <3>1
  <2> QED BY <1>1, <1>4, <2>1, <2>2, <2>3, <2>4, <2>6 DEF Canonical, Keeps, n, f
<1>6. CASE ~Joins(m, p)
  <2>1. Len(f) = n + 1 /\ f[n + 1] = p /\ \A i \in 1 .. n : f[i] = m[i]
    BY <1>1, <1>6, FoldedIs
  <2>2. n # 0 => n \in 1 .. n /\ m[n][2] + 1 < p[1]
    BY <1>1, <1>3, <1>6 DEF Joins, Last
  <2> HIDE DEF f, n
  <2>4. \A i, j \in 1 .. n + 1 : i < j => f[i][2] + 1 < f[j][1]
    <3> SUFFICES ASSUME NEW i \in 1 .. n + 1, NEW j \in 1 .. n + 1, i < j PROVE f[i][2] + 1 < f[j][1]
      OBVIOUS
    <3>1. i \in 1 .. n /\ f[i] = m[i] /\ n # 0 /\ n \in 1 .. n
      BY <1>1, <2>1
    <3>2. CASE j = n + 1
      <4>1. i # n => m[i][2] + 1 < m[n][1]
        BY <1>1, <1>2, <3>1
      <4>2. m[i][2] \in Nat /\ m[n][1] \in Nat /\ m[n][2] \in Nat /\ m[n][1] <= m[n][2]
        BY <1>1, <3>1
      <4>3. f[i][2] = m[i][2] /\ f[j][1] = p[1]
        BY <2>1, <3>1, <3>2
      <4>4. m[n][2] + 1 < p[1]
        BY <2>2, <3>1
      <4>5. m[i][2] <= m[n][2]
        <5>1. CASE i = n
          BY <4>2, <5>1
        <5>2. CASE i # n
          <6>1. m[i][2] + 1 < m[n][1]
            BY <4>1, <5>2
          <6> QED BY <4>2, <6>1
        <5> QED BY <5>1, <5>2
      <4>6. p[1] \in Nat
        BY <1>3
      <4>7. m[i][2] + 1 < p[1]
        BY <4>2, <4>4, <4>5, <4>6
      <4> QED BY <4>3, <4>7
    <3>3. CASE j # n + 1
      <4>1. n \in Nat
        BY <1>1
      <4>2. j \in 1 .. n
        BY <3>3, <4>1
      <4> QED BY <1>2, <2>1, <3>1, <4>2
    <3> QED BY <3>2, <3>3
  <2>6. \A v \in Int : (\E i \in 1 .. n + 1 : InPair(f[i], v)) <=> (\E i \in 1 .. n : InPair(m[i], v)) \/ InPair(p, v)
    <3> TAKE v \in Int
    <3>1. \A i \in 1 .. n + 1 : i = n + 1 \/ i \in 1 .. n
      BY <1>1
    <3>2. n + 1 \in 1 .. n + 1 /\ \A i \in 1 .. n : i \in 1 .. n + 1
      BY <1>1
    <3> QED BY <2>1, <3>1, <3>2
  <2>7. Canonical(f)
    BY <1>4, <2>1, <2>4 DEF Canonical
  <2>8. f[Len(f)][1] <= p[1]
    BY <1>3, <2>1
  <2>9. \A v \in Int : Keeps(f, v) <=> Keeps(m, v) \/ InPair(p, v)
    BY <1>1, <1>4, <2>1, <2>6 DEF Keeps
  <2> QED BY <1>4, <2>7, <2>8, <2>9 DEF f
<1> QED BY <1>5, <1>6

\* What `from_pairs` makes of a finite set of pairs is canonical and covers what they cover.
LEMMA FromPairsIs ==
    ASSUME NEW P \in SUBSET Pair, IsFiniteSet(P)
    PROVE  /\ Canonical(FromPairs(P))
           /\ \A v \in Int : Keeps(FromPairs(P), v) <=> \E p \in P : InPair(p, v)
<1>1. {p \in P : p[1] <= p[2]} = P
  BY PairIs
<1> DEFINE o == Sorted(P)
<1>2. FromPairs(P) = Merged(o)
  BY <1>1 DEF FromPairs
<1>3. o \in Seq(Pair) /\ DOMAIN o = 1 .. Len(o) /\ ToSet(o) = P /\ \A i, j \in DOMAIN o : i < j => Before(o[i], o[j])
  BY SortedIs
<1> HIDE DEF o
<1>4. PICK g : g[0] = <<>> /\ g[Len(o)] = Merged(o) /\ \A k \in 1 .. Len(o) : g[k] = Folded(g[k - 1], o[k])
  BY <1>3, FoldedIs, MergedIs
<1> DEFINE n == Len(o)
           Good(k) == /\ Canonical(g[k])
                      /\ g[k] # <<>> => k \in 1 .. n /\ g[k][Len(g[k])][1] <= o[k][1]
                      /\ \A v \in Int : Keeps(g[k], v) <=> \E i \in 1 .. k : InPair(o[i], v)
           T == {k \in 0 .. n : Good(k)}
<1>5. n \in Nat
  BY <1>3
<1>6. Good(0)
  <2>1. Canonical(<<>>) /\ \A v \in Int : ~Keeps(<<>>, v)
    BY DEF Canonical, Keeps
  <2> QED BY <1>4, <2>1
<1>7. ASSUME NEW k \in 1 .. n, Good(k - 1) PROVE Good(k)
  <2>1. o[k] \in Pair /\ g[k] = Folded(g[k - 1], o[k]) /\ k \in Nat
    BY <1>3, <1>4, <1>5
  <2>2. g[k - 1] # <<>> => g[k - 1][Len(g[k - 1])][1] <= o[k][1]
    <3> SUFFICES ASSUME g[k - 1] # <<>> PROVE g[k - 1][Len(g[k - 1])][1] <= o[k][1]
      OBVIOUS
    <3>1. k - 1 \in 1 .. n /\ g[k - 1][Len(g[k - 1])][1] <= o[k - 1][1] /\ k - 1 < k
      BY <1>7
    <3>2. Before(o[k - 1], o[k]) /\ o[k - 1] \in Pair
      BY <1>3, <3>1
    <3>3. o[k - 1][1] \in Int /\ o[k][1] \in Int /\ o[k - 1][1] <= o[k][1]
      BY <2>1, <3>2, PairIs DEF Before
    <3>4. g[k - 1] \in Seq(Pair) /\ g[k - 1][Len(g[k - 1])] \in Pair
      BY <1>7 DEF Canonical
    <3>5. g[k - 1][Len(g[k - 1])][1] \in Int
      BY <3>4, PairIs
    <3> QED BY <3>1, <3>3, <3>5
  <2>3. /\ Canonical(g[k]) /\ g[k] # <<>> /\ g[k][Len(g[k])][1] <= o[k][1]
        /\ \A v \in Int : Keeps(g[k], v) <=> Keeps(g[k - 1], v) \/ InPair(o[k], v)
    BY <1>7, <2>1, <2>2, FoldedGrows
  <2>4. \A v \in Int : Keeps(g[k], v) <=> \E i \in 1 .. k : InPair(o[i], v)
    <3>1. \A i \in 1 .. k : i = k \/ i \in 1 .. k - 1
      BY <2>1
    <3>2. k \in 1 .. k /\ \A i \in 1 .. k - 1 : i \in 1 .. k
      BY <2>1
    <3> QED BY <1>7, <2>3, <3>1, <3>2
  <2> QED BY <2>3, <2>4
<1>8. n \in T
  <2>1. 0 \in T
    BY <1>5, <1>6
  <2>2. \A k \in 1 .. n : k - 1 \in T => k \in T
    <3> HIDE DEF Good
    <3> QED BY <1>5, <1>7
  <2> HIDE DEF T, n
  <2>3. \A k \in 0 .. n : k \in T
    BY <1>5, <2>1, <2>2, LoopInduction
  <2> QED BY <1>5, <2>3
<1>9. Canonical(Merged(o)) /\ \A v \in Int : Keeps(Merged(o), v) <=> \E i \in 1 .. n : InPair(o[i], v)
  BY <1>4, <1>8
<1>10. \A v : (\E i \in 1 .. n : InPair(o[i], v)) <=> \E p \in P : InPair(p, v)
  <2>1. P = {o[i] : i \in 1 .. n}
    BY <1>3 DEF ToSet
  <2> QED BY <2>1
<1> QED BY <1>2, <1>9, <1>10

LEMMA CanonicalIs ==
    ASSUME NEW s, Canonical(s)
    PROVE  /\ s \in Seq(Pair) /\ Len(s) \in Nat /\ DOMAIN s = 1 .. Len(s)
           /\ \A i \in 1 .. Len(s) : s[i] \in Pair /\ s[i][1] \in Nat /\ s[i][2] \in Nat /\ s[i][1] <= s[i][2] /\ s[i][2] <= Top
           /\ \A i, j \in 1 .. Len(s) : i < j => s[i][2] + 1 < s[j][1]
<1>1. s \in Seq(Pair) /\ Len(s) \in Nat /\ DOMAIN s = 1 .. Len(s) /\ \A i \in 1 .. Len(s) : s[i] \in Pair
  BY DEF Canonical
<1>2. \A i, j \in 1 .. Len(s) : i < j => s[i][2] + 1 < s[j][1]
  BY <1>1 DEF Canonical
<1>3. \A i \in 1 .. Len(s) : s[i][1] \in Nat /\ s[i][2] \in Nat /\ s[i][1] <= s[i][2] /\ s[i][2] <= Top
  BY <1>1, PairIs
<1> QED BY <1>1, <1>2, <1>3

LEMMA StartsNoLater ==
    ASSUME NEW s, NEW t, Canonical(s), Canonical(t), \A v \in Int : Keeps(s, v) => Keeps(t, v),
           NEW k \in 1 .. Len(s), \A i \in 1 .. k - 1 : i \in 1 .. Len(t) /\ s[i] = t[i]
    PROVE  k \in 1 .. Len(t) /\ t[k][1] <= s[k][1]
<1>1. k \in Nat /\ s[k][1] \in Nat /\ s[k][2] \in Nat /\ s[k][1] <= s[k][2]
  BY CanonicalIs
<1>2. Keeps(s, s[k][1])
  BY <1>1, CanonicalIs DEF Keeps, InPair
<1>3. PICK j \in 1 .. Len(t) : InPair(t[j], s[k][1])
  <2>1. Keeps(t, s[k][1]) /\ DOMAIN t = 1 .. Len(t)
    BY <1>1, <1>2, CanonicalIs
  <2> QED BY <2>1 DEF Keeps
<1>4. ~(j < k)
  <2> SUFFICES ASSUME j < k PROVE FALSE
    OBVIOUS
  <2>1. j \in 1 .. k - 1 /\ j \in 1 .. Len(s) /\ s[j][2] \in Nat
    BY <1>1, CanonicalIs
  <2>2. s[j][2] + 1 < s[k][1] /\ s[k][1] <= s[j][2]
    BY <1>3, <2>1, CanonicalIs DEF InPair
  <2> QED BY <1>1, <2>1, <2>2
<1>5. k \in 1 .. Len(t)
  BY <1>1, <1>4, CanonicalIs
<1>6. t[k][1] <= t[j][1]
  <2>1. k = j \/ k < j
    BY <1>4, <1>5
  <2>2. k < j => t[k][2] + 1 < t[j][1]
    BY <1>5, CanonicalIs
  <2>3. t[k][1] \in Nat /\ t[k][2] \in Nat /\ t[j][1] \in Nat /\ t[k][1] <= t[k][2]
    BY <1>5, CanonicalIs
  <2> QED BY <2>1, <2>2, <2>3
<1>7. t[k][1] \in Nat /\ t[j][1] \in Nat /\ t[j][1] <= s[k][1]
  BY <1>3, <1>5, CanonicalIs DEF InPair
<1> QED BY <1>1, <1>5, <1>6, <1>7

LEMMA EndsNoLater ==
    ASSUME NEW s, NEW t, Canonical(s), Canonical(t), \A v \in Int : Keeps(t, v) => Keeps(s, v),
           NEW k \in 1 .. Len(s), k \in 1 .. Len(t), s[k][1] = t[k][1]
    PROVE  t[k][2] <= s[k][2]
<1> SUFFICES ASSUME s[k][2] < t[k][2] PROVE FALSE
  BY CanonicalIs
<1> DEFINE v == s[k][2] + 1
<1>1. s[k][1] \in Nat /\ s[k][2] \in Nat /\ t[k][2] \in Nat /\ s[k][1] <= s[k][2] /\ v \in Int
  BY CanonicalIs
<1>2. InPair(t[k], v)
  BY <1>1 DEF InPair
<1>3. Keeps(t, v)
  BY <1>2, CanonicalIs DEF Keeps
<1>4. PICK j \in 1 .. Len(s) : InPair(s[j], v)
  <2>1. Keeps(s, v) /\ DOMAIN s = 1 .. Len(s)
    BY <1>1, <1>3, CanonicalIs
  <2> QED BY <2>1 DEF Keeps
<1>5. s[j][1] \in Nat /\ s[j][2] \in Nat /\ s[j][1] <= v /\ v <= s[j][2]
  BY <1>4, CanonicalIs DEF InPair
<1>6. j < k => s[j][2] + 1 < s[k][1]
  BY CanonicalIs
<1>7. k < j => s[k][2] + 1 < s[j][1]
  BY CanonicalIs
<1>8. j < k \/ j = k \/ k < j
  OBVIOUS
<1>9. \A x, y, z, w \in Int : x <= y /\ z <= y + 1 /\ y + 1 <= w => ~(w + 1 < x) /\ ~(y + 1 < z) /\ ~(w <= y)
  OBVIOUS
<1>10. ~(s[j][2] + 1 < s[k][1]) /\ ~(s[k][2] + 1 < s[j][1]) /\ ~(s[j][2] <= s[k][2])
  <2> DEFINE x == s[k][1]
             y == s[k][2]
             z == s[j][1]
             w == s[j][2]
  <2>1. x \in Int /\ y \in Int /\ z \in Int /\ w \in Int /\ x <= y /\ z <= y + 1 /\ y + 1 <= w
    BY <1>1, <1>5
  <2> HIDE DEF x, y, z, w
  <2>2. ~(w + 1 < x) /\ ~(y + 1 < z) /\ ~(w <= y)
    BY <1>9, <2>1
  <2> QED BY <2>2 DEF x, y, z, w
<1>11. j = k
  BY <1>6, <1>7, <1>8, <1>10
<1> QED BY <1>1, <1>10, <1>11

\* A set of values has one canonical form.
LEMMA CanonicalForm ==
    ASSUME NEW s, NEW t, Canonical(s), Canonical(t), \A v \in Int : Keeps(s, v) <=> Keeps(t, v)
    PROVE  s = t
<1> DEFINE T == {k \in 0 .. Len(s) : k \in 0 .. Len(t) /\ \A i \in 1 .. k : s[i] = t[i]}
<1>1. Len(s) \in Nat /\ Len(t) \in Nat
  BY CanonicalIs
<1>2. 0 \in T
  BY <1>1
<1>3. ASSUME NEW k \in 1 .. Len(s), k - 1 \in T PROVE k \in T
  <2>1. \A i \in 1 .. k - 1 : i \in 1 .. Len(t) /\ i \in 1 .. Len(s) /\ s[i] = t[i]
    BY <1>1, <1>3
  <2>2. k \in 1 .. Len(t) /\ t[k][1] <= s[k][1]
    BY <2>1, StartsNoLater
  <2>3. s[k][1] <= t[k][1]
    BY <2>1, <2>2, StartsNoLater
  <2>4. s[k] \in Pair /\ t[k] \in Pair
    BY <2>2, CanonicalIs
  <2>5. s[k][1] = t[k][1]
    BY <2>2, <2>3, <2>4, PairIs
  <2>6. t[k][2] <= s[k][2] /\ s[k][2] <= t[k][2]
    BY <2>2, <2>5, EndsNoLater
  <2>7. s[k][2] \in Int /\ t[k][2] \in Int
    BY <2>4, PairIs
  <2>8. s[k][2] = t[k][2]
    BY <2>6, <2>7
  <2>9. s[k] = t[k]
    BY <2>4, <2>5, <2>8, PairIs
  <2>10. \A i \in 1 .. k : i = k \/ i \in 1 .. k - 1
    OBVIOUS
  <2> QED BY <2>1, <2>2, <2>9, <2>10
<1>4. Len(s) \in T
  <2> HIDE DEF T
  <2>1. \A k \in 0 .. Len(s) : k \in T
    BY <1>1, <1>2, <1>3, LoopInduction
  <2> QED BY <1>1, <2>1
<1>5. Len(t) = Len(s)
  <2> SUFFICES ASSUME Len(s) + 1 \in 1 .. Len(t) PROVE FALSE
    BY <1>1, <1>4
  <2>1. \A i \in 1 .. (Len(s) + 1) - 1 : i \in 1 .. Len(s) /\ t[i] = s[i]
    BY <1>1, <1>4
  <2>2. Len(s) + 1 \in 1 .. Len(s)
    BY <2>1, StartsNoLater
  <2> QED BY <1>1, <2>2
<1> QED BY <1>4, <1>5, CanonicalIs

LEMMA ValuesHeld ==
    ASSUME NEW s, Canonical(s)
    PROVE  \A v : v \in Values(s) <=> v \in Value /\ Keeps(s, v)
BY CanonicalIs, ValuesAre

LEMMA HeldAreValues ==
    ASSUME NEW s, Canonical(s)
    PROVE  \A v \in Int : Keeps(s, v) => v \in Value
<1> TAKE v \in Int
<1> SUFFICES ASSUME Keeps(s, v) PROVE v \in Value
  OBVIOUS
<1>1. PICK i \in 1 .. Len(s) : s[i][1] <= v /\ v <= s[i][2]
  BY CanonicalIs DEF Keeps, InPair
<1>2. s[i][1] \in Nat /\ s[i][2] \in Nat /\ s[i][2] <= Top
  BY CanonicalIs
<1> QED BY <1>1, <1>2, IntervalAssumption DEF Value

LEMMA EqualSets ==
    ASSUME NEW s, NEW t, Canonical(s), Canonical(t), Values(s) = Values(t)
    PROVE  s = t
<1>1. \A v \in Int : Keeps(s, v) <=> Keeps(t, v)
  BY ValuesHeld, HeldAreValues
<1> QED BY <1>1, CanonicalForm

LEMMA EmptyIs == Canonical(<<>>) /\ \A v : ~Keeps(<<>>, v)
BY DEF Canonical, Keeps

LEMMA FinitePairs ==
    ASSUME NEW s \in Seq(Pair)
    PROVE  ToSet(s) \in SUBSET Pair /\ IsFiniteSet(ToSet(s)) /\ \A v : Keeps(s, v) <=> \E p \in ToSet(s) : InPair(p, v)
<1>1. ToSet(s) = {s[i] : i \in 1 .. Len(s)} /\ Len(s) \in Nat /\ DOMAIN s = 1 .. Len(s)
  BY DEF ToSet
<1>2. IsFiniteSet(1 .. Len(s))
  <2>1. \A n \in Nat : IsFiniteSet(1 .. n)
    BY FS_Interval
  <2> QED BY <1>1, <2>1
<1> DEFINE f == [i \in 1 .. Len(s) |-> s[i]]
<1>3. f \in Surjection(1 .. Len(s), ToSet(s))
  BY <1>1 DEF Surjection
<1>4. IsFiniteSet(ToSet(s))
  <2> HIDE DEF f
  <2> QED BY <1>2, <1>3, FS_Surjection
<1> QED BY <1>1, <1>4 DEF Keeps

LEMMA UnionIs ==
    ASSUME NEW s, NEW t, Canonical(s), Canonical(t)
    PROVE  Canonical(Union(s, t)) /\ \A v \in Int : Keeps(Union(s, t), v) <=> Keeps(s, v) \/ Keeps(t, v)
<1>1. CASE s = <<>>
  BY <1>1, EmptyIs DEF Union
<1>2. CASE t = <<>>
  BY <1>1, <1>2, EmptyIs DEF Union
<1>3. CASE s # <<>> /\ t # <<>>
  <2> DEFINE P == ToSet(s) \cup ToSet(t)
  <2>1. P \in SUBSET Pair /\ IsFiniteSet(P)
    BY FinitePairs, CanonicalIs, FS_Union
  <2>2. Union(s, t) = FromPairs(P)
    BY <1>3 DEF Union
  <2>3. \A v : (\E p \in P : InPair(p, v)) <=> Keeps(s, v) \/ Keeps(t, v)
    BY FinitePairs, CanonicalIs
  <2> HIDE DEF P
  <2> QED BY <2>1, <2>2, <2>3, FromPairsIs
<1> QED BY <1>1, <1>2, <1>3

LEMMA GapAppended ==
    ASSUME NEW g, Canonical(g), NEW a \in Nat, NEW b \in Nat, a <= b, b <= Top, g # <<>> => g[Len(g)][2] + 1 < a
    PROVE  /\ Canonical(Append(g, <<a, b>>)) /\ Append(g, <<a, b>>) # <<>>
           /\ Append(g, <<a, b>>)[Len(Append(g, <<a, b>>))][2] = b
           /\ \A v \in Int : Keeps(Append(g, <<a, b>>), v) <=> Keeps(g, v) \/ (a <= v /\ v <= b)
<1> DEFINE p == <<a, b>>
<1>1. p \in Pair /\ p[1] = a /\ p[2] = b
  BY PairMade
<1> HIDE DEF p
<1>2. g # <<>> => g[Len(g)][1] <= p[1] /\ Last(g)[2] \in Nat /\ Last(g)[2] + 1 < p[1]
  <2> SUFFICES ASSUME g # <<>> PROVE g[Len(g)][1] <= p[1] /\ Last(g)[2] \in Nat /\ Last(g)[2] + 1 < p[1]
    OBVIOUS
  <2>1. g[Len(g)][1] \in Nat /\ g[Len(g)][2] \in Nat /\ g[Len(g)][1] <= g[Len(g)][2] /\ g[Len(g)][2] + 1 < a
    BY CanonicalIs
  <2> QED BY <1>1, <2>1 DEF Last
<1>3. ~Joins(g, p)
  BY <1>1, <1>2 DEF Joins
<1>4. Folded(g, p) = Append(g, p)
  BY <1>3 DEF Folded
<1>5. Canonical(Append(g, p)) /\ Append(g, p) # <<>> /\ \A v \in Int : Keeps(Append(g, p), v) <=> Keeps(g, v) \/ InPair(p, v)
  <2>1. g # <<>> => g[Len(g)][1] <= p[1]
    BY <1>2
  <2>2. Canonical(Folded(g, p)) /\ Folded(g, p) # <<>> /\ \A v \in Int : Keeps(Folded(g, p), v) <=> Keeps(g, v) \/ InPair(p, v)
    BY <1>1, <2>1, FoldedGrows
  <2> QED BY <1>4, <2>2
<1>6. Append(g, p)[Len(Append(g, p))][2] = b
  BY <1>1, CanonicalIs
<1> QED BY <1>1, <1>5, <1>6 DEF InPair, p

Walked(done, p, hi) ==
    IF p[1] > hi \/ done.cursor > hi THEN done
    ELSE [gaps |-> IF p[1] > done.cursor THEN Append(done.gaps, <<done.cursor, Lower(p[1] - 1, hi)>>) ELSE done.gaps,
          cursor |-> Upper(done.cursor, p[2] + 1)]

Closing(end, hi) == IF end.cursor <= hi THEN Append(end.gaps, <<end.cursor, hi>>) ELSE end.gaps

LEMMA WalkedIs ==
    ASSUME NEW hi \in 0 .. Top, NEW d \in [gaps : Seq(Pair), cursor : Nat], NEW p \in Pair
    PROVE  Walked(d, p, hi) \in [gaps : Seq(Pair), cursor : Nat]
<1>1. p[1] \in Nat /\ p[2] \in Nat /\ d.cursor \in Nat /\ d.gaps \in Seq(Pair) /\ hi \in Nat /\ hi <= Top
  BY PairIs, IntervalAssumption
<1>2. CASE p[1] > hi \/ d.cursor > hi
  BY <1>2 DEF Walked
<1>3. CASE ~(p[1] > hi \/ d.cursor > hi)
  <2> DEFINE c == Upper(d.cursor, p[2] + 1)
             q == <<d.cursor, Lower(p[1] - 1, hi)>>
             gs == IF p[1] > d.cursor THEN Append(d.gaps, q) ELSE d.gaps
  <2>1. c \in Nat
    BY <1>1 DEF Upper
  <2>2. p[1] > d.cursor => q \in Pair
    <3> SUFFICES ASSUME p[1] > d.cursor PROVE q \in Pair
      OBVIOUS
    <3> DEFINE l == Lower(p[1] - 1, hi)
    <3>1. l \in Nat /\ d.cursor <= l /\ l <= Top
      BY <1>1, <1>3, IntervalAssumption DEF Lower
    <3> HIDE DEF l
    <3> QED BY <1>1, <3>1, PairMade DEF l
  <2>3. gs \in Seq(Pair)
    <3> HIDE DEF q
    <3> QED BY <1>1, <2>2
  <2>4. Walked(d, p, hi) = [gaps |-> gs, cursor |-> c]
    BY <1>3 DEF Walked
  <2> HIDE DEF c, gs
  <2> QED BY <2>1, <2>3, <2>4
<1> QED BY <1>2, <1>3

LEMMA ComplementLoop ==
    ASSUME NEW s \in Seq(Pair), NEW hi \in 0 .. Top
    PROVE  \E g : /\ g[0] = [gaps |-> <<>>, cursor |-> 0] /\ Complement(s, hi) = Closing(g[Len(s)], hi)
                  /\ \A k \in 1 .. Len(s) : g[k] = Walked(g[k - 1], s[k], hi)
<1> DEFINE n == Len(s)
           S == [gaps : Seq(Pair), cursor : Nat]
           base == [gaps |-> <<>>, cursor |-> 0]
           Eq(f) == f = [k \in 0 .. n |-> IF k = 0 THEN base ELSE Walked(f[k - 1], s[k], hi)]
           step == [x \in (1 .. n) \X S |-> Walked(x[2], s[x[1]], hi)]
<1>1. n \in Nat /\ (\A k \in 1 .. n : s[k] \in Pair) /\ base \in S
  OBVIOUS
<1>2. \A d \in S, p \in Pair : Walked(d, p, hi) \in S
  BY WalkedIs
<1>3. Complement(s, hi) = Closing((CHOOSE g : Eq(g))[n], hi)
  BY DEF Complement, Walked, Closing
<1> HIDE DEF n, S, base
<1>4. step \in [(1 .. n) \X S -> S]
  BY <1>1, <1>2
<1>5. PICK f \in [0 .. n -> S] : f[0] = base /\ \A k \in 1 .. n : f[k] = step[<<k, f[k - 1]>>]
  <2> HIDE DEF step
  <2>1. Loop(n, S, base, step)
    BY <1>1, <1>4 DEF Loop
  <2> QED BY <2>1, LoopExists
<1>6. \A k \in 1 .. n : f[k] = Walked(f[k - 1], s[k], hi)
  <2> TAKE k \in 1 .. n
  <2>1. k - 1 \in 0 .. n
    BY <1>1
  <2>2. <<k, f[k - 1]>> \in (1 .. n) \X S
    BY <2>1
  <2> QED BY <1>5, <2>2
<1>7. Eq(f)
  <2>1. \A k \in 0 .. n : f[k] = IF k = 0 THEN base ELSE Walked(f[k - 1], s[k], hi)
    BY <1>1, <1>5, <1>6
  <2> QED BY <2>1
<1>8. Eq(CHOOSE g : Eq(g))
  <2> HIDE DEF Eq
  <2> QED BY <1>7
<1> DEFINE g == CHOOSE g : Eq(g)
<1> HIDE DEF g
<1>9. g = [k \in 0 .. n |-> IF k = 0 THEN base ELSE Walked(g[k - 1], s[k], hi)] /\ Closing(g[n], hi) = Complement(s, hi)
  BY <1>3, <1>8 DEF g
<1>10. g[0] = base /\ \A k \in 1 .. n : g[k] = Walked(g[k - 1], s[k], hi)
  <2>1. \A k \in 0 .. n : g[k] = IF k = 0 THEN base ELSE Walked(g[k - 1], s[k], hi)
    BY <1>9
  <2> QED BY <1>1, <2>1
<1> QED BY <1>9, <1>10 DEF n, base

\* Behind the cursor the gaps are what the intervals met so far leave of 0 .. hi.
Behind(d, s, k, hi) ==
    /\ Canonical(d.gaps) /\ d.cursor \in Nat
    /\ d.cursor # 0 => k # 0 /\ d.cursor <= s[k][2] + 1
    /\ d.gaps # <<>> => d.gaps[Len(d.gaps)][2] + 1 < d.cursor
    /\ \A v \in Int : Keeps(d.gaps, v) <=> 0 <= v /\ v < d.cursor /\ v <= hi /\ ~\E i \in 1 .. k : InPair(s[i], v)
    /\ \A v \in Int : v <= hi /\ (\E i \in 1 .. k : InPair(s[i], v)) => v < d.cursor

LEMMA WalkedBehind ==
    ASSUME NEW s, Canonical(s), NEW hi \in 0 .. Top, NEW k \in 1 .. Len(s), NEW d, Behind(d, s, k - 1, hi)
    PROVE  Behind(Walked(d, s[k], hi), s, k, hi)
<1> DEFINE p == s[k]
           c == d.cursor
           In(v) == \E i \in 1 .. k - 1 : InPair(s[i], v)
<1>1. k \in Nat /\ Len(s) \in Nat /\ p[1] \in Nat /\ p[2] \in Nat /\ p[1] <= p[2] /\ p[2] <= Top /\ hi \in Nat /\ hi <= Top /\ c \in Nat
  BY CanonicalIs, IntervalAssumption DEF Behind
<1>2. c <= p[1]
  <2>1. CASE c = 0
    BY <1>1, <2>1
  <2>2. CASE c # 0
    <3>1. k - 1 # 0 /\ c <= s[k - 1][2] + 1
      BY <2>2 DEF Behind
    <3>2. k - 1 \in 1 .. Len(s) /\ k - 1 < k
      BY <1>1, <3>1
    <3>3. s[k - 1][2] + 1 < p[1] /\ s[k - 1][2] \in Nat
      BY <3>2, CanonicalIs
    <3> QED BY <1>1, <3>1, <3>3
  <2> QED BY <2>1, <2>2
<1>3. \A v \in Int : (\E i \in 1 .. k : InPair(s[i], v)) <=> In(v) \/ InPair(p, v)
  <2>1. \A i \in 1 .. k : i = k \/ i \in 1 .. k - 1
    OBVIOUS
  <2>2. k \in 1 .. k /\ \A i \in 1 .. k - 1 : i \in 1 .. k
    OBVIOUS
  <2> QED BY <2>1, <2>2
<1>4. \A v \in Int : InPair(p, v) <=> p[1] <= v /\ v <= p[2]
  BY DEF InPair
<1>5. /\ Canonical(d.gaps)
      /\ d.gaps # <<>> => d.gaps[Len(d.gaps)][2] + 1 < c
      /\ \A v \in Int : Keeps(d.gaps, v) <=> 0 <= v /\ v < c /\ v <= hi /\ ~In(v)
      /\ \A v \in Int : v <= hi /\ In(v) => v < c
  BY DEF Behind
<1>6. d.gaps # <<>> => d.gaps[Len(d.gaps)][2] \in Nat
  BY <1>5, CanonicalIs
<1>9. p = s[k] /\ c = d.cursor
  OBVIOUS
<1> HIDE DEF In, p, c
<1>7. CASE p[1] > hi \/ c > hi
  <2>1. Walked(d, p, hi) = d
    BY <1>7, <1>9 DEF Walked
  <2>2. p[1] > hi
    BY <1>1, <1>2, <1>7
  <2>3. \A v \in Int : v <= hi => ~InPair(p, v)
    BY <1>1, <1>4, <2>2
  <2>4. \A v \in Int : Keeps(d.gaps, v) <=> 0 <= v /\ v < c /\ v <= hi /\ ~\E i \in 1 .. k : InPair(s[i], v)
    BY <1>3, <1>5, <2>3
  <2>5. \A v \in Int : v <= hi /\ (\E i \in 1 .. k : InPair(s[i], v)) => v < c
    BY <1>3, <1>5, <2>3
  <2>6. k # 0 /\ c <= s[k][2] + 1
    BY <1>1, <1>2, <1>9
  <2> QED BY <1>1, <1>5, <1>9, <2>1, <2>4, <2>5, <2>6 DEF Behind
<1>8. CASE p[1] <= hi /\ c <= hi
  <2> DEFINE gs == IF p[1] > c THEN Append(d.gaps, <<c, p[1] - 1>>) ELSE d.gaps
  <2>1. Walked(d, p, hi) = [gaps |-> gs, cursor |-> p[2] + 1]
    <3>1. ~(p[1] > hi) /\ ~(c > hi) /\ Lower(p[1] - 1, hi) = p[1] - 1 /\ Upper(c, p[2] + 1) = p[2] + 1
      BY <1>1, <1>2, <1>8 DEF Lower, Upper
    <3> QED BY <1>9, <3>1 DEF Walked
  <2>2. /\ Canonical(gs)
        /\ gs # <<>> => gs[Len(gs)][2] + 1 < p[2] + 1
        /\ \A v \in Int : Keeps(gs, v) <=> Keeps(d.gaps, v) \/ (c <= v /\ v <= p[1] - 1)
    <3>1. CASE p[1] > c
      <4>1. p[1] - 1 \in Nat /\ c <= p[1] - 1 /\ p[1] - 1 <= Top
        BY <1>1, <3>1, IntervalAssumption
      <4> DEFINE h == Append(d.gaps, <<c, p[1] - 1>>)
      <4>2. /\ Canonical(h) /\ h[Len(h)][2] = p[1] - 1
            /\ \A v \in Int : Keeps(h, v) <=> Keeps(d.gaps, v) \/ (c <= v /\ v <= p[1] - 1)
        <5> DEFINE b == p[1] - 1
        <5>1. c \in Nat /\ b \in Nat /\ c <= b /\ b <= Top
          BY <1>1, <4>1
        <5> HIDE DEF b
        <5>2. /\ Canonical(Append(d.gaps, <<c, b>>)) /\ Append(d.gaps, <<c, b>>)[Len(Append(d.gaps, <<c, b>>))][2] = b
              /\ \A v \in Int : Keeps(Append(d.gaps, <<c, b>>), v) <=> Keeps(d.gaps, v) \/ (c <= v /\ v <= b)
          BY <1>5, <5>1, GapAppended
        <5> QED BY <5>2 DEF b
      <4>3. gs = h
        BY <3>1
      <4> HIDE DEF h, gs
      <4>4. (p[1] - 1) + 1 < p[2] + 1
        BY <1>1
      <4> QED BY <4>2, <4>3, <4>4
    <3>2. CASE ~(p[1] > c)
      <4>1. gs = d.gaps /\ \A v \in Int : ~(c <= v /\ v <= p[1] - 1)
        BY <1>1, <3>2
      <4>2. d.gaps # <<>> => d.gaps[Len(d.gaps)][2] + 1 < p[2] + 1
        <5> DEFINE l == d.gaps[Len(d.gaps)][2]
        <5>1. d.gaps # <<>> => l \in Nat /\ l + 1 < c
          BY <1>5, <1>6
        <5> HIDE DEF l
        <5>2. l \in Nat /\ l + 1 < c => l + 1 < p[2] + 1
          BY <1>1, <1>2
        <5> QED BY <5>1, <5>2 DEF l
      <4> HIDE DEF gs
      <4> QED BY <1>5, <4>1, <4>2
    <3> QED BY <3>1, <3>2
  <2> HIDE DEF gs
  <2>3. \A v \in Int : Keeps(gs, v) <=> 0 <= v /\ v < p[2] + 1 /\ v <= hi /\ ~\E i \in 1 .. k : InPair(s[i], v)
    <3> TAKE v \in Int
    <3>1. In(v) /\ v <= hi => v < c
      BY <1>5
    <3>2. (0 <= v /\ v < c /\ v <= hi /\ ~In(v)) \/ (c <= v /\ v <= p[1] - 1)
          <=> 0 <= v /\ v < p[2] + 1 /\ v <= hi /\ ~(In(v) \/ (p[1] <= v /\ v <= p[2]))
      BY <1>1, <1>2, <1>8, <3>1
    <3> QED BY <1>3, <1>4, <1>5, <2>2, <3>2
  <2>4. \A v \in Int : v <= hi /\ (\E i \in 1 .. k : InPair(s[i], v)) => v < p[2] + 1
    <3> TAKE v \in Int
    <3>1. v < c => v < p[2] + 1
      BY <1>1, <1>2
    <3>2. v <= p[2] => v < p[2] + 1
      BY <1>1
    <3> QED BY <1>3, <1>4, <1>5, <3>1, <3>2
  <2>5. p[2] + 1 \in Nat /\ k # 0 /\ p[2] + 1 <= s[k][2] + 1
    BY <1>1, <1>9
  <2> DEFINE w == Walked(d, p, hi)
  <2>6. w.gaps = gs /\ w.cursor = p[2] + 1
    BY <2>1
  <2> HIDE DEF w
  <2>7. Behind(w, s, k, hi)
    BY <2>2, <2>3, <2>4, <2>5, <2>6 DEF Behind
  <2> QED BY <1>9, <2>7 DEF w
<1> QED BY <1>1, <1>7, <1>8

LEMMA ComplementIs ==
    ASSUME NEW s, Canonical(s), NEW hi \in 0 .. Top
    PROVE  /\ Canonical(Complement(s, hi))
           /\ \A v \in Int : Keeps(Complement(s, hi), v) <=> 0 <= v /\ v <= hi /\ ~Keeps(s, v)
<1> DEFINE n == Len(s)
<1>1. s \in Seq(Pair) /\ n \in Nat /\ DOMAIN s = 1 .. n /\ hi \in Nat /\ hi <= Top
  BY CanonicalIs, IntervalAssumption
<1>2. PICK g : /\ g[0] = [gaps |-> <<>>, cursor |-> 0] /\ Complement(s, hi) = Closing(g[n], hi)
               /\ \A k \in 1 .. n : g[k] = Walked(g[k - 1], s[k], hi)
  BY <1>1, ComplementLoop
<1> DEFINE T == {k \in 0 .. n : Behind(g[k], s, k, hi)}
<1>3. 0 \in T
  <2>1. g[0].gaps = <<>> /\ g[0].cursor = 0
    BY <1>2
  <2>2. \A v \in Int : ~(0 <= v /\ v < 0) /\ ~\E i \in 1 .. 0 : InPair(s[i], v)
    OBVIOUS
  <2>3. Behind(g[0], s, 0, hi)
    BY <2>1, <2>2, EmptyIs DEF Behind
  <2> QED BY <1>1, <2>3
<1>4. \A k \in 1 .. n : k - 1 \in T => k \in T
  BY <1>1, <1>2, WalkedBehind
<1>5. n \in T
  <2> HIDE DEF T, n
  <2>1. \A k \in 0 .. n : k \in T
    BY <1>1, <1>3, <1>4, LoopInduction
  <2> QED BY <1>1, <2>1
<1> DEFINE d == g[n]
           c == d.cursor
           In(v) == \E i \in 1 .. n : InPair(s[i], v)
<1>6. /\ Canonical(d.gaps) /\ c \in Nat
      /\ d.gaps # <<>> => d.gaps[Len(d.gaps)][2] + 1 < c
      /\ \A v \in Int : Keeps(d.gaps, v) <=> 0 <= v /\ v < c /\ v <= hi /\ ~In(v)
      /\ \A v \in Int : v <= hi /\ In(v) => v < c
  BY <1>5 DEF Behind
<1>7. \A v \in Int : In(v) <=> Keeps(s, v)
  BY <1>1 DEF Keeps
<1>8. Complement(s, hi) = IF c <= hi THEN Append(d.gaps, <<c, hi>>) ELSE d.gaps
  BY <1>2 DEF Closing
<1> HIDE DEF d, In
<1>9. CASE c <= hi
  <2> DEFINE h == Append(d.gaps, <<c, hi>>)
  <2>1. Canonical(h) /\ \A v \in Int : Keeps(h, v) <=> Keeps(d.gaps, v) \/ (c <= v /\ v <= hi)
    BY <1>1, <1>6, <1>9, GapAppended
  <2> HIDE DEF h
  <2>2. \A v \in Int : (0 <= v /\ v < c /\ v <= hi /\ ~In(v)) \/ (c <= v /\ v <= hi) <=> 0 <= v /\ v <= hi /\ ~In(v)
    BY <1>1, <1>6
  <2> QED BY <1>6, <1>7, <1>8, <1>9, <2>1, <2>2 DEF h
<1>10. CASE ~(c <= hi)
  <2>1. \A v \in Int : 0 <= v /\ v < c /\ v <= hi /\ ~In(v) <=> 0 <= v /\ v <= hi /\ ~In(v)
    BY <1>1, <1>6, <1>10
  <2> QED BY <1>6, <1>7, <1>8, <1>10, <2>1
<1> QED BY <1>9, <1>10

LEMMA SizeLoop ==
    ASSUME NEW s \in Seq(Pair)
    PROVE  \E g : /\ g[0] = 0 /\ Size(s) = g[Len(s)]
                  /\ \A k \in 1 .. Len(s) : g[k] = g[k - 1] + (s[k][2] - s[k][1] + 1)
<1> DEFINE n == Len(s)
           Eq(f) == f = [k \in 0 .. n |-> IF k = 0 THEN 0 ELSE f[k - 1] + (s[k][2] - s[k][1] + 1)]
           step == [x \in (1 .. n) \X Int |-> x[2] + (s[x[1]][2] - s[x[1]][1] + 1)]
<1>1. n \in Nat /\ \A k \in 1 .. n : s[k] \in Pair /\ s[k][1] \in Int /\ s[k][2] \in Int
  BY PairIs
<1>3. Size(s) = (CHOOSE g : Eq(g))[n]
  BY DEF Size
<1> HIDE DEF n
<1>4. step \in [(1 .. n) \X Int -> Int]
  BY <1>1
<1>5. PICK f \in [0 .. n -> Int] : f[0] = 0 /\ \A k \in 1 .. n : f[k] = step[<<k, f[k - 1]>>]
  <2> HIDE DEF step
  <2>1. Loop(n, Int, 0, step)
    BY <1>1, <1>4 DEF Loop
  <2> QED BY <2>1, LoopExists
<1>6. \A k \in 1 .. n : f[k] = f[k - 1] + (s[k][2] - s[k][1] + 1)
  <2> TAKE k \in 1 .. n
  <2>1. k - 1 \in 0 .. n
    BY <1>1
  <2>2. <<k, f[k - 1]>> \in (1 .. n) \X Int
    BY <2>1
  <2> QED BY <1>5, <2>2
<1>7. Eq(f)
  <2>1. \A k \in 0 .. n : f[k] = IF k = 0 THEN 0 ELSE f[k - 1] + (s[k][2] - s[k][1] + 1)
    BY <1>1, <1>5, <1>6
  <2> QED BY <2>1
<1>8. Eq(CHOOSE g : Eq(g))
  <2> HIDE DEF Eq
  <2> QED BY <1>7
<1> DEFINE g == CHOOSE g : Eq(g)
<1> HIDE DEF g
<1>9. g = [k \in 0 .. n |-> IF k = 0 THEN 0 ELSE g[k - 1] + (s[k][2] - s[k][1] + 1)] /\ g[n] = Size(s)
  BY <1>3, <1>8 DEF g
<1>10. g[0] = 0 /\ \A k \in 1 .. n : g[k] = g[k - 1] + (s[k][2] - s[k][1] + 1)
  <2>1. \A k \in 0 .. n : g[k] = IF k = 0 THEN 0 ELSE g[k - 1] + (s[k][2] - s[k][1] + 1)
    BY <1>9
  <2> QED BY <1>1, <2>1
<1> QED BY <1>9, <1>10 DEF n

LEMMA IntervalAdded ==
    ASSUME NEW S, IsFiniteSet(S), NEW a \in Int, NEW b \in Int, a <= b, S \cap (a .. b) = {}
    PROVE  IsFiniteSet(S \cup (a .. b)) /\ Cardinality(S \cup (a .. b)) = Cardinality(S) + (b - a + 1)
<1> DEFINE I == a .. b
<1>1. IsFiniteSet(I)
  BY FS_Interval
<1>2. Cardinality(I) = IF a > b THEN 0 ELSE b - a + 1
  BY FS_Interval
<1>3. Cardinality(I) = b - a + 1
  BY <1>2
<1>4. Cardinality(S \cap I) = 0
  BY FS_EmptySet
<1>5. Cardinality(S) \in Nat
  BY FS_CardinalityType
<1> HIDE DEF I
<1>6. IsFiniteSet(S \cup I) /\ Cardinality(S \cup I) = Cardinality(S) + Cardinality(I) - Cardinality(S \cap I)
  BY <1>1, FS_Union
<1>7. Cardinality(S) + (b - a + 1) - 0 = Cardinality(S) + (b - a + 1)
  BY <1>5
<1> QED BY <1>3, <1>4, <1>6, <1>7 DEF I

\* `size` counts the values.
LEMMA SizeIs ==
    ASSUME NEW s, Canonical(s)
    PROVE  IsFiniteSet(Values(s)) /\ Cardinality(Values(s)) = Size(s)
<1> DEFINE n == Len(s)
           W(k) == {v \in Value : \E i \in 1 .. k : InPair(s[i], v)}
<1>1. s \in Seq(Pair) /\ n \in Nat /\ DOMAIN s = 1 .. n
  BY CanonicalIs
<1>2. PICK g : /\ g[0] = 0 /\ Size(s) = g[n] /\ \A k \in 1 .. n : g[k] = g[k - 1] + (s[k][2] - s[k][1] + 1)
  BY <1>1, SizeLoop
<1> DEFINE T == {k \in 0 .. n : IsFiniteSet(W(k)) /\ Cardinality(W(k)) = g[k]}
<1>3. 0 \in T
  <2>1. W(0) = {}
    OBVIOUS
  <2>2. IsFiniteSet({}) /\ Cardinality({}) = 0
    BY FS_EmptySet
  <2> HIDE DEF W
  <2>3. IsFiniteSet(W(0)) /\ Cardinality(W(0)) = g[0]
    BY <1>2, <2>1, <2>2
  <2> QED BY <1>1, <2>3
<1>4. ASSUME NEW k \in 1 .. n, k - 1 \in T PROVE k \in T
  <2> DEFINE a == s[k][1]
             b == s[k][2]
  <2>1. k \in Nat /\ a \in Nat /\ b \in Nat /\ a <= b /\ b <= Top /\ \A v \in Value : InPair(s[k], v) <=> a <= v /\ v <= b
    BY CanonicalIs DEF InPair
  <2>3. W(k) = W(k - 1) \cup (a .. b)
    <3>1. \A i \in 1 .. k : i = k \/ i \in 1 .. k - 1
      BY <2>1
    <3>2. k \in 1 .. k /\ \A i \in 1 .. k - 1 : i \in 1 .. k
      BY <2>1
    <3>3. \A v : v \in a .. b <=> v \in Value /\ a <= v /\ v <= b
      BY <2>1, IntervalAssumption DEF Value
    <3> QED BY <2>1, <3>1, <3>2, <3>3
  <2>4. W(k - 1) \cap (a .. b) = {}
    <3> SUFFICES ASSUME NEW v \in W(k - 1), v \in a .. b PROVE FALSE
      OBVIOUS
    <3>1. PICK i \in 1 .. k - 1 : s[i][1] <= v /\ v <= s[i][2]
      BY DEF InPair
    <3>2. i \in 1 .. n /\ i < k
      BY <1>1, <2>1
    <3>3. s[i][2] + 1 < a /\ s[i][2] \in Nat
      BY <3>2, CanonicalIs
    <3> QED BY <2>1, <3>1, <3>3
  <2>5. IsFiniteSet(W(k - 1)) /\ Cardinality(W(k - 1)) = g[k - 1]
    BY <1>4
  <2>6. g[k] = g[k - 1] + (b - a + 1)
    BY <1>2
  <2> HIDE DEF W, a, b
  <2>7. IsFiniteSet(W(k)) /\ Cardinality(W(k)) = Cardinality(W(k - 1)) + (b - a + 1)
    <3> DEFINE V == W(k - 1)
    <3>1. IsFiniteSet(V) /\ V \cap (a .. b) = {} /\ a \in Int /\ b \in Int /\ a <= b
      BY <2>1, <2>4, <2>5
    <3> HIDE DEF V
    <3>2. IsFiniteSet(V \cup (a .. b)) /\ Cardinality(V \cup (a .. b)) = Cardinality(V) + (b - a + 1)
      BY <3>1, IntervalAdded
    <3> QED BY <2>3, <3>2 DEF V
  <2>8. Cardinality(W(k)) = g[k]
    BY <2>5, <2>6, <2>7
  <2> QED BY <2>7, <2>8
<1>5. n \in T
  <2> HIDE DEF T, n
  <2>1. \A k \in 0 .. n : k \in T
    BY <1>1, <1>3, <1>4, LoopInduction
  <2> QED BY <1>1, <2>1
<1>6. Values(s) = W(n)
  <2>1. \A v : v \in Values(s) <=> v \in Value /\ Keeps(s, v)
    BY ValuesHeld
  <2> QED BY <1>1, <2>1 DEF Keeps
<1> QED BY <1>2, <1>5, <1>6

LEMMA LargerIsNotWithin ==
    ASSUME NEW s, NEW t, Canonical(s), Canonical(t), Values(t) \subseteq Values(s)
    PROVE  Size(t) <= Size(s)
BY SizeIs, FS_Subset

\* A walk over two sequences ends at the far side of either.
LEMMA CellInduction ==
    ASSUME NEW m \in Nat, NEW n \in Nat, NEW T,
           \A i \in 1 .. m + 1, j \in 1 .. n + 1 :
               (i <= m => <<i + 1, j>> \in T) /\ (j <= n => <<i, j + 1>> \in T) => <<i, j>> \in T
    PROVE  \A i \in 1 .. m + 1, j \in 1 .. n + 1 : <<i, j>> \in T
<1> DEFINE D == (1 .. m + 1) \X (1 .. n + 1)
           rank == [x \in D |-> (m + 1 - x[1]) + (n + 1 - x[2])]
<1>1. rank \in [D -> Nat]
  OBVIOUS
<1>2. ASSUME NEW x \in D, \A y \in D : rank[y] < rank[x] => y \in T PROVE x \in T
  <2>1. PICK i \in 1 .. m + 1, j \in 1 .. n + 1 : x = <<i, j>>
    OBVIOUS
  <2>2. rank[x] = (m + 1 - i) + (n + 1 - j)
    BY <2>1
  <2>3. i <= m => <<i + 1, j>> \in T
    <3> SUFFICES ASSUME i <= m PROVE <<i + 1, j>> \in T
      OBVIOUS
    <3>1. <<i + 1, j>> \in D /\ rank[<<i + 1, j>>] = (m + 1 - (i + 1)) + (n + 1 - j)
      OBVIOUS
    <3>2. (m + 1 - (i + 1)) + (n + 1 - j) < (m + 1 - i) + (n + 1 - j)
      OBVIOUS
    <3> QED BY <1>2, <2>2, <3>1, <3>2
  <2>4. j <= n => <<i, j + 1>> \in T
    <3> SUFFICES ASSUME j <= n PROVE <<i, j + 1>> \in T
      OBVIOUS
    <3>1. <<i, j + 1>> \in D /\ rank[<<i, j + 1>>] = (m + 1 - i) + (n + 1 - (j + 1))
      OBVIOUS
    <3>2. (m + 1 - i) + (n + 1 - (j + 1)) < (m + 1 - i) + (n + 1 - j)
      OBVIOUS
    <3> QED BY <1>2, <2>2, <3>1, <3>2
  <2> QED BY <2>1, <2>3, <2>4
<1>3. \A x \in D : x \in T
  <2> HIDE DEF D, rank
  <2> QED BY <1>1, <1>2, RankInduction
<1> QED BY <1>3

Overlap(p, q) == p[1] <= q[2] /\ q[1] <= p[2]
OverlapFrom(s, t, i, j) == \E a \in i .. Len(s), b \in j .. Len(t) : Overlap(s[a], t[b])

LEMMA OverlapStep ==
    ASSUME NEW s, NEW t, Canonical(s), Canonical(t), NEW i \in 1 .. Len(s) + 1, NEW j \in 1 .. Len(t) + 1
    PROVE  OverlapFrom(s, t, i, j) <=>
              /\ i <= Len(s) /\ j <= Len(t)
              /\ IF s[i][2] < t[j][1] THEN OverlapFrom(s, t, i + 1, j)
                 ELSE IF t[j][2] < s[i][1] THEN OverlapFrom(s, t, i, j + 1)
                 ELSE TRUE
<1> DEFINE m == Len(s)
           n == Len(t)
<1>1. m \in Nat /\ n \in Nat /\ i \in Nat /\ j \in Nat
  BY CanonicalIs
<1>2. CASE ~(i <= m /\ j <= n)
  <2>1. i .. m = {} \/ j .. n = {}
    BY <1>1, <1>2
  <2> QED BY <1>2, <2>1 DEF OverlapFrom
<1>3. CASE i <= m /\ j <= n
  <2>1. i \in 1 .. m /\ j \in 1 .. n
    BY <1>1, <1>3
  <2>2. s[i][1] \in Nat /\ s[i][2] \in Nat /\ s[i][1] <= s[i][2] /\ t[j][1] \in Nat /\ t[j][2] \in Nat /\ t[j][1] <= t[j][2]
    BY <2>1, CanonicalIs
  <2>3. \A a \in i .. m : a = i \/ a \in i + 1 .. m
    BY <1>1
  <2>4. \A b \in j .. n : b = j \/ b \in j + 1 .. n
    BY <1>1
  <2>5. i \in i .. m /\ j \in j .. n /\ (\A a \in i + 1 .. m : a \in i .. m) /\ (\A b \in j + 1 .. n : b \in j .. n)
    BY <1>1, <1>3
  <2>6. CASE s[i][2] < t[j][1]
    <3>1. ASSUME NEW b \in j .. n PROVE ~Overlap(s[i], t[b])
      <4>1. b \in 1 .. n /\ (b = j \/ j < b)
        BY <1>1
      <4>2. j < b => t[j][2] + 1 < t[b][1]
        BY <2>1, <4>1, CanonicalIs
      <4> DEFINE p == s[i][2]
                 q == t[j][1]
                 r == t[j][2]
                 u == t[b][1]
      <4>3. p \in Nat /\ q \in Nat /\ r \in Nat /\ u \in Nat /\ p < q /\ q <= r /\ (u = q \/ r + 1 < u)
        BY <2>2, <2>6, <4>1, <4>2, CanonicalIs
      <4> HIDE DEF p, q, r, u
      <4>4. p < u
        BY <4>3
      <4> QED BY <4>3, <4>4 DEF Overlap, p, u
    <3>2. OverlapFrom(s, t, i, j) <=> OverlapFrom(s, t, i + 1, j)
      BY <2>3, <2>5, <3>1 DEF OverlapFrom
    <3> QED BY <1>3, <2>6, <3>2
  <2>7. CASE ~(s[i][2] < t[j][1]) /\ t[j][2] < s[i][1]
    <3>1. ASSUME NEW a \in i .. m PROVE ~Overlap(s[a], t[j])
      <4>1. a \in 1 .. m /\ (a = i \/ i < a)
        BY <1>1
      <4>2. i < a => s[i][2] + 1 < s[a][1]
        BY <2>1, <4>1, CanonicalIs
      <4>3. s[a][1] \in Nat
        BY <4>1, CanonicalIs
      <4>4. CASE a = i
        <5>1. s[a][1] = s[i][1] /\ t[j][2] < s[i][1]
          BY <2>7, <4>4
        <5> QED BY <2>2, <5>1 DEF Overlap
      <4>5. CASE i < a
        <5>1. s[i][2] + 1 < s[a][1]
          BY <4>2, <4>5
        <5> DEFINE p == t[j][2]
                   q == s[i][1]
                   r == s[i][2]
                   u == s[a][1]
        <5>2. p \in Nat /\ q \in Nat /\ r \in Nat /\ u \in Nat /\ p < q /\ q <= r /\ r + 1 < u
          BY <2>2, <2>7, <4>3, <5>1
        <5> HIDE DEF p, q, r, u
        <5>3. p < u
          BY <5>2
        <5> QED BY <5>2, <5>3 DEF Overlap, p, u
      <4> QED BY <4>1, <4>4, <4>5
    <3>2. OverlapFrom(s, t, i, j) <=> OverlapFrom(s, t, i, j + 1)
      BY <2>4, <2>5, <3>1 DEF OverlapFrom
    <3> QED BY <1>3, <2>7, <3>2
  <2>8. CASE ~(s[i][2] < t[j][1]) /\ ~(t[j][2] < s[i][1])
    <3>1. Overlap(s[i], t[j])
      BY <2>2, <2>8 DEF Overlap
    <3> QED BY <1>3, <2>5, <2>8, <3>1 DEF OverlapFrom
  <2> QED BY <2>6, <2>7, <2>8
<1> QED BY <1>2, <1>3

\* The two-pointer walk of `intersects` finds an overlapping pair where there is one.
LEMMA OverlapWalk ==
    ASSUME NEW s, NEW t, Canonical(s), Canonical(t)
    PROVE  Intersects(s, t) <=> SignatureFor(s) \cap SignatureFor(t) # {} /\ OverlapFrom(s, t, 1, 1)
<1> DEFINE Stage(f, i, j) == /\ i <= Len(s) /\ j <= Len(t)
                            /\ IF s[i][2] < t[j][1] THEN f[<<i + 1, j>>]
                               ELSE IF t[j][2] < s[i][1] THEN f[<<i, j + 1>>]
                               ELSE TRUE
           Eq(f) == f = [at \in Places(s, t) |-> Stage(f, at[1], at[2])]
           h == [at \in Places(s, t) |-> OverlapFrom(s, t, at[1], at[2])]
<1>1. Len(s) \in Nat /\ Len(t) \in Nat
  BY CanonicalIs
<1>2. Intersects(s, t) <=> SignatureFor(s) \cap SignatureFor(t) # {} /\ (CHOOSE f : Eq(f))[<<1, 1>>]
  BY DEF Intersects
<1>3. ASSUME NEW at \in Places(s, t)
      PROVE  /\ at[1] \in 1 .. Len(s) + 1 /\ at[2] \in 1 .. Len(t) + 1
             /\ at[1] <= Len(s) => <<at[1] + 1, at[2]>> \in Places(s, t)
             /\ at[2] <= Len(t) => <<at[1], at[2] + 1>> \in Places(s, t)
  BY <1>1 DEF Places
<1>4. \A i, j : <<i, j>> \in Places(s, t) => h[<<i, j>>] = OverlapFrom(s, t, i, j)
  OBVIOUS
<1> HIDE DEF h
<1>5. ASSUME NEW at \in Places(s, t) PROVE OverlapFrom(s, t, at[1], at[2]) <=> Stage(h, at[1], at[2])
  <2> DEFINE i == at[1]
             j == at[2]
  <2>1. OverlapFrom(s, t, i, j) <=> /\ i <= Len(s) /\ j <= Len(t)
                                    /\ IF s[i][2] < t[j][1] THEN OverlapFrom(s, t, i + 1, j)
                                       ELSE IF t[j][2] < s[i][1] THEN OverlapFrom(s, t, i, j + 1)
                                       ELSE TRUE
    BY <1>3, OverlapStep
  <2>2. i <= Len(s) => h[<<i + 1, j>>] = OverlapFrom(s, t, i + 1, j)
    BY <1>3, <1>4
  <2>3. j <= Len(t) => h[<<i, j + 1>>] = OverlapFrom(s, t, i, j + 1)
    BY <1>3, <1>4
  <2> HIDE DEF i, j
  <2>4. OverlapFrom(s, t, i, j) <=> Stage(h, i, j)
    BY <2>1, <2>2, <2>3, Zenon
  <2> QED BY <2>4 DEF i, j
<1>6. Eq(h)
  <2>1. \A at \in Places(s, t) : OverlapFrom(s, t, at[1], at[2]) = Stage(h, at[1], at[2])
    <3> HIDE DEF Stage
    <3>1. \A at \in Places(s, t) : OverlapFrom(s, t, at[1], at[2]) <=> Stage(h, at[1], at[2])
      BY <1>5
    <3>2. \A i, j : OverlapFrom(s, t, i, j) \in BOOLEAN
      BY DEF OverlapFrom
    <3>3. \A f, i, j : Stage(f, i, j) \in BOOLEAN
      BY DEF Stage
    <3> QED BY <3>1, <3>2, <3>3
  <2> HIDE DEF Stage
  <2>2. [at \in Places(s, t) |-> OverlapFrom(s, t, at[1], at[2])] = [at \in Places(s, t) |-> Stage(h, at[1], at[2])]
    BY <2>1
  <2> QED BY <2>2 DEF h
<1>7. Eq(CHOOSE f : Eq(f))
  <2> HIDE DEF Eq
  <2> QED BY <1>6
<1> DEFINE g == CHOOSE f : Eq(f)
           T == {at \in Places(s, t) : g[at] <=> OverlapFrom(s, t, at[1], at[2])}
<1>8. Eq(g)
  BY <1>7
<1> HIDE DEF g
<1>9. ASSUME NEW i \in 1 .. Len(s) + 1, NEW j \in 1 .. Len(t) + 1
      PROVE  <<i, j>> \in Places(s, t) /\ g[<<i, j>>] = Stage(g, i, j) /\ (<<i, j>> \in T <=> (g[<<i, j>>] <=> OverlapFrom(s, t, i, j)))
  BY <1>8 DEF Places
<1> HIDE DEF Eq, T
<1>10. ASSUME NEW i \in 1 .. Len(s) + 1, NEW j \in 1 .. Len(t) + 1,
              i <= Len(s) => <<i + 1, j>> \in T, j <= Len(t) => <<i, j + 1>> \in T
       PROVE  <<i, j>> \in T
  <2>1. i <= Len(s) => (g[<<i + 1, j>>] <=> OverlapFrom(s, t, i + 1, j))
    <3>1. i <= Len(s) => i + 1 \in 1 .. Len(s) + 1
      BY <1>1
    <3> HIDE DEF Stage
    <3> QED BY <1>9, <1>10, <3>1
  <2>2. j <= Len(t) => (g[<<i, j + 1>>] <=> OverlapFrom(s, t, i, j + 1))
    <3>1. j <= Len(t) => j + 1 \in 1 .. Len(t) + 1
      BY <1>1
    <3> HIDE DEF Stage
    <3> QED BY <1>9, <1>10, <3>1
  <2>3. g[<<i, j>>] <=> Stage(g, i, j)
    <3>1. g[<<i, j>>] = Stage(g, i, j)
      BY <1>9
    <3> QED BY <3>1
  <2>4. g[<<i, j>>] <=> OverlapFrom(s, t, i, j)
    BY <2>1, <2>2, <2>3, OverlapStep, Zenon
  <2> QED BY <1>9, <2>4
<1>11. \A i \in 1 .. Len(s) + 1, j \in 1 .. Len(t) + 1 : <<i, j>> \in T
  BY <1>1, <1>10, CellInduction
<1>12. 1 \in 1 .. Len(s) + 1 /\ 1 \in 1 .. Len(t) + 1
  BY <1>1
<1>13. g[<<1, 1>>] <=> OverlapFrom(s, t, 1, 1)
  BY <1>9, <1>11, <1>12
<1> QED BY <1>2, <1>13 DEF g

LEMMA DivGrows ==
    ASSUME NEW B \in Nat \ {0}, NEW a \in Nat, NEW b \in Nat, a <= b
    PROVE  a \div B \in Nat /\ b \div B \in Nat /\ a \div B <= b \div B
OBVIOUS

LEMMA SignatureIs ==
    ASSUME NEW s, Canonical(s)
    PROVE  /\ (\E i \in 1 .. Len(s) : s[i][2] > IPv4Max) => SignatureFor(s) = Buckets
           /\ \A v \in Nat : v <= IPv4Max /\ Keeps(s, v) => v \div BucketSize \in SignatureFor(s)
<1>1. ToSet(s) = {s[i] : i \in 1 .. Len(s)} /\ DOMAIN s = 1 .. Len(s)
  BY CanonicalIs DEF ToSet
<1>2. ASSUME NEW v \in Nat, v <= IPv4Max, Keeps(s, v) PROVE v \div BucketSize \in SignatureFor(s)
  <2>1. CASE \E p \in ToSet(s) : p[2] > IPv4Max
    <3>1. v \div BucketSize \in Nat /\ IPv4Max \div BucketSize \in Nat /\ v \div BucketSize <= IPv4Max \div BucketSize
      BY <1>2, IntervalAssumption, DivGrows
    <3> QED BY <2>1, <3>1 DEF SignatureFor, Buckets
  <2>2. CASE ~\E p \in ToSet(s) : p[2] > IPv4Max
    <3>1. PICK i \in 1 .. Len(s) : s[i][1] <= v /\ v <= s[i][2]
      BY <1>1, <1>2 DEF Keeps, InPair
    <3>2. s[i][1] \in Nat /\ s[i][2] \in Nat /\ s[i] \in ToSet(s)
      BY <1>1, CanonicalIs
    <3>3. v \div BucketSize \in s[i][1] \div BucketSize .. s[i][2] \div BucketSize
      <4>1. v \div BucketSize \in Nat /\ s[i][1] \div BucketSize \in Nat /\ s[i][1] \div BucketSize <= v \div BucketSize
        BY <3>1, <3>2, IntervalAssumption, DivGrows
      <4>2. s[i][2] \div BucketSize \in Nat /\ v \div BucketSize <= s[i][2] \div BucketSize
        BY <3>1, <3>2, IntervalAssumption, DivGrows
      <4> QED BY <4>1, <4>2
    <3> QED BY <2>2, <3>2, <3>3 DEF SignatureFor
  <2> QED BY <2>1, <2>2
<1>3. (\E i \in 1 .. Len(s) : s[i][2] > IPv4Max) => SignatureFor(s) = Buckets
  BY <1>1 DEF SignatureFor
<1> QED BY <1>2, <1>3

LEMMA SignaturesMeet ==
    ASSUME NEW s, NEW t, Canonical(s), Canonical(t), NEW v \in Int, Keeps(s, v), Keeps(t, v)
    PROVE  SignatureFor(s) \cap SignatureFor(t) # {}
<1>1. v \in Nat
  BY HeldAreValues, IntervalAssumption DEF Value
<1>2. CASE v <= IPv4Max
  BY <1>1, <1>2, SignatureIs
<1>3. CASE ~(v <= IPv4Max)
  <2>1. PICK i \in 1 .. Len(s) : v <= s[i][2] /\ s[i][2] \in Nat
    BY CanonicalIs DEF Keeps, InPair
  <2>2. PICK j \in 1 .. Len(t) : v <= t[j][2] /\ t[j][2] \in Nat
    BY CanonicalIs DEF Keeps, InPair
  <2>3. s[i][2] > IPv4Max /\ t[j][2] > IPv4Max
    BY <1>1, <1>3, <2>1, <2>2, IntervalAssumption
  <2>4. SignatureFor(s) = Buckets /\ SignatureFor(t) = Buckets
    BY <2>3, SignatureIs
  <2>5. 0 \in Buckets
    BY IntervalAssumption, DivGrows DEF Buckets
  <2> QED BY <2>4, <2>5
<1> QED BY <1>2, <1>3

LEMMA OverlapIsShared ==
    ASSUME NEW s, NEW t, Canonical(s), Canonical(t)
    PROVE  OverlapFrom(s, t, 1, 1) <=> \E v \in Int : Keeps(s, v) /\ Keeps(t, v)
<1>1. ASSUME OverlapFrom(s, t, 1, 1) PROVE \E v \in Int : Keeps(s, v) /\ Keeps(t, v)
  <2>1. PICK a \in 1 .. Len(s), b \in 1 .. Len(t) : Overlap(s[a], t[b])
    BY <1>1 DEF OverlapFrom
  <2>2. s[a][1] \in Nat /\ s[a][2] \in Nat /\ s[a][1] <= s[a][2] /\ t[b][1] \in Nat /\ t[b][2] \in Nat /\ t[b][1] <= t[b][2]
    BY CanonicalIs
  <2>3. Upper(s[a][1], t[b][1]) \in Int /\ InPair(s[a], Upper(s[a][1], t[b][1])) /\ InPair(t[b], Upper(s[a][1], t[b][1]))
    BY <2>1, <2>2 DEF Upper, Overlap, InPair
  <2> QED BY <2>3, CanonicalIs DEF Keeps
<1>2. ASSUME NEW v \in Int, Keeps(s, v), Keeps(t, v) PROVE OverlapFrom(s, t, 1, 1)
  <2>1. PICK a \in 1 .. Len(s) : s[a][1] <= v /\ v <= s[a][2] /\ s[a][1] \in Nat /\ s[a][2] \in Nat
    BY <1>2, CanonicalIs DEF Keeps, InPair
  <2>2. PICK b \in 1 .. Len(t) : t[b][1] <= v /\ v <= t[b][2] /\ t[b][1] \in Nat /\ t[b][2] \in Nat
    BY <1>2, CanonicalIs DEF Keeps, InPair
  <2>3. Overlap(s[a], t[b])
    BY <2>1, <2>2 DEF Overlap
  <2> QED BY <2>3 DEF OverlapFrom
<1> QED BY <1>1, <1>2

\* `intersects` answers whether a value is shared.
LEMMA IntersectsIs ==
    ASSUME NEW s, NEW t, Canonical(s), Canonical(t)
    PROVE  Intersects(s, t) <=> Values(s) \cap Values(t) # {}
<1>1. Intersects(s, t) <=> \E v \in Int : Keeps(s, v) /\ Keeps(t, v)
  BY OverlapWalk, OverlapIsShared, SignaturesMeet
<1>2. \A v : v \in Value => v \in Int
  BY IntervalAssumption DEF Value
<1> QED BY <1>1, <1>2, ValuesHeld, HeldAreValues

Encloses(p, q) == p[1] <= q[1] /\ q[2] <= p[2]
ContainedFrom(s, t, i, j) == \A b \in j .. Len(t) : \E a \in i .. Len(s) : Encloses(s[a], t[b])

LEMMA ContainedStep ==
    ASSUME NEW s, NEW t, Canonical(s), Canonical(t), NEW i \in 1 .. Len(s) + 1, NEW j \in 1 .. Len(t) + 1
    PROVE  ContainedFrom(s, t, i, j) <=>
              \/ j > Len(t)
              \/ /\ i <= Len(s)
                 /\ IF s[i][2] < t[j][1] THEN ContainedFrom(s, t, i + 1, j)
                    ELSE s[i][1] <= t[j][1] /\ t[j][2] <= s[i][2] /\ ContainedFrom(s, t, i, j + 1)
<1> DEFINE m == Len(s)
           n == Len(t)
<1>1. m \in Nat /\ n \in Nat /\ i \in Nat /\ j \in Nat
  BY CanonicalIs
<1>2. CASE j > n
  <2>1. j .. n = {}
    BY <1>1, <1>2
  <2> QED BY <1>2, <2>1 DEF ContainedFrom
<1>3. CASE ~(j > n) /\ ~(i <= m)
  <2>1. i .. m = {} /\ j \in j .. n
    BY <1>1, <1>3
  <2> QED BY <1>3, <2>1 DEF ContainedFrom
<1>4. CASE ~(j > n) /\ i <= m
  <2>1. i \in 1 .. m /\ j \in 1 .. n
    BY <1>1, <1>4
  <2>2. s[i][1] \in Nat /\ s[i][2] \in Nat /\ s[i][1] <= s[i][2] /\ t[j][1] \in Nat /\ t[j][2] \in Nat /\ t[j][1] <= t[j][2]
    BY <2>1, CanonicalIs
  <2>3. \A a \in i .. m : a = i \/ a \in i + 1 .. m
    BY <1>1
  <2>4. \A b \in j .. n : b = j \/ b \in j + 1 .. n
    BY <1>1
  <2>5. i \in i .. m /\ j \in j .. n /\ (\A a \in i + 1 .. m : a \in i .. m) /\ (\A b \in j + 1 .. n : b \in j .. n)
    BY <1>1, <1>4
  <2>6. CASE s[i][2] < t[j][1]
    <3>1. ASSUME NEW b \in j .. n PROVE ~Encloses(s[i], t[b])
      <4>1. b \in 1 .. n /\ (b = j \/ j < b)
        BY <1>1
      <4>2. j < b => t[j][2] + 1 < t[b][1]
        BY <2>1, <4>1, CanonicalIs
      <4> DEFINE p == s[i][2]
                 q == t[j][1]
                 r == t[j][2]
                 u == t[b][1]
                 v == t[b][2]
      <4>3. /\ p \in Nat /\ q \in Nat /\ r \in Nat /\ u \in Nat /\ v \in Nat
            /\ p < q /\ q <= r /\ u <= v /\ (u = q \/ r + 1 < u)
        BY <2>2, <2>6, <4>1, <4>2, CanonicalIs
      <4> HIDE DEF p, q, r, u, v
      <4>4. p < v
        BY <4>3
      <4> QED BY <4>3, <4>4 DEF Encloses, p, v
    <3>2. ContainedFrom(s, t, i, j) <=> ContainedFrom(s, t, i + 1, j)
      BY <2>3, <2>5, <3>1 DEF ContainedFrom
    <3> QED BY <1>4, <2>6, <3>2
  <2>7. CASE ~(s[i][2] < t[j][1])
    <3>1. ASSUME NEW a \in i + 1 .. m PROVE ~Encloses(s[a], t[j])
      <4>1. a \in 1 .. m /\ i < a
        BY <1>1
      <4>2. s[i][2] + 1 < s[a][1] /\ s[a][1] \in Nat
        BY <2>1, <4>1, CanonicalIs
      <4> DEFINE p == t[j][1]
                 q == s[i][2]
                 r == s[a][1]
      <4>3. p \in Nat /\ q \in Nat /\ r \in Nat /\ p <= q /\ q + 1 < r
        BY <2>2, <2>7, <4>2
      <4> HIDE DEF p, q, r
      <4>4. p < r
        BY <4>3
      <4> QED BY <4>3, <4>4 DEF Encloses, p, r
    <3>2. (\E a \in i .. m : Encloses(s[a], t[j])) <=> Encloses(s[i], t[j])
      BY <2>3, <2>5, <3>1
    <3>3. ContainedFrom(s, t, i, j) <=> (\E a \in i .. m : Encloses(s[a], t[j])) /\ ContainedFrom(s, t, i, j + 1)
      BY <2>4, <2>5 DEF ContainedFrom
    <3> QED BY <1>4, <2>7, <3>2, <3>3 DEF Encloses
  <2> QED BY <2>6, <2>7
<1> QED BY <1>2, <1>3, <1>4

LEMMA ContainedWalk ==
    ASSUME NEW s, NEW t, Canonical(s), Canonical(t)
    PROVE  ContainsSet(s, t) <=> t = <<>> \/ (Size(t) <= Size(s) /\ ContainedFrom(s, t, 1, 1))
<1> DEFINE Stage(f, i, j) == \/ j > Len(t)
                            \/ /\ i <= Len(s)
                               /\ IF s[i][2] < t[j][1] THEN f[<<i + 1, j>>]
                                  ELSE s[i][1] <= t[j][1] /\ t[j][2] <= s[i][2] /\ f[<<i, j + 1>>]
           Eq(f) == f = [at \in Places(s, t) |-> Stage(f, at[1], at[2])]
           h == [at \in Places(s, t) |-> ContainedFrom(s, t, at[1], at[2])]
<1>1. Len(s) \in Nat /\ Len(t) \in Nat
  BY CanonicalIs
<1>2. ContainsSet(s, t) <=> t = <<>> \/ (Size(t) <= Size(s) /\ (CHOOSE f : Eq(f))[<<1, 1>>])
  BY DEF ContainsSet
<1>3. ASSUME NEW at \in Places(s, t)
      PROVE  /\ at[1] \in 1 .. Len(s) + 1 /\ at[2] \in 1 .. Len(t) + 1
             /\ at[1] <= Len(s) => <<at[1] + 1, at[2]>> \in Places(s, t)
             /\ ~(at[2] > Len(t)) => <<at[1], at[2] + 1>> \in Places(s, t)
  BY <1>1 DEF Places
<1>4. \A i, j : <<i, j>> \in Places(s, t) => h[<<i, j>>] = ContainedFrom(s, t, i, j)
  OBVIOUS
<1> HIDE DEF h
<1>5. ASSUME NEW at \in Places(s, t) PROVE ContainedFrom(s, t, at[1], at[2]) <=> Stage(h, at[1], at[2])
  <2> DEFINE i == at[1]
             j == at[2]
  <2>1. ContainedFrom(s, t, i, j) <=> \/ j > Len(t)
                                      \/ /\ i <= Len(s)
                                         /\ IF s[i][2] < t[j][1] THEN ContainedFrom(s, t, i + 1, j)
                                            ELSE s[i][1] <= t[j][1] /\ t[j][2] <= s[i][2] /\ ContainedFrom(s, t, i, j + 1)
    BY <1>3, ContainedStep
  <2>2. i <= Len(s) => h[<<i + 1, j>>] = ContainedFrom(s, t, i + 1, j)
    BY <1>3, <1>4
  <2>3. ~(j > Len(t)) => h[<<i, j + 1>>] = ContainedFrom(s, t, i, j + 1)
    BY <1>3, <1>4
  <2> HIDE DEF i, j
  <2>4. ContainedFrom(s, t, i, j) <=> Stage(h, i, j)
    BY <2>1, <2>2, <2>3, Zenon
  <2> QED BY <2>4 DEF i, j
<1>6. Eq(h)
  <2>1. \A at \in Places(s, t) : ContainedFrom(s, t, at[1], at[2]) = Stage(h, at[1], at[2])
    <3> HIDE DEF Stage
    <3>1. \A at \in Places(s, t) : ContainedFrom(s, t, at[1], at[2]) <=> Stage(h, at[1], at[2])
      BY <1>5
    <3>2. \A i, j : ContainedFrom(s, t, i, j) \in BOOLEAN
      BY DEF ContainedFrom
    <3>3. \A f, i, j : Stage(f, i, j) \in BOOLEAN
      BY DEF Stage
    <3> QED BY <3>1, <3>2, <3>3
  <2> HIDE DEF Stage
  <2>2. [at \in Places(s, t) |-> ContainedFrom(s, t, at[1], at[2])] = [at \in Places(s, t) |-> Stage(h, at[1], at[2])]
    BY <2>1
  <2> QED BY <2>2 DEF h
<1>7. Eq(CHOOSE f : Eq(f))
  <2> HIDE DEF Eq
  <2> QED BY <1>6
<1> DEFINE g == CHOOSE f : Eq(f)
           T == {at \in Places(s, t) : g[at] <=> ContainedFrom(s, t, at[1], at[2])}
<1>8. Eq(g)
  BY <1>7
<1> HIDE DEF g
<1>9. ASSUME NEW i \in 1 .. Len(s) + 1, NEW j \in 1 .. Len(t) + 1
      PROVE  <<i, j>> \in Places(s, t) /\ g[<<i, j>>] = Stage(g, i, j) /\ (<<i, j>> \in T <=> (g[<<i, j>>] <=> ContainedFrom(s, t, i, j)))
  BY <1>8 DEF Places
<1> HIDE DEF Eq, T
<1>10. ASSUME NEW i \in 1 .. Len(s) + 1, NEW j \in 1 .. Len(t) + 1,
              i <= Len(s) => <<i + 1, j>> \in T, j <= Len(t) => <<i, j + 1>> \in T
       PROVE  <<i, j>> \in T
  <2>1. i <= Len(s) => (g[<<i + 1, j>>] <=> ContainedFrom(s, t, i + 1, j))
    <3>1. i <= Len(s) => i + 1 \in 1 .. Len(s) + 1
      BY <1>1
    <3> HIDE DEF Stage
    <3> QED BY <1>9, <1>10, <3>1
  <2>2. ~(j > Len(t)) => (g[<<i, j + 1>>] <=> ContainedFrom(s, t, i, j + 1))
    <3>1. ~(j > Len(t)) => j + 1 \in 1 .. Len(t) + 1 /\ j <= Len(t)
      BY <1>1
    <3> HIDE DEF Stage
    <3> QED BY <1>9, <1>10, <3>1
  <2>3. g[<<i, j>>] <=> Stage(g, i, j)
    <3>1. g[<<i, j>>] = Stage(g, i, j)
      BY <1>9
    <3> QED BY <3>1
  <2>4. g[<<i, j>>] <=> ContainedFrom(s, t, i, j)
    BY <2>1, <2>2, <2>3, ContainedStep, Zenon
  <2> QED BY <1>9, <2>4
<1>11. \A i \in 1 .. Len(s) + 1, j \in 1 .. Len(t) + 1 : <<i, j>> \in T
  BY <1>1, <1>10, CellInduction
<1>12. 1 \in 1 .. Len(s) + 1 /\ 1 \in 1 .. Len(t) + 1
  BY <1>1
<1>13. g[<<1, 1>>] <=> ContainedFrom(s, t, 1, 1)
  BY <1>9, <1>11, <1>12
<1> QED BY <1>2, <1>13 DEF g

\* An interval whose values are all held lies in one interval, since two are never adjacent.
LEMMA ContainedIsHeld ==
    ASSUME NEW s, NEW t, Canonical(s), Canonical(t)
    PROVE  ContainedFrom(s, t, 1, 1) <=> \A v \in Int : Keeps(t, v) => Keeps(s, v)
<1>1. ASSUME ContainedFrom(s, t, 1, 1), NEW v \in Int, Keeps(t, v) PROVE Keeps(s, v)
  <2>1. PICK b \in 1 .. Len(t) : t[b][1] <= v /\ v <= t[b][2] /\ t[b][1] \in Nat /\ t[b][2] \in Nat
    BY <1>1, CanonicalIs DEF Keeps, InPair
  <2>2. PICK a \in 1 .. Len(s) : Encloses(s[a], t[b])
    BY <1>1 DEF ContainedFrom
  <2>3. s[a][1] \in Nat /\ s[a][2] \in Nat
    BY CanonicalIs
  <2>4. InPair(s[a], v)
    BY <2>1, <2>2, <2>3 DEF Encloses, InPair
  <2> QED BY <2>4, CanonicalIs DEF Keeps
<1>2. ASSUME \A v \in Int : Keeps(t, v) => Keeps(s, v), NEW b \in 1 .. Len(t)
      PROVE  \E a \in 1 .. Len(s) : Encloses(s[a], t[b])
  <2>1. t[b][1] \in Nat /\ t[b][2] \in Nat /\ t[b][1] <= t[b][2]
    BY CanonicalIs
  <2>2. \A v \in Int : t[b][1] <= v /\ v <= t[b][2] => \E a \in 1 .. Len(s) : InPair(s[a], v)
    <3> TAKE v \in Int
    <3> SUFFICES ASSUME t[b][1] <= v, v <= t[b][2] PROVE \E a \in 1 .. Len(s) : InPair(s[a], v)
      OBVIOUS
    <3>1. Keeps(t, v)
      BY CanonicalIs DEF Keeps, InPair
    <3>2. Keeps(s, v) /\ DOMAIN s = 1 .. Len(s)
      BY <1>2, <3>1, CanonicalIs
    <3> QED BY <3>2 DEF Keeps
  <2>3. PICK a \in 1 .. Len(s) : InPair(s[a], t[b][1])
    BY <2>1, <2>2
  <2>4. s[a][1] \in Nat /\ s[a][2] \in Nat /\ s[a][1] <= t[b][1] /\ t[b][1] <= s[a][2]
    BY <2>3, CanonicalIs DEF InPair
  <2>5. t[b][2] <= s[a][2]
    <3> SUFFICES ASSUME s[a][2] < t[b][2] PROVE FALSE
      BY <2>1, <2>4
    <3> DEFINE v == s[a][2] + 1
    <3>1. v \in Int /\ t[b][1] <= v /\ v <= t[b][2]
      BY <2>1, <2>4
    <3>2. PICK c \in 1 .. Len(s) : InPair(s[c], v)
      BY <2>2, <3>1
    <3>3. s[c][1] \in Nat /\ s[c][2] \in Nat /\ s[c][1] <= v /\ v <= s[c][2]
      BY <3>2, CanonicalIs DEF InPair
    <3>4. c < a => s[c][2] + 1 < s[a][1]
      BY CanonicalIs
    <3>5. a < c => s[a][2] + 1 < s[c][1]
      BY CanonicalIs
    <3>6. c < a \/ c = a \/ a < c
      OBVIOUS
    <3>7. s[a][1] <= s[a][2]
      BY CanonicalIs
    <3>8. ~(c < a) /\ ~(a < c)
      <4>1. \A x, y, z, w \in Int : x <= y /\ z <= y + 1 /\ y + 1 <= w => ~(w + 1 < x) /\ ~(y + 1 < z)
        OBVIOUS
      <4>2. ~(s[c][2] + 1 < s[a][1]) /\ ~(s[a][2] + 1 < s[c][1])
        <5> DEFINE x == s[a][1]
                   y == s[a][2]
                   z == s[c][1]
                   w == s[c][2]
        <5>1. x \in Int /\ y \in Int /\ z \in Int /\ w \in Int /\ x <= y /\ z <= y + 1 /\ y + 1 <= w
          BY <2>4, <3>3, <3>7
        <5> HIDE DEF x, y, z, w
        <5>2. ~(w + 1 < x) /\ ~(y + 1 < z)
          BY <4>1, <5>1
        <5> QED BY <5>2 DEF x, y, z, w
      <4> QED BY <3>4, <3>5, <4>2
    <3>9. c = a
      BY <3>6, <3>8
    <3> QED BY <2>4, <3>3, <3>9
  <2> QED BY <2>4, <2>5 DEF Encloses
<1>3. (\A v \in Int : Keeps(t, v) => Keeps(s, v)) => ContainedFrom(s, t, 1, 1)
  BY <1>2 DEF ContainedFrom
<1> QED BY <1>1, <1>3

\* `contains_set` answers the subset relation.
LEMMA ContainsSetIs ==
    ASSUME NEW s, NEW t, Canonical(s), Canonical(t)
    PROVE  ContainsSet(s, t) <=> Values(t) \subseteq Values(s)
<1>1. ContainedFrom(s, t, 1, 1) <=> Values(t) \subseteq Values(s)
  <2>1. \A v : v \in Value => v \in Int
    BY IntervalAssumption DEF Value
  <2> QED BY <2>1, ContainedIsHeld, ValuesHeld, HeldAreValues
<1>2. t = <<>> => Values(t) \subseteq Values(s)
  BY ValuesHeld, EmptyIs
<1>3. Values(t) \subseteq Values(s) => Size(t) <= Size(s)
  BY LargerIsNotWithin
<1> QED BY <1>1, <1>2, <1>3, ContainedWalk

FoundBetween(s, v, lo, hi) == \E k \in lo .. hi : InPair(s[k], v)

LEMMA SearchStep ==
    ASSUME NEW s, Canonical(s), NEW v \in Int, NEW lo \in 1 .. Len(s) + 1, NEW hi \in 0 .. Len(s)
    PROVE  FoundBetween(s, v, lo, hi) <=>
              /\ lo <= hi
              /\ IF v < s[(lo + hi) \div 2][1] THEN FoundBetween(s, v, lo, ((lo + hi) \div 2) - 1)
                 ELSE IF v > s[(lo + hi) \div 2][2] THEN FoundBetween(s, v, ((lo + hi) \div 2) + 1, hi) ELSE TRUE
<1> DEFINE mid == (lo + hi) \div 2
<1>1. Len(s) \in Nat /\ lo \in Nat /\ hi \in Nat
  BY CanonicalIs
<1>2. CASE ~(lo <= hi)
  <2>1. lo .. hi = {}
    BY <1>1, <1>2
  <2> QED BY <1>2, <2>1 DEF FoundBetween
<1>3. CASE lo <= hi
  <2>1. mid \in lo .. hi /\ mid \in 1 .. Len(s)
    BY <1>1, <1>3
  <2> HIDE DEF mid
  <2>2. s[mid][1] \in Nat /\ s[mid][2] \in Nat /\ s[mid][1] <= s[mid][2]
    BY <2>1, CanonicalIs
  <2>3. ASSUME v < s[mid][1] PROVE FoundBetween(s, v, lo, hi) <=> FoundBetween(s, v, lo, mid - 1)
    <3>1. ASSUME NEW k \in mid .. hi PROVE ~InPair(s[k], v)
      <4>1. k \in 1 .. Len(s) /\ (k = mid \/ mid < k)
        BY <1>1, <2>1
      <4>2. mid < k => s[mid][2] + 1 < s[k][1]
        BY <2>1, <4>1, CanonicalIs
      <4>3. s[k][1] \in Nat
        BY <4>1, CanonicalIs
      <4>4. v < s[k][1]
        BY <2>2, <2>3, <4>1, <4>2, <4>3
      <4> QED BY <4>3, <4>4 DEF InPair
    <3>2. \A k \in lo .. hi : k \in mid .. hi \/ k \in lo .. mid - 1
      BY <1>1, <2>1
    <3>3. \A k \in lo .. mid - 1 : k \in lo .. hi
      BY <1>1, <2>1
    <3> QED BY <3>1, <3>2, <3>3 DEF FoundBetween
  <2>4. ASSUME v > s[mid][2] PROVE FoundBetween(s, v, lo, hi) <=> FoundBetween(s, v, mid + 1, hi)
    <3>1. ASSUME NEW k \in lo .. mid PROVE ~InPair(s[k], v)
      <4>1. k \in 1 .. Len(s) /\ (k = mid \/ k < mid)
        BY <1>1, <2>1
      <4>2. k < mid => s[k][2] + 1 < s[mid][1]
        BY <2>1, <4>1, CanonicalIs
      <4>3. s[k][2] \in Nat
        BY <4>1, CanonicalIs
      <4>4. s[k][2] < v
        BY <2>2, <2>4, <4>1, <4>2, <4>3
      <4> QED BY <4>3, <4>4 DEF InPair
    <3>2. \A k \in lo .. hi : k \in lo .. mid \/ k \in mid + 1 .. hi
      BY <1>1, <2>1
    <3>3. \A k \in mid + 1 .. hi : k \in lo .. hi
      BY <1>1, <2>1
    <3> QED BY <3>1, <3>2, <3>3 DEF FoundBetween
  <2>5. ASSUME ~(v < s[mid][1]), ~(v > s[mid][2]) PROVE FoundBetween(s, v, lo, hi)
    <3>1. InPair(s[mid], v)
      BY <2>2, <2>5 DEF InPair
    <3> QED BY <2>1, <3>1 DEF FoundBetween
  <2> QED BY <1>3, <2>3, <2>4, <2>5 DEF mid
<1> QED BY <1>2, <1>3

\* The binary search of `covers_value` finds the value where an interval holds it.
LEMMA SearchIs ==
    ASSUME NEW s, Canonical(s), NEW v \in Int
    PROVE  CoversValue(s, v) <=> Keeps(s, v)
<1> DEFINE D == (1 .. Len(s) + 1) \X (0 .. Len(s))
           Stage(f, lo, hi) == /\ lo <= hi
                              /\ IF v < s[(lo + hi) \div 2][1] THEN f[<<lo, ((lo + hi) \div 2) - 1>>]
                                 ELSE IF v > s[(lo + hi) \div 2][2] THEN f[<<((lo + hi) \div 2) + 1, hi>>] ELSE TRUE
           Eq(f) == f = [between \in D |-> Stage(f, between[1], between[2])]
           h == [between \in D |-> FoundBetween(s, v, between[1], between[2])]
<1>1. Len(s) \in Nat /\ DOMAIN s = 1 .. Len(s)
  BY CanonicalIs
<1>2. CoversValue(s, v) <=> (CHOOSE f : Eq(f))[<<1, Len(s)>>]
  BY DEF CoversValue
<1>3. ASSUME NEW lo \in 1 .. Len(s) + 1, NEW hi \in 0 .. Len(s), lo <= hi
      PROVE  <<lo, ((lo + hi) \div 2) - 1>> \in D /\ <<((lo + hi) \div 2) + 1, hi>> \in D
  BY <1>1, <1>3
<1>4. \A lo, hi : <<lo, hi>> \in D => h[<<lo, hi>>] = FoundBetween(s, v, lo, hi)
  OBVIOUS
<1>5. \A between \in D : between[1] \in 1 .. Len(s) + 1 /\ between[2] \in 0 .. Len(s)
  OBVIOUS
<1> HIDE DEF h, D
<1>6. ASSUME NEW between \in D PROVE FoundBetween(s, v, between[1], between[2]) <=> Stage(h, between[1], between[2])
  <2> DEFINE lo == between[1]
             hi == between[2]
             mid == (lo + hi) \div 2
  <2>1. FoundBetween(s, v, lo, hi) <=> /\ lo <= hi
                                       /\ IF v < s[mid][1] THEN FoundBetween(s, v, lo, mid - 1)
                                          ELSE IF v > s[mid][2] THEN FoundBetween(s, v, mid + 1, hi) ELSE TRUE
    <3>1. lo \in 1 .. Len(s) + 1 /\ hi \in 0 .. Len(s)
      BY <1>5
    <3> HIDE DEF lo, hi
    <3> QED BY <3>1, SearchStep
  <2>2. lo <= hi => h[<<lo, mid - 1>>] = FoundBetween(s, v, lo, mid - 1) /\ h[<<mid + 1, hi>>] = FoundBetween(s, v, mid + 1, hi)
    <3>1. lo \in 1 .. Len(s) + 1 /\ hi \in 0 .. Len(s)
      BY <1>5
    <3> HIDE DEF lo, hi
    <3>2. lo <= hi => <<lo, mid - 1>> \in D /\ <<mid + 1, hi>> \in D
      BY <1>3, <3>1
    <3> QED BY <1>4, <3>2
  <2>3. Stage(h, lo, hi) <=> /\ lo <= hi
                            /\ IF v < s[mid][1] THEN h[<<lo, mid - 1>>]
                               ELSE IF v > s[mid][2] THEN h[<<mid + 1, hi>>] ELSE TRUE
    OBVIOUS
  <2> HIDE DEF lo, hi, mid, Stage
  <2>4. FoundBetween(s, v, lo, hi) <=> Stage(h, lo, hi)
    BY <2>1, <2>2, <2>3, Zenon
  <2> QED BY <2>4 DEF lo, hi
<1>7. Eq(h)
  <2> HIDE DEF Stage
  <2>1. \A between \in D : FoundBetween(s, v, between[1], between[2]) = Stage(h, between[1], between[2])
    <3>1. \A between \in D : FoundBetween(s, v, between[1], between[2]) <=> Stage(h, between[1], between[2])
      BY <1>6
    <3>2. \A i, j : FoundBetween(s, v, i, j) \in BOOLEAN
      BY DEF FoundBetween
    <3>3. \A f, i, j : Stage(f, i, j) \in BOOLEAN
      BY DEF Stage
    <3> QED BY <3>1, <3>2, <3>3
  <2>2. [between \in D |-> FoundBetween(s, v, between[1], between[2])] = [between \in D |-> Stage(h, between[1], between[2])]
    BY <2>1
  <2> QED BY <2>2 DEF h
<1>8. Eq(CHOOSE f : Eq(f))
  <2> HIDE DEF Eq
  <2> QED BY <1>7
<1> DEFINE g == CHOOSE f : Eq(f)
           T == {between \in D : g[between] <=> FoundBetween(s, v, between[1], between[2])}
           rank == [between \in D |-> Upper(between[2] - between[1] + 1, 0)]
<1>9. Eq(g)
  BY <1>8
<1> HIDE DEF g
<1>10. ASSUME NEW between \in D
       PROVE  g[between] = Stage(g, between[1], between[2]) /\ (between \in T <=> (g[between] <=> FoundBetween(s, v, between[1], between[2])))
  BY <1>9
<1>11. rank \in [D -> Nat]
  BY <1>1, <1>5 DEF Upper
<1>12. ASSUME NEW x \in D, \A y \in D : rank[y] < rank[x] => y \in T PROVE x \in T
  <2> DEFINE lo == x[1]
             hi == x[2]
             mid == (lo + hi) \div 2
  <2>1. lo \in 1 .. Len(s) + 1 /\ hi \in 0 .. Len(s) /\ x = <<lo, hi>>
    BY <1>5 DEF D
  <2>2. ASSUME lo <= hi PROVE (g[<<lo, mid - 1>>] <=> FoundBetween(s, v, lo, mid - 1)) /\ (g[<<mid + 1, hi>>] <=> FoundBetween(s, v, mid + 1, hi))
    <3> DEFINE a == <<lo, mid - 1>>
               b == <<mid + 1, hi>>
    <3>1. a \in D /\ b \in D
      BY <1>3, <2>1, <2>2
    <3>2. rank[x] = Upper(hi - lo + 1, 0) /\ rank[a] = Upper((mid - 1) - lo + 1, 0) /\ rank[b] = Upper(hi - (mid + 1) + 1, 0)
      BY <3>1
    <3>3. Upper((mid - 1) - lo + 1, 0) < Upper(hi - lo + 1, 0) /\ Upper(hi - (mid + 1) + 1, 0) < Upper(hi - lo + 1, 0)
      <4>1. lo \in Int /\ hi \in Int /\ lo <= hi
        BY <1>1, <2>1, <2>2
      <4> HIDE DEF lo, hi
      <4>2. mid \in Int /\ lo <= mid /\ mid <= hi
        BY <4>1
      <4> HIDE DEF mid
      <4> QED BY <4>1, <4>2 DEF Upper
    <3>4. rank[a] < rank[x] /\ rank[b] < rank[x]
      BY <3>2, <3>3
    <3>5. a[1] = lo /\ a[2] = mid - 1 /\ b[1] = mid + 1 /\ b[2] = hi
      OBVIOUS
    <3> HIDE DEF a, b, rank, T, Stage, lo, hi, mid
    <3>6. a \in T /\ b \in T
      BY <1>12, <3>1, <3>4
    <3>7. (g[a] <=> FoundBetween(s, v, a[1], a[2])) /\ (g[b] <=> FoundBetween(s, v, b[1], b[2]))
      BY <1>10, <3>1, <3>6
    <3>8. (g[a] <=> FoundBetween(s, v, lo, mid - 1)) /\ (g[b] <=> FoundBetween(s, v, mid + 1, hi))
      BY <3>5, <3>7
    <3> QED BY <3>8 DEF a, b
  <2>3. FoundBetween(s, v, lo, hi) <=> /\ lo <= hi
                                       /\ IF v < s[mid][1] THEN FoundBetween(s, v, lo, mid - 1)
                                          ELSE IF v > s[mid][2] THEN FoundBetween(s, v, mid + 1, hi) ELSE TRUE
    <3> HIDE DEF lo, hi
    <3> QED BY <2>1, SearchStep
  <2>4. g[x] <=> /\ lo <= hi
                 /\ IF v < s[mid][1] THEN g[<<lo, mid - 1>>]
                    ELSE IF v > s[mid][2] THEN g[<<mid + 1, hi>>] ELSE TRUE
    <3>1. g[x] = Stage(g, lo, hi)
      BY <1>10
    <3>2. Stage(g, lo, hi) <=> /\ lo <= hi
                              /\ IF v < s[mid][1] THEN g[<<lo, mid - 1>>]
                                 ELSE IF v > s[mid][2] THEN g[<<mid + 1, hi>>] ELSE TRUE
      OBVIOUS
    <3> HIDE DEF Stage, lo, hi, mid
    <3> QED BY <3>1, <3>2
  <2> HIDE DEF lo, hi, mid, T
  <2>5. g[x] <=> FoundBetween(s, v, lo, hi)
    BY <2>2, <2>3, <2>4, Zenon
  <2> QED BY <1>10, <2>5 DEF lo, hi
<1>13. \A x \in D : x \in T
  <2> HIDE DEF T, rank
  <2> QED BY <1>11, <1>12, RankInduction
<1>14. <<1, Len(s)>> \in D
  BY <1>1 DEF D
<1>15. g[<<1, Len(s)>>] <=> FoundBetween(s, v, 1, Len(s))
  <2> DEFINE x == <<1, Len(s)>>
  <2>1. x \in D /\ x \in T /\ x[1] = 1 /\ x[2] = Len(s)
    BY <1>13, <1>14
  <2> HIDE DEF x, T, Stage
  <2>2. g[x] <=> FoundBetween(s, v, x[1], x[2])
    BY <1>10, <2>1
  <2> QED BY <2>1, <2>2 DEF x
<1>16. FoundBetween(s, v, 1, Len(s)) <=> Keeps(s, v)
  BY <1>1 DEF FoundBetween, Keeps
<1> QED BY <1>2, <1>15, <1>16 DEF g

LEMMA Prepended ==
    ASSUME NEW r, Canonical(r), NEW p \in Pair, \A k \in 1 .. Len(r) : p[2] + 1 < r[k][1]
    PROVE  Canonical(<<p>> \o r) /\ \A v \in Int : Keeps(<<p>> \o r, v) <=> InPair(p, v) \/ Keeps(r, v)
<1> DEFINE q == <<p>> \o r
           n == Len(r)
<1>1. r \in Seq(Pair) /\ n \in Nat /\ DOMAIN r = 1 .. n
  BY CanonicalIs
<1>2. q \in Seq(Pair) /\ DOMAIN q = 1 .. n + 1 /\ q[1] = p /\ \A k \in 2 .. n + 1 : q[k] = r[k - 1]
  BY <1>1
<1> HIDE DEF q
<1>3. ASSUME NEW i \in 1 .. n + 1, NEW j \in 1 .. n + 1, i < j PROVE q[i][2] + 1 < q[j][1]
  <2>1. j \in 2 .. n + 1 /\ j - 1 \in 1 .. n /\ q[j] = r[j - 1]
    BY <1>1, <1>2, <1>3
  <2>2. CASE i = 1
    BY <1>2, <2>1, <2>2
  <2>3. CASE i # 1
    <3>1. i \in 2 .. n + 1 /\ i - 1 \in 1 .. n /\ i - 1 < j - 1
      BY <1>1, <1>3, <2>3
    <3>2. r[i - 1][2] + 1 < r[j - 1][1]
      BY <2>1, <3>1, CanonicalIs
    <3> QED BY <1>2, <2>1, <3>1, <3>2
  <2> QED BY <2>2, <2>3
<1>4. \A v \in Int : Keeps(q, v) <=> InPair(p, v) \/ Keeps(r, v)
  <2> TAKE v \in Int
  <2>1. \A k \in 1 .. n + 1 : k = 1 \/ (k \in 2 .. n + 1 /\ k - 1 \in 1 .. n)
    BY <1>1
  <2>2. \A k \in 1 .. n : k + 1 \in 2 .. n + 1 /\ k + 1 \in 1 .. n + 1 /\ (k + 1) - 1 = k
    BY <1>1
  <2>3. 1 \in 1 .. n + 1
    BY <1>1
  <2>4. Keeps(q, v) => InPair(p, v) \/ Keeps(r, v)
    BY <1>1, <1>2, <2>1 DEF Keeps
  <2>5. InPair(p, v) => Keeps(q, v)
    BY <1>2, <2>3 DEF Keeps
  <2>6. Keeps(r, v) => Keeps(q, v)
    <3> SUFFICES ASSUME NEW k \in 1 .. n, InPair(r[k], v) PROVE Keeps(q, v)
      BY <1>1 DEF Keeps
    <3>1. q[k + 1] = r[k] /\ k + 1 \in DOMAIN q
      BY <1>2, <2>2
    <3> QED BY <3>1 DEF Keeps
  <2> QED BY <2>4, <2>5, <2>6
<1> QED BY <1>2, <1>3, <1>4 DEF q, Canonical

HeldFrom(s, i, v) == \E a \in i .. Len(s) : InPair(s[a], v)

\* The part two intervals share, put before what later intervals share.
Met(p, q, rest) ==
    IF Upper(p[1], q[1]) <= Lower(p[2], q[2]) THEN <<<<Upper(p[1], q[1]), Lower(p[2], q[2])>>>> \o rest ELSE rest

LEMMA MetIs ==
    ASSUME NEW p \in Pair, NEW q \in Pair, NEW r \in Seq(Pair)
    PROVE  Met(p, q, r) \in Seq(Pair)
<1> DEFINE lo == Upper(p[1], q[1])
           hi == Lower(p[2], q[2])
<1>1. CASE lo <= hi
  <2>1. lo \in Nat /\ hi \in Nat /\ hi <= Top
    BY PairIs, IntervalAssumption DEF Upper, Lower
  <2> HIDE DEF lo, hi
  <2>2. <<lo, hi>> \in Pair
    BY <1>1, <2>1, PairMade
  <2> DEFINE c == <<lo, hi>>
  <2> HIDE DEF c
  <2>3. <<c>> \o r \in Seq(Pair)
    BY <2>2 DEF c
  <2> QED BY <1>1, <2>3 DEF Met, c, lo, hi
<1>2. CASE ~(lo <= hi)
  BY <1>2 DEF Met
<1> QED BY <1>1, <1>2

\* What a walk of `intersection` returns from a place on.
SharedFrom(s, t, i, j, r) ==
    Canonical(r) /\ \A v \in Int : Keeps(r, v) <=> HeldFrom(s, i, v) /\ HeldFrom(t, j, v)

LEMMA HeldFromIs ==
    ASSUME NEW s, Canonical(s), NEW i \in 1 .. Len(s)
    PROVE  /\ \A v \in Int : HeldFrom(s, i, v) <=> InPair(s[i], v) \/ HeldFrom(s, i + 1, v)
           /\ \A v \in Int : HeldFrom(s, i + 1, v) => s[i][2] + 1 < v
<1>1. Len(s) \in Nat /\ i \in Nat
  BY CanonicalIs
<1>2. \A a \in i .. Len(s) : a = i \/ a \in i + 1 .. Len(s)
  BY <1>1
<1>3. i \in i .. Len(s) /\ \A a \in i + 1 .. Len(s) : a \in i .. Len(s)
  BY <1>1
<1>4. ASSUME NEW v \in Int, HeldFrom(s, i + 1, v) PROVE s[i][2] + 1 < v
  <2>1. PICK a \in i + 1 .. Len(s) : InPair(s[a], v)
    BY <1>4 DEF HeldFrom
  <2>2. a \in 1 .. Len(s) /\ i < a
    BY <1>1
  <2>3. s[i][2] + 1 < s[a][1] /\ s[a][1] \in Nat /\ s[i][2] \in Nat
    BY <2>2, CanonicalIs
  <2> QED BY <2>1, <2>3 DEF InPair
<1>5. \A v \in Int : HeldFrom(s, i, v) <=> InPair(s[i], v) \/ HeldFrom(s, i + 1, v)
  BY <1>2, <1>3 DEF HeldFrom
<1> QED BY <1>4, <1>5

\* One step, with the set that ends first passed over.
LEMMA MetShares ==
    ASSUME NEW s, NEW t, Canonical(s), Canonical(t), NEW i \in 1 .. Len(s), NEW j \in 1 .. Len(t),
           s[i][2] <= t[j][2], NEW r, SharedFrom(s, t, i + 1, j, r)
    PROVE  SharedFrom(s, t, i, j, Met(s[i], t[j], r)) /\ SharedFrom(t, s, j, i, Met(t[j], s[i], r))
<1> DEFINE lo == Upper(s[i][1], t[j][1])
           hi == s[i][2]
           m == IF lo <= hi THEN <<<<lo, hi>>>> \o r ELSE r
<1>1. /\ s[i][1] \in Nat /\ s[i][2] \in Nat /\ s[i][1] <= s[i][2] /\ s[i][2] <= Top
      /\ t[j][1] \in Nat /\ t[j][2] \in Nat /\ t[j][1] <= t[j][2]
  BY CanonicalIs
<1>2. Lower(s[i][2], t[j][2]) = hi /\ Lower(t[j][2], s[i][2]) = hi /\ Upper(t[j][1], s[i][1]) = lo /\ lo \in Nat
  BY <1>1 DEF Lower, Upper
<1>3. Met(s[i], t[j], r) = m /\ Met(t[j], s[i], r) = m
  BY <1>2 DEF Met
<1>4. Canonical(r) /\ \A v \in Int : Keeps(r, v) <=> HeldFrom(s, i + 1, v) /\ HeldFrom(t, j, v)
  BY DEF SharedFrom
<1>5. /\ \A v \in Int : HeldFrom(s, i, v) <=> InPair(s[i], v) \/ HeldFrom(s, i + 1, v)
      /\ \A v \in Int : HeldFrom(s, i + 1, v) => s[i][2] + 1 < v
  BY HeldFromIs
<1>6. /\ \A v \in Int : HeldFrom(t, j, v) <=> InPair(t[j], v) \/ HeldFrom(t, j + 1, v)
      /\ \A v \in Int : HeldFrom(t, j + 1, v) => t[j][2] + 1 < v
  BY HeldFromIs
<1>7. \A v \in Int : HeldFrom(s, i, v) /\ HeldFrom(t, j, v) <=> (lo <= v /\ v <= hi) \/ Keeps(r, v)
  <2> TAKE v \in Int
  <2>1. (lo <= v /\ v <= hi) <=> InPair(s[i], v) /\ InPair(t[j], v)
    BY <1>1 DEF InPair, Upper
  <2>2. InPair(s[i], v) => ~HeldFrom(t, j + 1, v)
    <3> DEFINE p == s[i][2]
               q == t[j][2]
    <3>1. p \in Nat /\ q \in Nat /\ p <= q /\ (InPair(s[i], v) => v <= p) /\ (HeldFrom(t, j + 1, v) => q + 1 < v)
      BY <1>1, <1>6 DEF InPair
    <3> HIDE DEF p, q
    <3> QED BY <3>1
  <2> HIDE DEF lo, hi
  <2> QED BY <1>4, <1>5, <1>6, <2>1, <2>2
<1>8. \A k \in 1 .. Len(r) : hi + 1 < r[k][1]
  <2> TAKE k \in 1 .. Len(r)
  <2>1. r[k][1] \in Int /\ Keeps(r, r[k][1])
    <3>1. r[k][1] \in Nat /\ r[k][1] <= r[k][1] /\ r[k][1] <= r[k][2] /\ k \in DOMAIN r
      BY <1>4, CanonicalIs
    <3> QED BY <3>1 DEF Keeps, InPair
  <2> QED BY <1>4, <1>5, <2>1
<1> HIDE DEF lo, hi
<1>9. Canonical(m) /\ \A v \in Int : Keeps(m, v) <=> (lo <= v /\ v <= hi) \/ Keeps(r, v)
  <2>1. hi \in Nat /\ hi <= Top
    BY <1>1 DEF hi
  <2>2. CASE lo <= hi
    <3> DEFINE c == <<lo, hi>>
    <3>1. c \in Pair /\ c[1] = lo /\ c[2] = hi
      BY <1>2, <2>1, <2>2, PairMade
    <3>2. m = <<c>> \o r
      BY <2>2
    <3> HIDE DEF c, m
    <3>3. Canonical(m) /\ \A v \in Int : Keeps(m, v) <=> InPair(c, v) \/ Keeps(r, v)
      BY <1>4, <1>8, <3>1, <3>2, Prepended
    <3> QED BY <3>1, <3>3 DEF InPair
  <2>3. CASE ~(lo <= hi)
    <3>1. \A v \in Int : ~(lo <= v /\ v <= hi)
      BY <1>2, <2>1, <2>3
    <3> QED BY <1>4, <2>3, <3>1
  <2> QED BY <2>2, <2>3
<1> HIDE DEF m
<1> QED BY <1>3, <1>7, <1>9 DEF SharedFrom

\* A step of the walk of `intersection`, whichever set it moves along.
SharedStep(s, t, f, i, j) ==
    IF i > Len(s) \/ j > Len(t) THEN <<>>
    ELSE Met(s[i], t[j], IF s[i][2] < t[j][2] THEN f[<<i + 1, j>>] ELSE f[<<i, j + 1>>])

LEMMA SharedStepIs ==
    ASSUME NEW s, NEW t, Canonical(s), Canonical(t), NEW i \in 1 .. Len(s) + 1, NEW j \in 1 .. Len(t) + 1, NEW f,
           i <= Len(s) => SharedFrom(s, t, i + 1, j, f[<<i + 1, j>>]),
           j <= Len(t) => SharedFrom(s, t, i, j + 1, f[<<i, j + 1>>])
    PROVE  SharedFrom(s, t, i, j, SharedStep(s, t, f, i, j))
<1>1. Len(s) \in Nat /\ Len(t) \in Nat /\ i \in Nat /\ j \in Nat
  BY CanonicalIs
<1>2. CASE i > Len(s) \/ j > Len(t)
  <2>1. i .. Len(s) = {} \/ j .. Len(t) = {}
    BY <1>1, <1>2
  <2>2. \A v : ~(HeldFrom(s, i, v) /\ HeldFrom(t, j, v))
    BY <2>1 DEF HeldFrom
  <2> QED BY <1>2, <2>2, EmptyIs DEF SharedStep, SharedFrom
<1>3. CASE ~(i > Len(s) \/ j > Len(t))
  <2>1. i \in 1 .. Len(s) /\ j \in 1 .. Len(t) /\ i <= Len(s) /\ j <= Len(t)
    BY <1>1, <1>3
  <2>2. s[i][2] \in Nat /\ t[j][2] \in Nat
    BY <2>1, CanonicalIs
  <2>3. CASE s[i][2] < t[j][2]
    <3>1. SharedStep(s, t, f, i, j) = Met(s[i], t[j], f[<<i + 1, j>>])
      BY <1>3, <2>3 DEF SharedStep
    <3>2. s[i][2] <= t[j][2]
      BY <2>2, <2>3
    <3> QED BY <2>1, <3>1, <3>2, MetShares
  <2>4. CASE ~(s[i][2] < t[j][2])
    <3>1. SharedStep(s, t, f, i, j) = Met(s[i], t[j], f[<<i, j + 1>>])
      BY <1>3, <2>4 DEF SharedStep
    <3>2. t[j][2] <= s[i][2]
      BY <2>2, <2>4
    <3>3. SharedFrom(t, s, j + 1, i, f[<<i, j + 1>>])
      BY <2>1 DEF SharedFrom
    <3> QED BY <2>1, <3>1, <3>2, <3>3, MetShares
  <2> QED BY <2>3, <2>4
<1> QED BY <1>2, <1>3

LEMMA SharedOnce ==
    ASSUME NEW s, NEW t, NEW i, NEW j, NEW r, NEW q, SharedFrom(s, t, i, j, r), SharedFrom(s, t, i, j, q)
    PROVE  r = q
BY CanonicalForm DEF SharedFrom

LEMMA IntersectionWalk ==
    ASSUME NEW s, NEW t, Canonical(s), Canonical(t)
    PROVE  \E r : /\ SharedFrom(s, t, 1, 1, r)
                  /\ Intersection(s, t) = IF SignatureFor(s) \cap SignatureFor(t) = {} THEN <<>> ELSE r
<1> DEFINE Eq(f) == f = [at \in Places(s, t) |-> SharedStep(s, t, f, at[1], at[2])]
           h == [at \in Places(s, t) |-> CHOOSE r : SharedFrom(s, t, at[1], at[2], r)]
           Some(i, j) == \E r : SharedFrom(s, t, i, j, r)
           T == {at \in Places(s, t) : Some(at[1], at[2])}
<1>1. Len(s) \in Nat /\ Len(t) \in Nat
  BY CanonicalIs
<1>2. Intersection(s, t) = IF SignatureFor(s) \cap SignatureFor(t) = {} THEN <<>> ELSE (CHOOSE f : Eq(f))[<<1, 1>>]
  BY DEF Intersection, SharedStep, Met
<1>3. ASSUME NEW i \in 1 .. Len(s) + 1, NEW j \in 1 .. Len(t) + 1
      PROVE  <<i, j>> \in Places(s, t) /\ h[<<i, j>>] = (CHOOSE r : SharedFrom(s, t, i, j, r))
  BY DEF Places
<1>4. \A at \in Places(s, t) : at[1] \in 1 .. Len(s) + 1 /\ at[2] \in 1 .. Len(t) + 1
  BY DEF Places
<1>5. \A i \in 1 .. Len(s) + 1 : i <= Len(s) => i + 1 \in 1 .. Len(s) + 1
  BY <1>1
<1>6. \A j \in 1 .. Len(t) + 1 : j <= Len(t) => j + 1 \in 1 .. Len(t) + 1
  BY <1>1
<1> HIDE DEF h
<1>7. ASSUME NEW i \in 1 .. Len(s) + 1, NEW j \in 1 .. Len(t) + 1, Some(i, j) PROVE SharedFrom(s, t, i, j, h[<<i, j>>])
  BY <1>3, <1>7
<1>8. ASSUME NEW i \in 1 .. Len(s) + 1, NEW j \in 1 .. Len(t) + 1 PROVE <<i, j>> \in T <=> Some(i, j)
  BY <1>3
<1> HIDE DEF Some, T
<1>9. ASSUME NEW i \in 1 .. Len(s) + 1, NEW j \in 1 .. Len(t) + 1,
             i <= Len(s) => <<i + 1, j>> \in T, j <= Len(t) => <<i, j + 1>> \in T
      PROVE  <<i, j>> \in T
  <2>1. i <= Len(s) => SharedFrom(s, t, i + 1, j, h[<<i + 1, j>>])
    BY <1>5, <1>7, <1>8, <1>9
  <2>2. j <= Len(t) => SharedFrom(s, t, i, j + 1, h[<<i, j + 1>>])
    BY <1>6, <1>7, <1>8, <1>9
  <2>3. Some(i, j)
    BY <2>1, <2>2, SharedStepIs DEF Some
  <2> QED BY <1>8, <2>3
<1>10. \A i \in 1 .. Len(s) + 1, j \in 1 .. Len(t) + 1 : <<i, j>> \in T
  BY <1>1, <1>9, CellInduction
<1>11. \A i \in 1 .. Len(s) + 1, j \in 1 .. Len(t) + 1 : SharedFrom(s, t, i, j, h[<<i, j>>])
  BY <1>7, <1>8, <1>10
<1>12. \A i \in 1 .. Len(s) + 1, j \in 1 .. Len(t) + 1 : h[<<i, j>>] = SharedStep(s, t, h, i, j)
  <2> TAKE i \in 1 .. Len(s) + 1, j \in 1 .. Len(t) + 1
  <2>1. i <= Len(s) => SharedFrom(s, t, i + 1, j, h[<<i + 1, j>>])
    BY <1>5, <1>11
  <2>2. j <= Len(t) => SharedFrom(s, t, i, j + 1, h[<<i, j + 1>>])
    BY <1>6, <1>11
  <2>3. SharedFrom(s, t, i, j, SharedStep(s, t, h, i, j))
    BY <2>1, <2>2, SharedStepIs
  <2>4. SharedFrom(s, t, i, j, h[<<i, j>>])
    BY <1>11
  <2> QED BY <2>3, <2>4, SharedOnce
<1>13. Eq(h)
  <2>1. \A at \in Places(s, t) : at = <<at[1], at[2]>>
    BY DEF Places
  <2>2. \A at \in Places(s, t) : h[at] = SharedStep(s, t, h, at[1], at[2])
    BY <1>4, <1>12, <2>1
  <2>3. h = [at \in Places(s, t) |-> h[at]]
    BY DEF h
  <2>4. [at \in Places(s, t) |-> h[at]] = [at \in Places(s, t) |-> SharedStep(s, t, h, at[1], at[2])]
    BY <2>2
  <2> QED BY <2>3, <2>4
<1>14. Eq(CHOOSE f : Eq(f))
  <2> HIDE DEF Eq
  <2> QED BY <1>13
<1> DEFINE g == CHOOSE f : Eq(f)
           U == {at \in Places(s, t) : SharedFrom(s, t, at[1], at[2], g[at])}
<1>15. Eq(g)
  BY <1>14
<1> HIDE DEF g
<1>16. ASSUME NEW i \in 1 .. Len(s) + 1, NEW j \in 1 .. Len(t) + 1
       PROVE  (<<i, j>> \in U <=> SharedFrom(s, t, i, j, g[<<i, j>>])) /\ g[<<i, j>>] = SharedStep(s, t, g, i, j)
  BY <1>3, <1>15
<1> HIDE DEF Eq, U
<1>17. ASSUME NEW i \in 1 .. Len(s) + 1, NEW j \in 1 .. Len(t) + 1,
              i <= Len(s) => <<i + 1, j>> \in U, j <= Len(t) => <<i, j + 1>> \in U
       PROVE  <<i, j>> \in U
  <2>1. i <= Len(s) => SharedFrom(s, t, i + 1, j, g[<<i + 1, j>>])
    BY <1>5, <1>16, <1>17
  <2>2. j <= Len(t) => SharedFrom(s, t, i, j + 1, g[<<i, j + 1>>])
    BY <1>6, <1>16, <1>17
  <2>3. SharedFrom(s, t, i, j, SharedStep(s, t, g, i, j))
    BY <2>1, <2>2, SharedStepIs
  <2> QED BY <1>16, <2>3
<1>18. \A i \in 1 .. Len(s) + 1, j \in 1 .. Len(t) + 1 : <<i, j>> \in U
  BY <1>1, <1>17, CellInduction
<1>19. 1 \in 1 .. Len(s) + 1 /\ 1 \in 1 .. Len(t) + 1
  BY <1>1
<1>20. SharedFrom(s, t, 1, 1, g[<<1, 1>>])
  BY <1>16, <1>18, <1>19
<1> QED BY <1>2, <1>20 DEF g

\* `intersection` returns the values shared, as a canonical set.
LEMMA IntersectionIs ==
    ASSUME NEW s, NEW t, Canonical(s), Canonical(t)
    PROVE  Canonical(Intersection(s, t)) /\ \A v \in Int : Keeps(Intersection(s, t), v) <=> Keeps(s, v) /\ Keeps(t, v)
<1>1. PICK r : /\ SharedFrom(s, t, 1, 1, r)
               /\ Intersection(s, t) = IF SignatureFor(s) \cap SignatureFor(t) = {} THEN <<>> ELSE r
  BY IntersectionWalk
<1>2. \A v : (HeldFrom(s, 1, v) <=> Keeps(s, v)) /\ (HeldFrom(t, 1, v) <=> Keeps(t, v))
  BY CanonicalIs DEF HeldFrom, Keeps
<1>3. Canonical(r) /\ \A v \in Int : Keeps(r, v) <=> Keeps(s, v) /\ Keeps(t, v)
  BY <1>1, <1>2 DEF SharedFrom
<1>4. CASE SignatureFor(s) \cap SignatureFor(t) = {}
  <2>1. Intersection(s, t) = <<>>
    BY <1>1, <1>4
  <2>2. \A v \in Int : ~(Keeps(s, v) /\ Keeps(t, v))
    BY <1>4, SignaturesMeet
  <2> QED BY <2>1, <2>2, EmptyIs
<1>5. CASE SignatureFor(s) \cap SignatureFor(t) # {}
  BY <1>1, <1>3, <1>5
<1> QED BY <1>4, <1>5

LEMMA FromOwnPairs ==
    ASSUME NEW s, Canonical(s)
    PROVE  FromPairs(ToSet(s)) = s
<1>1. ToSet(s) \in SUBSET Pair /\ IsFiniteSet(ToSet(s)) /\ \A v : Keeps(s, v) <=> \E p \in ToSet(s) : InPair(p, v)
  BY CanonicalIs, FinitePairs
<1>2. Canonical(FromPairs(ToSet(s))) /\ \A v \in Int : Keeps(FromPairs(ToSet(s)), v) <=> \E p \in ToSet(s) : InPair(p, v)
  BY <1>1, FromPairsIs
<1> QED BY <1>1, <1>2, CanonicalForm

\* The sides a rule is resolved into are canonical at every step.
SidesCanonical == Canonical(left) /\ Canonical(right)

LEMMA SidesAnswer == SidesCanonical => IntervalsAreExact
<1> SUFFICES ASSUME Canonical(left), Canonical(right) PROVE IntervalsAreExact
  BY DEF SidesCanonical
<1>1. \A v : v \in Value => v \in Int
  BY IntervalAssumption DEF Value
<1>2. EqualSetsAreEqual
  BY EqualSets DEF EqualSetsAreEqual
<1>3. OverlapIsExact
  <2> DEFINE both == Intersection(left, right)
  <2>1. Canonical(both) /\ \A v \in Int : Keeps(both, v) <=> Keeps(left, v) /\ Keeps(right, v)
    BY IntersectionIs
  <2> HIDE DEF both
  <2>2. Values(both) = Values(left) \cap Values(right)
    BY <1>1, <2>1, ValuesHeld
  <2>3. both = FromPairs(ToSet(both))
    BY <2>1, FromOwnPairs
  <2>4. Intersects(left, right) <=> Values(left) \cap Values(right) # {}
    BY IntersectsIs
  <2> QED BY <2>2, <2>3, <2>4 DEF OverlapIsExact, both
<1>4. CoverageIsExact
  BY ContainsSetIs DEF CoverageIsExact
<1>5. NegationIsExact
  <2>1. ASSUME NEW hi \in 0 .. Top PROVE Values(Complement(left, hi)) = (0 .. hi) \ Values(left)
    <3> DEFINE rest == Complement(left, hi)
    <3>1. Canonical(rest) /\ \A v \in Int : Keeps(rest, v) <=> 0 <= v /\ v <= hi /\ ~Keeps(left, v)
      BY ComplementIs
    <3> HIDE DEF rest
    <3>2. \A v : v \in 0 .. hi <=> v \in Value /\ 0 <= v /\ v <= hi
      BY IntervalAssumption DEF Value
    <3> QED BY <1>1, <3>1, <3>2, ValuesHeld DEF rest
  <2>2. IPv4Max \in 0 .. Top /\ Top \in 0 .. Top
    BY IntervalAssumption
  <2>3. Complement(Complement(left, Top), Top) = left
    <3> DEFINE rest == Complement(left, Top)
    <3>1. Canonical(rest) /\ \A v \in Int : Keeps(rest, v) <=> 0 <= v /\ v <= Top /\ ~Keeps(left, v)
      BY <2>2, ComplementIs
    <3> HIDE DEF rest
    <3>2. Canonical(Complement(rest, Top)) /\ \A v \in Int : Keeps(Complement(rest, Top), v) <=> 0 <= v /\ v <= Top /\ ~Keeps(rest, v)
      BY <2>2, <3>1, ComplementIs
    <3>3. \A v \in Int : Keeps(left, v) => 0 <= v /\ v <= Top
      BY HeldAreValues, IntervalAssumption DEF Value
    <3>4. \A v \in Int : Keeps(Complement(rest, Top), v) <=> Keeps(left, v)
      BY <3>1, <3>2, <3>3
    <3> QED BY <3>2, <3>4, CanonicalForm DEF rest
  <2> QED BY <2>1, <2>2, <2>3 DEF NegationIsExact
<1>6. SearchIsExact
  BY <1>1, SearchIs, ValuesHeld DEF SearchIsExact
<1> QED BY <1>2, <1>3, <1>4, <1>5, <1>6 DEF IntervalsAreExact

LEMMA SidesKept == SidesCanonical /\ [IntervalNext]_intervalVars => SidesCanonical'
<1> SUFFICES ASSUME Canonical(left), Canonical(right), [IntervalNext]_intervalVars PROVE Canonical(left') /\ Canonical(right')
  BY DEF SidesCanonical
<1>1. ASSUME NEW p \in Pair PROVE Canonical(FromPairs({p}))
  <2>1. {p} \in SUBSET Pair /\ IsFiniteSet({p})
    BY FS_Singleton
  <2> QED BY <2>1, FromPairsIs
<1>2. CASE Widen
  <2>1. PICK p \in Pair : \/ left' = Union(left, FromPairs({p})) /\ right' = right
                          \/ right' = Union(right, FromPairs({p})) /\ left' = left
    BY <1>2 DEF Widen
  <2> QED BY <1>1, <2>1, UnionIs
<1>3. CASE Negate
  <2>1. Top \in 0 .. Top
    BY IntervalAssumption
  <2> QED BY <1>3, <2>1, ComplementIs DEF Negate
<1>4. CASE UNCHANGED intervalVars
  BY <1>4 DEF intervalVars
<1> QED BY <1>2, <1>3, <1>4 DEF IntervalNext

\* Whatever groups a rule's sides are resolved from and however they are negated, the
\* interval code compares them exactly as the sets of their values compare: equality,
\* overlap, intersection, containment, complement and the search of one value.
THEOREM IntervalsCompareAsSets == IntervalSpec => []IntervalsAreExact
<1>1. IntervalInit => SidesCanonical
  BY EmptyIs DEF IntervalInit, SidesCanonical
<1> QED BY <1>1, SidesKept, SidesAnswer, PTL DEF IntervalSpec
-----------------------------------------------------------------------------
(* Advisories *)

LEMMA SmallestOf ==
    ASSUME NEW S \in SUBSET Nat, S # {}
    PROVE  Min(S) \in S /\ \A x \in S : Min(S) <= x
BY Least DEF Min

\* Where two padded sequences first differ, that place decides.
Differ(l, r, absent) == {i \in DOMAIN l \cup DOMAIN r : At(l, i, absent) # At(r, i, absent)}

\* l is earlier than r at place i, and they agree before it.
Earlier(l, r, absent, i) ==
    /\ i \in Nat \ {0} /\ At(l, i, absent) < At(r, i, absent)
    /\ \A j \in Nat \ {0} : j < i => At(l, j, absent) = At(r, j, absent)
Alike(l, r, absent) == \A j \in Nat \ {0} : At(l, j, absent) = At(r, j, absent)

LEMMA PartsAre ==
    ASSUME NEW l \in Seq(Int), NEW absent \in Int
    PROVE  \A i \in Nat \ {0} : At(l, i, absent) \in Int
BY DEF At

LEMMA PartsCompare ==
    ASSUME NEW l \in Seq(Int), NEW r \in Seq(Int), NEW absent \in Int
    PROVE  /\ CompareParts(l, r, absent) = "equal" <=> Alike(l, r, absent)
           /\ CompareParts(l, r, absent) = "less" <=> \E i \in Nat \ {0} : Earlier(l, r, absent, i)
           /\ CompareParts(l, r, absent) = "greater" <=> \E i \in Nat \ {0} : Earlier(r, l, absent, i)
<1> DEFINE D == Differ(l, r, absent)
<1> DEFINE m == Min(D)
<1>1. D \in SUBSET Nat /\ \A i : i \in D <=> i \in Nat \ {0} /\ At(l, i, absent) # At(r, i, absent)
  BY DEF Differ, At
<1>2. CompareParts(l, r, absent) = IF D = {} THEN "equal"
                                  ELSE IF At(l, m, absent) < At(r, m, absent) THEN "less" ELSE "greater"
  BY DEF CompareParts, Differ
<1>3. D # {} => m \in D /\ \A x \in D : m <= x
  BY <1>1, SmallestOf
<1>4. D = {} <=> Alike(l, r, absent)
  BY <1>1 DEF Alike
<1>5. \A i \in Nat \ {0} : At(l, i, absent) \in Int /\ At(r, i, absent) \in Int
  BY PartsAre
<1> HIDE DEF D
<1>6. ASSUME NEW x \in Seq(Int), NEW y \in Seq(Int), D = Differ(x, y, absent), NEW i \in Nat \ {0}, Earlier(x, y, absent, i)
      PROVE  i \in D /\ m = i
  <2>1. \A k : k \in D <=> k \in Nat \ {0} /\ At(x, k, absent) # At(y, k, absent)
    BY <1>6 DEF Differ, At
  <2>2. \A k \in Nat \ {0} : At(x, k, absent) \in Int /\ At(y, k, absent) \in Int
    BY PartsAre
  <2>3. i \in D
    <3>1. At(x, i, absent) < At(y, i, absent)
      BY <1>6 DEF Earlier
    <3>2. At(x, i, absent) # At(y, i, absent)
      BY <2>2, <3>1
    <3> QED BY <2>1, <3>2
  <2>4. m \in D /\ m <= i
    BY <1>3, <2>3
  <2>5. ~(m < i)
    BY <1>6, <2>1, <2>4 DEF Earlier
  <2>6. m \in Nat
    BY <2>1, <2>4
  <2> HIDE DEF m
  <2> QED BY <2>3, <2>4, <2>5, <2>6
<1>7. D = Differ(r, l, absent) /\ D = Differ(l, r, absent)
  BY DEF Differ, D
<1>8. D # {} => \A j \in Nat \ {0} : j < m => At(l, j, absent) = At(r, j, absent)
  <2>1. SUFFICES ASSUME D # {}, NEW j \in Nat \ {0}, j < m PROVE j \notin D
    BY <1>1
  <2>2. m \in Nat
    BY <1>1, <1>3, <2>1
  <2> QED BY <1>3, <2>1, <2>2
<1> HIDE DEF m
<1>9. CASE D = {}
  <2>1. Alike(l, r, absent) /\ CompareParts(l, r, absent) = "equal"
    BY <1>2, <1>4, <1>9
  <2>2. \A i \in Nat \ {0} : ~Earlier(l, r, absent, i) /\ ~Earlier(r, l, absent, i)
    BY <1>6, <1>7, <1>9
  <2> QED BY <2>1, <2>2
<1>10. CASE D # {}
  <2>1. ~Alike(l, r, absent) /\ m \in Nat \ {0} /\ At(l, m, absent) # At(r, m, absent)
    BY <1>1, <1>3, <1>4, <1>10
  <2>2. At(l, m, absent) \in Int /\ At(r, m, absent) \in Int
    BY <1>5, <2>1
  <2>3. CASE At(l, m, absent) < At(r, m, absent)
    <3>1. Earlier(l, r, absent, m)
      BY <1>8, <1>10, <2>1, <2>3 DEF Earlier
    <3>2. ASSUME NEW i \in Nat \ {0}, Earlier(r, l, absent, i) PROVE FALSE
      <4>1. m = i
        BY <1>6, <1>7, <3>2
      <4> QED BY <2>2, <2>3, <3>2, <4>1 DEF Earlier
    <3> QED BY <1>2, <1>10, <2>1, <2>3, <3>1, <3>2
  <2>4. CASE ~(At(l, m, absent) < At(r, m, absent))
    <3>1. Earlier(r, l, absent, m)
      <4>1. At(r, m, absent) < At(l, m, absent)
        BY <2>1, <2>2, <2>4
      <4> QED BY <1>8, <1>10, <2>1, <4>1 DEF Earlier
    <3>2. ASSUME NEW i \in Nat \ {0}, Earlier(l, r, absent, i) PROVE FALSE
      <4>1. m = i
        BY <1>6, <1>7, <3>2
      <4> QED BY <2>2, <2>4, <3>2, <4>1 DEF Earlier
    <3> QED BY <1>2, <1>10, <2>1, <2>4, <3>1, <3>2
  <2> QED BY <2>3, <2>4
<1> QED BY <1>9, <1>10

\* The order of padded sequences is one: alike from both sides, and transitive.
LEMMA PartsOrder ==
    ASSUME NEW absent \in Int, NEW a \in Seq(Int), NEW b \in Seq(Int), NEW c \in Seq(Int)
    PROVE  /\ CompareParts(a, b, absent) = "less" <=> CompareParts(b, a, absent) = "greater"
           /\ CompareParts(a, b, absent) = "equal" <=> CompareParts(b, a, absent) = "equal"
           /\ CompareParts(a, b, absent) = "equal" => CompareParts(a, c, absent) = CompareParts(b, c, absent)
           /\ CompareParts(b, c, absent) = "equal" => CompareParts(a, c, absent) = CompareParts(a, b, absent)
           /\ CompareParts(a, b, absent) = "less" /\ CompareParts(b, c, absent) = "less" => CompareParts(a, c, absent) = "less"
           /\ CompareParts(a, b, absent) \in {"less", "equal", "greater"}
<1>1. \A l, r \in Seq(Int) : CompareParts(l, r, absent) \in {"less", "equal", "greater"}
  BY DEF CompareParts
<1>2. CompareParts(a, b, absent) = "less" <=> CompareParts(b, a, absent) = "greater"
  BY PartsCompare
<1>3. CompareParts(a, b, absent) = "equal" <=> CompareParts(b, a, absent) = "equal"
  <2>1. Alike(a, b, absent) <=> Alike(b, a, absent)
    BY DEF Alike
  <2> QED BY <2>1, PartsCompare
<1>4. ASSUME NEW x \in Seq(Int), NEW y \in Seq(Int), NEW z \in Seq(Int), Alike(x, y, absent)
      PROVE  /\ CompareParts(x, z, absent) = CompareParts(y, z, absent)
             /\ CompareParts(z, x, absent) = CompareParts(z, y, absent)
  <2>1. Alike(x, z, absent) <=> Alike(y, z, absent)
    BY <1>4 DEF Alike
  <2>2. \A i \in Nat \ {0} : Earlier(x, z, absent, i) <=> Earlier(y, z, absent, i)
    BY <1>4 DEF Earlier, Alike
  <2>3. \A i \in Nat \ {0} : Earlier(z, x, absent, i) <=> Earlier(z, y, absent, i)
    BY <1>4 DEF Earlier, Alike
  <2>4. CompareParts(x, z, absent) = CompareParts(y, z, absent)
    <3>1. CompareParts(x, z, absent) = "equal" <=> CompareParts(y, z, absent) = "equal"
      BY <2>1, PartsCompare
    <3>2. CompareParts(x, z, absent) = "less" <=> CompareParts(y, z, absent) = "less"
      BY <2>2, PartsCompare
    <3> QED BY <1>1, <3>1, <3>2
  <2>5. CompareParts(z, x, absent) = CompareParts(z, y, absent)
    <3>1. Alike(z, x, absent) <=> Alike(z, y, absent)
      BY <1>4 DEF Alike
    <3>2. CompareParts(z, x, absent) = "equal" <=> CompareParts(z, y, absent) = "equal"
      BY <3>1, PartsCompare
    <3>3. CompareParts(z, x, absent) = "less" <=> CompareParts(z, y, absent) = "less"
      BY <2>3, PartsCompare
    <3> QED BY <1>1, <3>2, <3>3
  <2> QED BY <2>4, <2>5
<1>5. CompareParts(a, b, absent) = "equal" => CompareParts(a, c, absent) = CompareParts(b, c, absent)
  BY <1>4, PartsCompare
<1>6. CompareParts(b, c, absent) = "equal" => CompareParts(a, c, absent) = CompareParts(a, b, absent)
  BY <1>4, PartsCompare
<1>7. ASSUME CompareParts(a, b, absent) = "less", CompareParts(b, c, absent) = "less"
      PROVE  CompareParts(a, c, absent) = "less"
  <2>1. PICK i \in Nat \ {0} : Earlier(a, b, absent, i)
    BY <1>7, PartsCompare
  <2>2. PICK k \in Nat \ {0} : Earlier(b, c, absent, k)
    BY <1>7, PartsCompare
  <2>3. \A j \in Nat \ {0} : /\ At(a, j, absent) \in Int
                             /\ At(b, j, absent) \in Int
                             /\ At(c, j, absent) \in Int
    BY PartsAre
  <2>4. \E n \in Nat \ {0} : Earlier(a, c, absent, n)
    <3>1. CASE i <= k
      <4>1. At(a, i, absent) < At(c, i, absent)
        <5>1. At(b, i, absent) = At(c, i, absent) \/ At(b, i, absent) < At(c, i, absent)
          BY <2>1, <2>2, <3>1 DEF Earlier
        <5>2. At(a, i, absent) < At(b, i, absent)
          BY <2>1 DEF Earlier
        <5> QED BY <2>3, <5>1, <5>2
      <4>2. \A j \in Nat \ {0} : j < i => At(a, j, absent) = At(c, j, absent)
        BY <2>1, <2>2, <3>1 DEF Earlier
      <4>3. Earlier(a, c, absent, i)
        BY <4>1, <4>2 DEF Earlier
      <4> QED BY <4>3
    <3>2. CASE k < i
      <4>1. At(a, k, absent) < At(c, k, absent)
        BY <2>1, <2>2, <3>2 DEF Earlier
      <4>2. \A j \in Nat \ {0} : j < k => At(a, j, absent) = At(c, j, absent)
        BY <2>1, <2>2, <3>2 DEF Earlier
      <4>3. Earlier(a, c, absent, k)
        BY <4>1, <4>2 DEF Earlier
      <4> QED BY <4>3
    <3> QED BY <3>1, <3>2
  <2> QED BY <2>4, PartsCompare
<1> QED BY <1>1, <1>2, <1>3, <1>5, <1>6, <1>7

\* Releases first, rebuilds where releases are equal.
LEMMA CompareIs ==
    ASSUME NEW a, NEW b
    PROVE  /\ Compare(a, b) \in {"less", "equal", "greater", "incomparable"}
           /\ Compare(a, b) # "incomparable" =>
                  Compare(a, b) = IF CompareParts(a.release, b.release, 0) = "equal"
                                  THEN CompareParts(a.rebuild, b.rebuild, -1) ELSE CompareParts(a.release, b.release, 0)
BY DEF Compare, CompareSequences, CompareRebuilds, CompareParts

LEMMA SymmetricallyOrdered ==
    ASSUME NEW a, NEW b
    PROVE  Compare(a, b) = "incomparable" <=> Compare(b, a) = "incomparable"
<1>1. \A x, y : Compare(x, y) = "incomparable" <=>
          \/ x.scheme # y.scheme
          \/ x.scheme = "ios" /\ x.train # y.train /\ Family(x) = Family(y)
  BY DEF Compare, CompareSequences, CompareRebuilds, CompareParts
<1> QED BY <1>1

LEMMA VersionsOrdered == \A a, b \in Versions :
    /\ (Compare(a, b) = "less") = (Compare(b, a) = "greater")
    /\ Compare(a, b) = "less" =>
           \A c \in Versions : Compare(b, c) = "less" => Compare(a, c) \in {"less", "incomparable"}
<1> SUFFICES ASSUME NEW a \in Versions, NEW b \in Versions
             PROVE  /\ Compare(a, b) = "less" <=> Compare(b, a) = "greater"
                    /\ Compare(a, b) = "less" =>
                           \A c \in Versions : Compare(b, c) = "less" => Compare(a, c) \in {"less", "incomparable"}
  OBVIOUS
<1>1. \A v \in Versions : v.release \in Seq(Int) /\ v.rebuild \in Seq(Int)
  BY AdvisoryAssumption
<1>2. Compare(a, b) = "less" <=> Compare(b, a) = "greater"
  <2>1. CompareParts(a.release, b.release, 0) = "less" <=> CompareParts(b.release, a.release, 0) = "greater"
    BY <1>1, PartsOrder
  <2>2. CompareParts(a.release, b.release, 0) = "equal" <=> CompareParts(b.release, a.release, 0) = "equal"
    BY <1>1, PartsOrder
  <2>3. CompareParts(a.rebuild, b.rebuild, -1) = "less" <=> CompareParts(b.rebuild, a.rebuild, -1) = "greater"
    BY <1>1, PartsOrder
  <2>4. CASE Compare(a, b) = "incomparable"
    BY <2>4, SymmetricallyOrdered
  <2>5. CASE Compare(a, b) # "incomparable"
    <3>1. Compare(b, a) # "incomparable"
      BY <2>5, SymmetricallyOrdered
    <3> QED BY <2>1, <2>2, <2>3, <2>5, <3>1, CompareIs
  <2> QED BY <2>4, <2>5
<1>3. ASSUME Compare(a, b) = "less", NEW c \in Versions, Compare(b, c) = "less", Compare(a, c) # "incomparable"
      PROVE  Compare(a, c) = "less"
  <2> DEFINE ab == CompareParts(a.release, b.release, 0)
             bc == CompareParts(b.release, c.release, 0)
             ac == CompareParts(a.release, c.release, 0)
  <2>1. /\ ab = "less" /\ bc = "less" => ac = "less"
        /\ ab = "equal" => ac = bc
        /\ bc = "equal" => ac = ab
    BY <1>1, <1>3, PartsOrder
  <2>2. /\ "less" = IF ab = "equal" THEN CompareParts(a.rebuild, b.rebuild, -1) ELSE ab
        /\ "less" = IF bc = "equal" THEN CompareParts(b.rebuild, c.rebuild, -1) ELSE bc
        /\ Compare(a, c) = IF ac = "equal" THEN CompareParts(a.rebuild, c.rebuild, -1) ELSE ac
    BY <1>3, CompareIs
  <2>3. CompareParts(a.rebuild, b.rebuild, -1) = "less" /\ CompareParts(b.rebuild, c.rebuild, -1) = "less"
            => CompareParts(a.rebuild, c.rebuild, -1) = "less"
    BY <1>1, <1>3, PartsOrder
  <2> HIDE DEF ab, bc, ac
  <2> QED BY <2>1, <2>2, <2>3
<1> QED BY <1>2, <1>3

LEMMA OrderToIs ==
    ASSUME NEW v, NEW bound
    PROVE  OrderTo(v, bound) \in {"less", "equal", "greater", "incomparable"}
BY CompareIs DEF OrderTo

\* The first bound that settles the question does.
LEMMA FirstOfThree ==
    ASSUME NEW x, NEW y, NEW z
    PROVE  /\ FirstOf(<<x, y, z>>) \in {"yes", x, y, z}
           /\ x = "inside" /\ y = "inside" /\ z = "inside" => FirstOf(<<x, y, z>>) = "yes"
           /\ ~(x = "inside" /\ y = "inside" /\ z = "inside") => FirstOf(<<x, y, z>>) \in {x, y, z} \ {"inside"}
<1> DEFINE c == <<x, y, z>>
           S == {i \in DOMAIN c : c[i] # "inside"}
<1>1. DOMAIN c = {1, 2, 3} /\ c[1] = x /\ c[2] = y /\ c[3] = z
  OBVIOUS
<1>2. FirstOf(c) = IF S = {} THEN "yes" ELSE c[Min(S)]
  BY DEF FirstOf
<1> HIDE DEF c
<1>3. S \in SUBSET Nat /\ \A i : i \in S <=> i \in {1, 2, 3} /\ c[i] # "inside"
  BY <1>1
<1> HIDE DEF S
<1>4. S # {} => Min(S) \in S
  BY <1>3, SmallestOf
<1>5. S = {} <=> x = "inside" /\ y = "inside" /\ z = "inside"
  BY <1>1, <1>3
<1> QED BY <1>1, <1>2, <1>3, <1>4, <1>5 DEF c

LEMMA BoundedIs ==
    ASSUME NEW v, NEW bound, NEW outside
    PROVE  /\ Bounded(v, bound, outside) \in {"inside", "unknown", "no"}
           /\ Bounded(v, bound, outside) = "no" => bound # NoBound /\ OrderTo(v, bound) \in outside /\ OrderTo(v, bound) # "incomparable"
           /\ Bounded(v, bound, outside) = "inside" =>
                  bound = NoBound \/ OrderTo(v, bound) \in {"less", "equal", "greater"} \ outside
BY OrderToIs DEF Bounded

LEMMA RangeApplies ==
    ASSUME NEW v, NEW c, c.kind = "range"
    PROVE  /\ VersionApplies(v, c) \in {"yes", "unknown", "no"}
           /\ VersionApplies(v, c) = "no" =>
                  \/ Bounded(v, c.introduced, {"less"}) = "no"
                  \/ Bounded(v, c.fixed, {"greater", "equal"}) = "no"
                  \/ Bounded(v, c.last_affected, {"greater"}) = "no"
           /\ VersionApplies(v, c) = "yes" =>
                  /\ Bounded(v, c.introduced, {"less"}) = "inside"
                  /\ Bounded(v, c.fixed, {"greater", "equal"}) = "inside"
                  /\ Bounded(v, c.last_affected, {"greater"}) = "inside"
<1> DEFINE x == Bounded(v, c.introduced, {"less"})
           y == Bounded(v, c.fixed, {"greater", "equal"})
           z == Bounded(v, c.last_affected, {"greater"})
<1>1. VersionApplies(v, c) = FirstOf(<<x, y, z>>)
  BY DEF VersionApplies
<1>2. x \in {"inside", "unknown", "no"} /\ y \in {"inside", "unknown", "no"} /\ z \in {"inside", "unknown", "no"}
  BY BoundedIs
<1> HIDE DEF x, y, z
<1>3. /\ FirstOf(<<x, y, z>>) \in {"yes", x, y, z}
      /\ x = "inside" /\ y = "inside" /\ z = "inside" => FirstOf(<<x, y, z>>) = "yes"
      /\ ~(x = "inside" /\ y = "inside" /\ z = "inside") => FirstOf(<<x, y, z>>) \in {x, y, z} \ {"inside"}
  BY FirstOfThree
<1>4. /\ VersionApplies(v, c) \in {"yes", "unknown", "no"}
      /\ VersionApplies(v, c) = "no" => x = "no" \/ y = "no" \/ z = "no"
      /\ VersionApplies(v, c) = "yes" => x = "inside" /\ y = "inside" /\ z = "inside"
  BY <1>1, <1>2, <1>3
<1> QED BY <1>4 DEF x, y, z

\* A version that a statement was said not to cover, none of the publisher's words can.
LEMMA NoIsNo ==
    ASSUME NEW v, NEW e \in Statements,
           VersionApplies(v, Constraint(e)) \notin {"yes", "unknown"}
    PROVE  ~MayCover(v, e.spec)
<1>1. Bounds(e.spec)
  BY AdvisoryAssumption
<1>2. CASE e.spec.kind # "range"
  <2>1. Constraint(e) = e.spec /\ e.spec.kind \in {"all", "unparsed", "exact"}
    BY <1>1, <1>2 DEF Constraint, Bounds
  <2>2. e.spec.kind = "exact"
    BY <2>1 DEF VersionApplies
  <2>3. OrderTo(v, e.spec.version) \notin {"equal", "incomparable"}
    BY <2>1, <2>2 DEF VersionApplies
  <2> QED BY <2>2, <2>3 DEF MayCover, RangeCovers
<1>3. CASE e.spec.kind = "range"
  <2> DEFINE c == Constraint(e)
  <2>1. c.kind = "range" \/ c.kind = "unparsed"
    BY <1>3 DEF Constraint, NvdConstraint, ParseVersionSpec
  <2>2. c.kind = "range"
    BY <2>1 DEF VersionApplies
  <2>3. /\ c.introduced = e.spec.from /\ e.spec.from_op # ">"
        /\ c.fixed = IF e.spec.to_op = "<" THEN e.spec.to ELSE NoBound
        /\ c.last_affected \in {NoBound, IF e.spec.to_op = "<=" THEN e.spec.to ELSE NoBound}
    BY <1>3, <2>2 DEF Constraint, NvdConstraint, ParseVersionSpec
  <2> HIDE DEF c
  <2>4. VersionApplies(v, c) \notin {"yes", "unknown"}
    BY DEF c
  <2>5. \/ Bounded(v, c.introduced, {"less"}) = "no"
        \/ Bounded(v, c.fixed, {"greater", "equal"}) = "no"
        \/ Bounded(v, c.last_affected, {"greater"}) = "no"
    BY <2>2, <2>4, RangeApplies
  <2>6. CASE Bounded(v, c.introduced, {"less"}) = "no"
    <3>1. e.spec.from # NoBound /\ OrderTo(v, e.spec.from) = "less"
      BY <2>3, <2>6, BoundedIs
    <3> QED BY <1>3, <3>1 DEF MayCover, RangeCovers, Orders, LowerOrders
  <2>7. CASE Bounded(v, c.fixed, {"greater", "equal"}) = "no"
    <3>1. c.fixed # NoBound /\ OrderTo(v, c.fixed) \in {"greater", "equal"}
      BY <2>7, BoundedIs
    <3>2. e.spec.to_op = "<" /\ e.spec.to # NoBound /\ OrderTo(v, e.spec.to) \in {"greater", "equal"}
      BY <2>3, <3>1
    <3> QED BY <1>3, <3>2 DEF MayCover, RangeCovers, Orders, UpperOrders
  <2>8. CASE Bounded(v, c.last_affected, {"greater"}) = "no"
    <3>1. c.last_affected # NoBound /\ OrderTo(v, c.last_affected) \in {"greater"}
      BY <2>8, BoundedIs
    <3>2. e.spec.to_op = "<=" /\ e.spec.to # NoBound /\ OrderTo(v, e.spec.to) = "greater"
      BY <2>3, <3>1
    <3> QED BY <1>3, <3>2 DEF MayCover, RangeCovers, Orders, UpperOrders
  <2> QED BY <2>5, <2>6, <2>7, <2>8
<1> QED BY <1>2, <1>3

\* ... and one that it was said to cover, they all do.
LEMMA YesIsYes ==
    ASSUME NEW v, NEW e \in Statements, VersionApplies(v, Constraint(e)) = "yes"
    PROVE  Widened(e) \/ MustCover(v, e.spec)
<1>1. Bounds(e.spec) /\ e.source \in {"nvd", "csaf"}
  BY AdvisoryAssumption
<1>2. CASE e.spec.kind # "range"
  <2>1. Constraint(e) = e.spec /\ e.spec.kind \in {"all", "unparsed", "exact"}
    BY <1>1, <1>2 DEF Constraint, Bounds
  <2>2. e.spec.kind # "unparsed"
    BY <2>1 DEF VersionApplies
  <2>3. e.spec.kind = "exact" => OrderTo(v, e.spec.version) = "equal"
    BY <2>1 DEF VersionApplies
  <2> QED BY <2>1, <2>2, <2>3 DEF MustCover, RangeCovers
<1>3. CASE e.spec.kind = "range" /\ ~Widened(e)
  <2> DEFINE c == Constraint(e)
  <2>1. c.kind = "range" \/ c.kind = "unparsed"
    BY <1>3 DEF Constraint, NvdConstraint, ParseVersionSpec
  <2>2. c.kind = "range"
    BY <2>1 DEF VersionApplies
  <2>3. /\ e.spec.from_op \in {"none", ">", ">="} /\ e.spec.to_op \in {"none", "<", "<="}
        /\ e.spec.to = NoBound <=> e.spec.to_op = "none"
    BY <1>1, <1>3 DEF Bounds
  <2>4. /\ c.introduced = e.spec.from /\ e.spec.from_op # ">"
        /\ e.spec.to_op = "<" => c.fixed = e.spec.to
        /\ e.spec.to_op = "<=" => c.last_affected = e.spec.to
    BY <1>1, <1>3, <2>2 DEF Constraint, NvdConstraint, ParseVersionSpec, Widened
  <2> HIDE DEF c
  <2>5. VersionApplies(v, c) = "yes"
    BY DEF c
  <2>6. /\ Bounded(v, c.introduced, {"less"}) = "inside"
        /\ Bounded(v, c.fixed, {"greater", "equal"}) = "inside"
        /\ Bounded(v, c.last_affected, {"greater"}) = "inside"
    BY <2>2, <2>5, RangeApplies
  <2>7. e.spec.from = NoBound \/ OrderTo(v, e.spec.from) \in {"equal", "greater"}
    BY <2>4, <2>6, BoundedIs
  <2>8. e.spec.to_op = "<" => e.spec.to = NoBound \/ OrderTo(v, e.spec.to) = "less"
    BY <2>4, <2>6, BoundedIs
  <2>9. e.spec.to_op = "<=" => e.spec.to = NoBound \/ OrderTo(v, e.spec.to) \in {"less", "equal"}
    BY <2>4, <2>6, BoundedIs
  <2> QED BY <1>3, <2>3, <2>4, <2>7, <2>8, <2>9 DEF MustCover, RangeCovers, Orders, LowerOrders, UpperOrders
<1> QED BY <1>2, <1>3

AdvisoryType ==
    advisory \in [affected : Seq(Statements), conditions : SUBSET Conditions, unparsed : BOOLEAN]

LEMMA AdvisoryTyped == AdvisoryInit /\ [][AdvisoryNext]_advisory => []AdvisoryType
<1>1. AdvisoryInit => AdvisoryType
  BY DEF AdvisoryInit, AdvisoryType
<1>2. AdvisoryType /\ [AdvisoryNext]_advisory => AdvisoryType'
  <2> SUFFICES ASSUME AdvisoryType, [AdvisoryNext]_advisory PROVE AdvisoryType'
    OBVIOUS
  <2> USE DEF AdvisoryType
  <2>1. CASE AddStatement
    <3>1. PICK e \in Statements : advisory' = [advisory EXCEPT !.affected = Append(@, e)]
      BY <2>1 DEF AddStatement
    <3>2. Append(advisory.affected, e) \in Seq(Statements)
      OBVIOUS
    <3> QED BY <3>1, <3>2
  <2>2. CASE AddCondition
    BY <2>2 DEF AddCondition
  <2>3. CASE LeaveUnread
    BY <2>3 DEF LeaveUnread
  <2>4. CASE UNCHANGED advisory
    BY <2>4
  <2> QED BY <2>1, <2>2, <2>3, <2>4 DEF AdvisoryNext
<1> QED BY <1>1, <1>2, PTL

\* What a statement says of a device whose version is known.
SaysOf(device, e) ==
    IF e.cpe # NoCpe /\ e.cpe = device.hardware THEN "yes" ELSE VersionApplies(device.version, Constraint(e))
Applicable(device) == {e \in ToSet(advisory.affected) : NamesThisDevice(device, e)}

LEMMA MatchIs ==
    ASSUME NEW d
    PROVE  Match(d, advisory) =
             IF d.version = Unreadable THEN "not_evaluated"
             ELSE IF \E e \in Applicable(d) : SaysOf(d, e) = "yes" THEN ApplyConditions(d, advisory.conditions)
             ELSE IF \E e \in Applicable(d) : SaysOf(d, e) = "unknown" THEN "not_evaluated"
             ELSE IF FullyInterpreted(advisory) THEN "not_affected" ELSE "not_evaluated"
<1> DEFINE verdicts == {SaysOf(d, e) : e \in Applicable(d)}
<1>1. Match(d, advisory) =
             IF d.version = Unreadable THEN "not_evaluated"
             ELSE IF "yes" \in verdicts THEN ApplyConditions(d, advisory.conditions)
             ELSE IF "unknown" \in verdicts THEN "not_evaluated"
             ELSE IF FullyInterpreted(advisory) THEN "not_affected" ELSE "not_evaluated"
  BY DEF Match, SaysOf, Applicable
<1>2. \A x : x \in verdicts <=> \E e \in Applicable(d) : SaysOf(d, e) = x
  OBVIOUS
<1> HIDE DEF verdicts
<1> QED BY <1>1, <1>2

LEMMA ConditionsDecide ==
    ASSUME AdvisoryType, NEW d
    PROVE  LET verdict == ApplyConditions(d, advisory.conditions)
           IN  /\ verdict \in {"not_affected", "likely", "confirmed"}
               /\ verdict = "not_affected" <=> \E c \in advisory.conditions : d.facts[c.path] \notin {NotFound, c.expected}
               /\ verdict = "confirmed" <=> \A c \in advisory.conditions : d.facts[c.path] = c.expected
<1>1. \A c \in advisory.conditions : c.expected # NotFound
  BY AdvisoryAssumption DEF AdvisoryType
<1> QED BY <1>1 DEF ApplyConditions

LEMMA MatchesAnswer == AdvisoryType => MatchesHold
<1> SUFFICES ASSUME AdvisoryType PROVE MatchesHold
  OBVIOUS
<1>1. ToSet(advisory.affected) \subseteq Statements
  BY DEF AdvisoryType, ToSet
<1>2. ClearedIsClear
  <2> SUFFICES ASSUME NEW d \in Devices, Match(d, advisory) = "not_affected"
               PROVE  \/ ~advisory.unparsed /\ \A e \in ToSet(advisory.affected) : ~MayApply(d, e)
                      \/ \E c \in advisory.conditions : d.facts[c.path] \notin {NotFound, c.expected}
    BY DEF ClearedIsClear
  <2>1. CASE \E e \in Applicable(d) : SaysOf(d, e) = "yes"
    <3>1. ApplyConditions(d, advisory.conditions) = "not_affected"
      BY <2>1, MatchIs
    <3> QED BY <3>1, ConditionsDecide
  <2>2. CASE ~\E e \in Applicable(d) : SaysOf(d, e) = "yes"
    <3>1. FullyInterpreted(advisory) /\ ~\E e \in Applicable(d) : SaysOf(d, e) = "unknown"
      BY <2>2, MatchIs
    <3>2. ASSUME NEW e \in ToSet(advisory.affected), MayApply(d, e) PROVE FALSE
      <4>1. e \in Applicable(d)
        BY <3>2 DEF MayApply, Applicable
      <4>2. ~IsChassis(d, e) /\ VersionApplies(d.version, Constraint(e)) \notin {"yes", "unknown"}
        BY <2>2, <3>1, <4>1 DEF SaysOf, IsChassis
      <4>3. ~MayCover(d.version, e.spec)
        BY <1>1, <4>2, NoIsNo
      <4> QED BY <3>2, <4>2, <4>3 DEF MayApply
    <3> QED BY <3>1, <3>2 DEF FullyInterpreted
  <2> QED BY <2>1, <2>2
<1>3. ConfirmedIsAffected
  <2> SUFFICES ASSUME NEW d \in Devices, Match(d, advisory) \in {"confirmed", "likely"}
               PROVE  /\ \E e \in ToSet(advisory.affected) : Widened(e) \/ MustApply(d, e)
                      /\ Match(d, advisory) = "confirmed" <=> \A c \in advisory.conditions : d.facts[c.path] = c.expected
    BY DEF ConfirmedIsAffected
  <2>1. PICK e \in Applicable(d) : SaysOf(d, e) = "yes"
    BY MatchIs
  <2>2. Match(d, advisory) = ApplyConditions(d, advisory.conditions)
    BY <2>1, MatchIs
  <2>3. e \in ToSet(advisory.affected) /\ e \in Statements /\ NamesThisDevice(d, e)
    BY <1>1 DEF Applicable
  <2>4. Widened(e) \/ MustApply(d, e)
    <3>1. CASE IsChassis(d, e)
      BY <2>3, <3>1 DEF MustApply
    <3>2. CASE ~IsChassis(d, e)
      <4>1. VersionApplies(d.version, Constraint(e)) = "yes"
        BY <2>1, <3>2 DEF SaysOf, IsChassis
      <4>2. Widened(e) \/ MustCover(d.version, e.spec)
        BY <2>3, <4>1, YesIsYes
      <4> QED BY <2>3, <4>2 DEF MustApply
    <3> QED BY <3>1, <3>2
  <2> QED BY <2>2, <2>3, <2>4, ConditionsDecide
<1>4. OrderIsConsistent
  BY VersionsOrdered DEF OrderIsConsistent
<1> QED BY <1>2, <1>3, <1>4 DEF MatchesHold

\* Whatever an advisory says, in whatever order it is read and of whatever products and
\* versions: a device is cleared only where no reading of what is unknown could make the
\* advisory apply, confirmed only where every reading does, and versions are ordered alike
\* from both sides without a way back.
THEOREM MatchesAreTrue == AdvisorySpec => []MatchesHold
<1>1. AdvisorySpec => []AdvisoryType
  BY AdvisoryTyped DEF AdvisorySpec
<1> QED BY <1>1, MatchesAnswer, PTL
-----------------------------------------------------------------------------
(* The rule query *)

RulesType == rules \in Seq(ResolvedRule)

LEMMA RulesTyped == RulesInit /\ [][RulesNext]_rules => []RulesType
<1>1. RulesInit => RulesType
  BY DEF RulesInit, RulesType
<1>2. RulesType /\ [RulesNext]_rules => RulesType'
  <2> SUFFICES ASSUME RulesType, [RulesNext]_rules PROVE RulesType'
    OBVIOUS
  <2>1. CASE RulesNext
    <3>1. PICK r \in RuleShapes : rules' = Append(rules, r)
      BY <2>1 DEF RulesNext, AddRule
    <3>2. r \in ResolvedRule
      BY RulesAssumption
    <3> QED BY <3>1, <3>2 DEF RulesType
  <2>2. CASE UNCHANGED rules
    BY <2>2 DEF RulesType
  <2> QED BY <2>1, <2>2
<1> QED BY <1>1, <1>2, PTL

\* A rule the collected one may stand for: what could be read of it is as it was read.
StandsFor(real, rule) ==
    /\ real.enabled = rule.enabled /\ real.action = rule.action
    /\ real.src_zones = rule.src_zones /\ real.dst_zones = rule.dst_zones
    /\ "src" \in rule.unresolved \/ real.source = rule.source
    /\ "dst" \in rule.unresolved \/ real.destination = rule.destination
    /\ "svc" \in rule.unresolved \/ real.services = rule.services

LEMMA WorldsStandFor ==
    ASSUME RulesType, NEW services \in SUBSET (STRING \X Int), NEW world \in Expand(rules, V4, services)
    PROVE  /\ DOMAIN world = DOMAIN rules
           /\ \A i \in DOMAIN rules : world[i] \in ResolvedRule /\ StandsFor(world[i], rules[i])
<1>1. /\ DOMAIN world = DOMAIN rules
      /\ \A i \in DOMAIN rules : world[i] = rules[i] \/ world[i] \in Meanings(rules[i], V4, services)
  BY DEF Expand
<1>2. \A i \in DOMAIN rules : rules[i] \in ResolvedRule
  BY DEF RulesType
<1>3. ASSUME NEW rule \in ResolvedRule, NEW real \in Meanings(rule, V4, services)
      PROVE  real \in ResolvedRule /\ StandsFor(real, rule)
  <2> DEFINE S == IF "src" \in rule.unresolved THEN SUBSET V4 ELSE {rule.source}
             D == IF "dst" \in rule.unresolved THEN SUBSET V4 ELSE {rule.destination}
             V == IF "svc" \in rule.unresolved THEN SUBSET services ELSE {rule.services}
  <2>1. PICK c \in [src : S, dst : D, svc : V] :
            real = [rule EXCEPT !.source = c.src, !.destination = c.dst, !.services = c.svc, !.unresolved = {}]
    BY <1>3 DEF Meanings
  <2>2. c.src \in S /\ c.dst \in D /\ c.svc \in V
    OBVIOUS
  <2>3. c.src \in SUBSET (V4 \cup V6) /\ c.dst \in SUBSET (V4 \cup V6) /\ c.svc \in SUBSET (STRING \X Int)
    <3>1. rule.source \in SUBSET (V4 \cup V6) /\ rule.destination \in SUBSET (V4 \cup V6)
      BY DEF ResolvedRule
    <3>2. rule.services \in SUBSET (STRING \X Int)
      BY DEF ResolvedRule
    <3>3. c.svc \in SUBSET (STRING \X Int)
      BY <2>2, <3>2
    <3> QED BY <2>2, <3>1, <3>3
  <2>4. /\ "src" \in rule.unresolved \/ c.src = rule.source
        /\ "dst" \in rule.unresolved \/ c.dst = rule.destination
        /\ "svc" \in rule.unresolved \/ c.svc = rule.services
    BY <2>2
  <2> HIDE DEF S, D, V
  <2> DEFINE ports == SUBSET (STRING \X Int)
  <2>5. c.svc \in ports
    BY <2>3
  <2> HIDE DEF ports
  <2>6. rule \in [enabled : BOOLEAN, action : STRING, rulebase : STRING, src_zones : SUBSET STRING,
                  dst_zones : SUBSET STRING, source : SUBSET (V4 \cup V6), destination : SUBSET (V4 \cup V6),
                  services : ports, applications : SUBSET STRING, users : SUBSET STRING, unresolved : SUBSET Sides]
    BY DEF ResolvedRule, ports
  <2>7. real \in [enabled : BOOLEAN, action : STRING, rulebase : STRING, src_zones : SUBSET STRING,
                  dst_zones : SUBSET STRING, source : SUBSET (V4 \cup V6), destination : SUBSET (V4 \cup V6),
                  services : ports, applications : SUBSET STRING, users : SUBSET STRING, unresolved : SUBSET Sides]
    BY <2>1, <2>3, <2>5, <2>6
  <2>8. real \in ResolvedRule
    BY <2>7 DEF ResolvedRule, ports
  <2>9. StandsFor(real, rule)
    BY <2>1, <2>4, <2>6 DEF StandsFor
  <2> QED BY <2>8, <2>9
<1>4. \A rule \in ResolvedRule : StandsFor(rule, rule)
  BY DEF StandsFor
<1> QED BY <1>1, <1>2, <1>3, <1>4

\* A real rule that matches is one the query could not exclude, and one it was sure of matches.
LEMMA ReadAsItIs ==
    ASSUME NEW rule \in ResolvedRule, NEW real \in ResolvedRule, StandsFor(real, rule), NEW p
    PROVE  /\ Matches(real, p) => MayMatch(rule, p)
           /\ MayMatch(rule, p) /\ rule.unresolved = {} => Matches(real, p)
<1>1. InZones(real, p) <=> InZones(rule, p)
  BY DEF InZones, StandsFor
<1>2. \A side \in Sides \ rule.unresolved : SideCovers(real, side, p) <=> SideCovers(rule, side, p)
  BY DEF Sides, SideCovers, StandsFor
<1> QED BY <1>1, <1>2 DEF Matches, MayMatch, StandsFor

\* The first of the rules that decide is where the device stops.
LEMMA FirstDecides ==
    ASSUME NEW world, NEW p, DOMAIN world \in SUBSET Nat
    PROVE  /\ (\A i \in DOMAIN world : ~(Terminates(world[i]) /\ Matches(world[i], p))) => Decides(world, p) = NoRule
           /\ \A k \in DOMAIN world :
                  /\ Terminates(world[k])
                  /\ Matches(world[k], p)
                  /\ \A i \in DOMAIN world : i < k => ~Matches(world[i], p)
                  => Decides(world, p) = world[k]
<1> DEFINE S == {i \in DOMAIN world : Terminates(world[i]) /\ Matches(world[i], p)}
<1>1. Decides(world, p) = IF S = {} THEN NoRule ELSE world[Min(S)]
  BY DEF Decides, TheFirst
<1>2. \A i : i \in S <=> i \in DOMAIN world /\ Terminates(world[i]) /\ Matches(world[i], p)
  OBVIOUS
<1>3. S \in SUBSET Nat
  BY <1>2
<1> HIDE DEF S
<1>4. S # {} => Min(S) \in S /\ \A x \in S : Min(S) <= x
  BY <1>3, SmallestOf
<1>5. ASSUME NEW k \in DOMAIN world, Terminates(world[k]), Matches(world[k], p),
             \A i \in DOMAIN world : i < k => ~Matches(world[i], p)
      PROVE  Decides(world, p) = world[k]
  <2>1. k \in S /\ Min(S) \in S /\ Min(S) <= k
    BY <1>2, <1>4, <1>5
  <2>2. ~(Min(S) < k)
    BY <1>2, <1>5, <2>1
  <2>3. Min(S) = k
    <3>1. \A x \in S : x \in Nat
      BY <1>3
    <3>2. Min(S) \in Nat /\ k \in Nat
      BY <2>1, <3>1
    <3> QED BY <2>1, <2>2, <3>2
  <2> QED BY <1>1, <2>1, <2>3
<1> QED BY <1>1, <1>2, <1>5

\* The first of some positions has none ahead of it.
LEMMA NoneAhead ==
    ASSUME NEW T, NEW S \in SUBSET Nat, S \subseteq T, T \in SUBSET Nat, Ahead(T, S) = {}
    PROVE  IF S = {} THEN T = {} ELSE Min(S) \in S /\ \A i \in T : ~(i < Min(S))
<1>1. CASE S = {}
  BY <1>1 DEF Ahead
<1>2. CASE S # {}
  <2>1. Min(S) \in S /\ \A x \in S : Min(S) <= x
    BY <1>2, SmallestOf
  <2>2. ASSUME NEW i \in T, i < Min(S) PROVE FALSE
    <3>1. ASSUME NEW j \in S PROVE i < j
      <4>1. i \in Nat /\ j \in Nat
        OBVIOUS
      <4>2. Min(S) \in Nat /\ Min(S) <= j
        BY <2>1
      <4> QED BY <2>2, <4>1, <4>2
    <3> QED BY <3>1 DEF Ahead
  <2> QED BY <1>2, <2>1, <2>2
<1> QED BY <1>1, <1>2

LEMMA DecidedAnswers == RulesType => DecidedAnswersHold
<1> SUFFICES ASSUME RulesType, NEW p \in Packets,
                    FirstMatch(rules, p).undecidable = {},
                    FirstMatch(rules, p).matched = NoRule \/ Terminates(FirstMatch(rules, p).matched),
                    NEW world \in Expand(rules, V4, {<<p.protocol, p.port>>})
             PROVE  IF FirstMatch(rules, p).matched = NoRule THEN Decides(world, p) = NoRule
                    ELSE Decides(world, p) # NoRule /\ Decides(world, p).action = FirstMatch(rules, p).matched.action
  BY DEF DecidedAnswersHold
<1> DEFINE candidates == {i \in DOMAIN rules : MayMatch(rules[i], p)}
           certain == {i \in candidates : rules[i].unresolved = {}}
           k == Min(certain)
<1>1. p \in Packet
  BY RulesAssumption
<1>2. {<<p.protocol, p.port>>} \in SUBSET (STRING \X Int)
  BY <1>1 DEF Packet
<1>3. /\ DOMAIN world = DOMAIN rules
      /\ \A i \in DOMAIN rules : world[i] \in ResolvedRule /\ StandsFor(world[i], rules[i])
  BY <1>2, WorldsStandFor
<1>4. DOMAIN rules \in SUBSET Nat /\ \A i \in DOMAIN rules : rules[i] \in ResolvedRule /\ rules[i] # NoRule
  BY RulesAssumption DEF RulesType
<1>5. /\ FirstMatch(rules, p).matched = IF certain = {} THEN NoRule ELSE rules[k]
      /\ Ahead(candidates, certain) = {}
  BY DEF FirstMatch, TheFirst
<1>6. \A i \in DOMAIN rules : i \in candidates <=> MayMatch(rules[i], p)
  OBVIOUS
<1>7. \A i : i \in certain <=> i \in candidates /\ rules[i].unresolved = {}
  OBVIOUS
<1>8. candidates \in SUBSET Nat /\ candidates \subseteq DOMAIN rules /\ certain \subseteq candidates
  BY <1>4
<1> HIDE DEF candidates, certain, k
<1>9. IF certain = {} THEN candidates = {} ELSE k \in certain /\ \A i \in candidates : ~(i < k)
  BY <1>5, <1>8, NoneAhead DEF k
<1>10. \A i \in DOMAIN rules : /\ Matches(world[i], p) => MayMatch(rules[i], p)
                               /\ MayMatch(rules[i], p) /\ rules[i].unresolved = {} => Matches(world[i], p)
  BY <1>3, <1>4, ReadAsItIs
<1>11. CASE certain = {}
  <2>1. \A i \in DOMAIN world : ~Matches(world[i], p)
    BY <1>3, <1>6, <1>9, <1>10, <1>11
  <2>2. Decides(world, p) = NoRule
    BY <1>3, <1>4, <2>1, FirstDecides
  <2> QED BY <1>5, <1>11, <2>2
<1>12. CASE certain # {}
  <2>1. k \in DOMAIN rules /\ MayMatch(rules[k], p) /\ rules[k].unresolved = {}
    BY <1>6, <1>7, <1>8, <1>9, <1>12
  <2>2. rules[k] # NoRule /\ FirstMatch(rules, p).matched = rules[k] /\ Terminates(rules[k])
    BY <1>4, <1>5, <1>12, <2>1
  <2>3. StandsFor(world[k], rules[k]) /\ world[k] # NoRule
    BY <1>3, <2>1, RulesAssumption
  <2>4. Matches(world[k], p) /\ Terminates(world[k]) /\ world[k].action = rules[k].action
    BY <1>10, <2>1, <2>2, <2>3 DEF StandsFor, Terminates
  <2>5. \A i \in DOMAIN world : i < k => ~Matches(world[i], p)
    BY <1>3, <1>6, <1>9, <1>10, <1>12
  <2>6. Decides(world, p) = world[k]
    BY <1>3, <1>4, <2>1, <2>4, <2>5, FirstDecides
  <2> QED BY <2>2, <2>3, <2>4, <2>6
<1> QED BY <1>11, <1>12

\* A real rule that matches some packet of a range touches the range as it was read, and one
\* read to cover the range matches every packet of it.
Asks(q, p) ==
    /\ q.src_zone = p.src_zone /\ q.dst_zone = p.dst_zone /\ q.protocol = p.protocol /\ q.port = p.port
    /\ p.src \in q.srcs /\ p.dst \in q.dsts

LEMMA RangeAsItIs ==
    ASSUME NEW rule \in ResolvedRule, NEW real \in ResolvedRule, StandsFor(real, rule), NEW q, NEW p, Asks(q, p)
    PROVE  /\ Matches(real, p) => Touches(rule, q)
           /\ Touches(rule, q) /\ rule.unresolved = {} /\ CoversRange(rule, q) => Matches(real, p)
<1>1. InZones(real, p) <=> InZones(rule, q)
  BY DEF InZones, StandsFor, Asks
<1>2. ServiceCovers(rule.services, p) <=> ServiceCovers(rule.services, q)
  BY DEF ServiceCovers, Asks
<1>3. ASSUME Matches(real, p) PROVE Touches(rule, q)
  <2>1. real.enabled /\ InZones(real, p)
    BY <1>3 DEF Matches
  <2>2. p.src \in real.source /\ p.dst \in real.destination /\ ServiceCovers(real.services, p)
    BY <1>3 DEF Matches, SideCovers, Sides
  <2>3. "src" \in rule.unresolved \/ rule.source \cap q.srcs # {}
    BY <2>2 DEF StandsFor, Asks
  <2>4. "dst" \in rule.unresolved \/ rule.destination \cap q.dsts # {}
    BY <2>2 DEF StandsFor, Asks
  <2>5. "svc" \in rule.unresolved \/ ServiceCovers(rule.services, q)
    BY <1>2, <2>2 DEF StandsFor
  <2>6. rule.enabled
    BY <2>1 DEF StandsFor
  <2> QED BY <1>1, <2>1, <2>3, <2>4, <2>5, <2>6 DEF Touches
<1>4. ASSUME Touches(rule, q), rule.unresolved = {}, CoversRange(rule, q) PROVE Matches(real, p)
  <2>1. rule.enabled /\ InZones(rule, q) /\ ServiceCovers(rule.services, q)
    BY <1>4 DEF Touches
  <2>2. /\ real.enabled = rule.enabled /\ real.services = rule.services
        /\ real.source = rule.source /\ real.destination = rule.destination
    BY <1>4 DEF StandsFor
  <2>3. p.src \in real.source /\ p.dst \in real.destination /\ ServiceCovers(real.services, p)
    BY <1>2, <1>4, <2>1, <2>2 DEF CoversRange, Asks
  <2>4. \A side \in Sides : SideCovers(real, side, p)
    BY <2>3 DEF SideCovers, Sides
  <2> QED BY <1>1, <2>1, <2>2, <2>4 DEF Matches
<1> QED BY <1>3, <1>4

\* What a uniform answer says of one packet of the range.
AsAnswered(outcome, real) ==
    CASE outcome = "allowed" -> real # NoRule /\ Permits(real)
      [] outcome = "blocked" -> real # NoRule /\ ~Permits(real)
      [] OTHER -> real = NoRule

LEMMA RangeAnswers ==
    ASSUME RulesType, \A i \in DOMAIN rules : Terminates(rules[i]), NEW q,
           FirstMatchOverRange(rules, q).undecidable = {}, FirstMatchOverRange(rules, q).outcome # "mixed",
           NEW services \in SUBSET (STRING \X Int), NEW world \in Expand(rules, V4, services), NEW p, Asks(q, p)
    PROVE  AsAnswered(FirstMatchOverRange(rules, q).outcome, Decides(world, p))
<1> DEFINE touching == {i \in DOMAIN rules : Touches(rules[i], q)}
           readable == {i \in touching : rules[i].unresolved = {}}
           covering == {i \in readable : CoversRange(rules[i], q)}
           splitters == Ahead(readable, covering)
           k == Min(covering)
<1>1. /\ DOMAIN world = DOMAIN rules
      /\ \A i \in DOMAIN rules : world[i] \in ResolvedRule /\ StandsFor(world[i], rules[i])
  BY WorldsStandFor
<1>2. DOMAIN rules \in SUBSET Nat /\ \A i \in DOMAIN rules : rules[i] \in ResolvedRule
  BY DEF RulesType
<1>3. /\ FirstMatchOverRange(rules, q).outcome =
             CASE splitters # {} -> "mixed"
               [] splitters = {} /\ covering # {} ->
                      IF Permits(IF covering = {} THEN NoRule ELSE rules[k]) THEN "allowed" ELSE "blocked"
               [] OTHER -> "no-match"
      /\ FirstMatchOverRange(rules, q).undecidable = Ahead(touching, covering) \ readable
  BY DEF FirstMatchOverRange, TheFirst
<1>4. \A i : i \in touching <=> i \in DOMAIN rules /\ Touches(rules[i], q)
  OBVIOUS
<1>5. \A i : i \in readable <=> i \in touching /\ rules[i].unresolved = {}
  OBVIOUS
<1>6. \A i : i \in covering <=> i \in readable /\ CoversRange(rules[i], q)
  OBVIOUS
<1>7. touching \in SUBSET Nat /\ covering \in SUBSET Nat /\ covering \subseteq touching
  BY <1>2
<1> HIDE DEF touching, readable, covering, k
<1>8. Ahead(touching, covering) = {}
  <2>1. splitters = {}
    BY <1>3
  <2>2. Ahead(touching, covering) \subseteq readable
    BY <1>3
  <2> QED BY <2>1, <2>2 DEF Ahead
<1>9. IF covering = {} THEN touching = {} ELSE k \in covering /\ \A i \in touching : ~(i < k)
  BY <1>7, <1>8, NoneAhead DEF k
<1>10. splitters = {}
  BY <1>3
<1> HIDE DEF splitters
<1>11. \A i \in DOMAIN rules :
           /\ Matches(world[i], p) => Touches(rules[i], q)
           /\ Touches(rules[i], q) /\ rules[i].unresolved = {} /\ CoversRange(rules[i], q) => Matches(world[i], p)
  BY <1>1, <1>2, RangeAsItIs
<1>12. CASE covering = {}
  <2>1. \A i \in DOMAIN world : ~Matches(world[i], p)
    BY <1>1, <1>4, <1>9, <1>11, <1>12
  <2>2. Decides(world, p) = NoRule
    BY <1>1, <1>2, <2>1, FirstDecides
  <2>3. FirstMatchOverRange(rules, q).outcome = "no-match"
    BY <1>3, <1>10, <1>12
  <2> QED BY <2>2, <2>3 DEF AsAnswered
<1>13. CASE covering # {}
  <2>1. k \in DOMAIN rules /\ Touches(rules[k], q) /\ rules[k].unresolved = {} /\ CoversRange(rules[k], q)
    BY <1>4, <1>5, <1>6, <1>9, <1>13
  <2>2. StandsFor(world[k], rules[k]) /\ world[k] # NoRule /\ Terminates(rules[k])
    BY <1>1, <2>1, RulesAssumption
  <2>3. Matches(world[k], p) /\ Terminates(world[k]) /\ (Permits(world[k]) <=> Permits(rules[k]))
    BY <1>11, <2>1, <2>2 DEF StandsFor, Terminates, Permits
  <2>4. \A i \in DOMAIN world : i < k => ~Matches(world[i], p)
    BY <1>1, <1>4, <1>9, <1>11, <1>13
  <2>5. Decides(world, p) = world[k]
    BY <1>1, <1>2, <2>1, <2>3, <2>4, FirstDecides
  <2>6. FirstMatchOverRange(rules, q).outcome = IF Permits(rules[k]) THEN "allowed" ELSE "blocked"
    BY <1>3, <1>10, <1>13
  <2> QED BY <2>2, <2>3, <2>5, <2>6 DEF AsAnswered
<1> QED BY <1>12, <1>13

LEMMA UniformVerdicts == RulesType => UniformVerdictsHold
<1> SUFFICES ASSUME RulesType, \A i \in DOMAIN rules : Terminates(rules[i]),
                    NEW p \in Packets, NEW q \in RangesOf(p),
                    FirstMatchOverRange(rules, q).undecidable = {}, FirstMatchOverRange(rules, q).outcome # "mixed",
                    NEW world \in Expand(rules, V4, {<<p.protocol, p.port>>}), NEW s \in q.srcs, NEW d \in q.dsts
             PROVE  AsAnswered(FirstMatchOverRange(rules, q).outcome, Decides(world, [p EXCEPT !.src = s, !.dst = d]))
  BY DEF UniformVerdictsHold, AsAnswered
<1>1. p \in Packet
  BY RulesAssumption
<1>2. {<<p.protocol, p.port>>} \in SUBSET (STRING \X Int)
  BY <1>1 DEF Packet
<1> DEFINE one == [p EXCEPT !.src = s, !.dst = d]
<1>3. /\ q.src_zone = p.src_zone /\ q.dst_zone = p.dst_zone /\ q.protocol = p.protocol /\ q.port = p.port
  BY DEF RangesOf
<1>4. /\ one.src = s /\ one.dst = d /\ one.src_zone = p.src_zone /\ one.dst_zone = p.dst_zone
      /\ one.protocol = p.protocol /\ one.port = p.port
  BY <1>1 DEF Packet
<1>5. Asks(q, one)
  BY <1>3, <1>4 DEF Asks
<1> HIDE DEF one
<1>6. AsAnswered(FirstMatchOverRange(rules, q).outcome, Decides(world, one))
  BY <1>2, <1>5, RangeAnswers
<1> QED BY <1>6 DEF one

\* Whatever rules a rulebase holds and whatever the names in them that nobody could read
\* stand for: an answer of the rule query that is not marked undecidable, about a packet or
\* about a range, is what the device does with every packet it is about.
THEOREM QueriesAnswerTheDevice == RulesSpec => []AnswersHold
<1>1. RulesSpec => []RulesType
  BY RulesTyped DEF RulesSpec
<1>2. RulesType => AnswersHold
  BY DecidedAnswers, UniformVerdicts DEF AnswersHold
<1> QED BY <1>1, <1>2, PTL
-----------------------------------------------------------------------------
(* Devices and their servers *)

\* A report the estate has not left behind is what there is to report now.
AaaInv ==
    /\ readings \in [Host -> Snapshots \cup {NoReading}]
    /\ standing = [h \in Host |-> standing[h]]
    /\ report = [q \in Correlator |-> report[q]]
    /\ fresh \subseteq Correlator
    /\ \A q \in fresh : report[q] = [payloads |-> Payloads, analysed |-> Examined # {}]

\* What is found depends on the estate alone.
LEMMA FoundOfTheEstate ==
    ASSUME standing' = standing, readings' = readings
    PROVE  Payloads' = Payloads /\ Examined' = Examined
<1>1. InScope' = InScope
  BY DEF InScope
<1>2. \A h : (Read(h)' <=> Read(h)) /\ PointsAt(h)' = PointsAt(h)
  BY DEF Read, PointsAt
<1>3. Examined' = Examined
  BY <1>1, <1>2 DEF Examined
<1>4. Clients' = Clients
  BY <1>3 DEF Clients
<1>5. ClientAddresses' = ClientAddresses /\ ClientNames' = ClientNames
  BY <1>4 DEF ClientAddresses, ClientNames
<1>6. Orphaned' = Orphaned
  BY <1>1, <1>4 DEF Orphaned
<1>7. Unregistered' = Unregistered
  BY <1>1, <1>2, <1>3, <1>5 DEF Unregistered, IsServer
<1>8. UnknownServers' = UnknownServers
  BY <1>1, <1>2 DEF UnknownServers
<1>9. Reused' = Reused
  <2>1. Visible' = Visible
    BY <1>4 DEF Visible
  <2>2. \A key : PlacesOf(key)' = PlacesOf(key)
    BY <1>4 DEF PlacesOf
  <2> QED BY <1>3, <2>1, <2>2 DEF Reused
<1>10. CentralAuth' = CentralAuth
  BY <1>1, <1>2 DEF CentralAuth, Evaluated
<1> QED BY <1>3, <1>6, <1>7, <1>8, <1>9, <1>10 DEF Payloads

LEMMA AaaInductive == AaaInit /\ [][AaaNext]_aaaVars => []AaaInv
<1>1. AaaInit => AaaInv
  BY DEF AaaInit, AaaInv
<1>2. AaaInv /\ [AaaNext]_aaaVars => AaaInv'
  <2> SUFFICES ASSUME AaaInv, [AaaNext]_aaaVars PROVE AaaInv'
    OBVIOUS
  <2> USE DEF AaaInv
  <2>1. ASSUME NEW q \in Correlator, Correlate(q) PROVE AaaInv'
    <3>1. standing' = standing /\ readings' = readings
      BY <2>1 DEF Correlate
    <3>2. Payloads' = Payloads /\ Examined' = Examined
      BY <3>1, FoundOfTheEstate
    <3> HIDE DEF AaaInv
    <3>3. /\ report = [r \in Correlator |-> report[r]] /\ fresh \subseteq Correlator
          /\ \A r \in fresh : report[r] = [payloads |-> Payloads, analysed |-> Examined # {}]
      BY DEF AaaInv
    <3>4. /\ report' = [report EXCEPT ![q] = [payloads |-> Payloads, analysed |-> Examined # {}]]
          /\ fresh' = fresh \cup {q}
      BY <2>1 DEF Correlate
    <3> DEFINE now == [payloads |-> Payloads, analysed |-> Examined # {}]
    <3>5. now' = now
      BY <3>2
    <3> HIDE DEF now
    <3>6. /\ report' = [r \in Correlator |-> report'[r]] /\ fresh' \subseteq Correlator
          /\ \A r \in fresh' : report'[r] = now
      BY <3>3, <3>4 DEF now
    <3>7. \A r \in fresh' : report'[r] = now'
      BY <3>5, <3>6
    <3> QED BY <3>1, <3>6, <3>7 DEF AaaInv, now
  <2>2. ASSUME NEW q \in Correlator, Store(q) PROVE AaaInv'
    <3>1. standing' = standing /\ readings' = readings
      BY <2>2 DEF Store
    <3>2. Payloads' = Payloads /\ Examined' = Examined
      BY <3>1, FoundOfTheEstate
    <3>3. report' = [report EXCEPT ![q] = NoReport] /\ fresh' = fresh \ {q}
      BY <2>2 DEF Store
    <3> HIDE DEF AaaInv
    <3> DEFINE now == [payloads |-> Payloads, analysed |-> Examined # {}]
    <3>4. now' = now
      BY <3>2
    <3>5. /\ report = [r \in Correlator |-> report[r]] /\ fresh \subseteq Correlator
          /\ \A r \in fresh : report[r] = now
      BY DEF AaaInv
    <3> HIDE DEF now
    <3>6. /\ report' = [r \in Correlator |-> report'[r]] /\ fresh' \subseteq Correlator
          /\ \A r \in fresh' : report'[r] = now
      BY <3>3, <3>5
    <3>7. \A r \in fresh' : report'[r] = now'
      BY <3>4, <3>6
    <3> QED BY <3>1, <3>6, <3>7 DEF AaaInv, now
  <2>3. ASSUME NEW h \in Host, CollectAaa(h) PROVE AaaInv'
    <3>1. PICK r \in Snapshots : readings' = [readings EXCEPT ![h] = r]
      BY <2>3 DEF CollectAaa
    <3>2. readings' \in [Host -> Snapshots \cup {NoReading}]
      BY <3>1
    <3> QED BY <2>3, <3>2 DEF CollectAaa, EstateStep
  <2>4. ASSUME NEW h \in Host, Retire(h) PROVE AaaInv'
    <3>1. standing' = [standing EXCEPT ![h] = "archived"] \/ standing' = [standing EXCEPT ![h] = "deleted"]
      BY <2>4 DEF Retire
    <3>2. standing' = [k \in Host |-> standing'[k]]
      BY <3>1
    <3> QED BY <2>4, <3>2 DEF Retire, EstateStep
  <2>5. ASSUME NEW x \in DOMAIN aaaRows, Accept(x) PROVE AaaInv'
    <3>1. Payloads' = Payloads /\ Examined' = Examined
      BY <2>5, FoundOfTheEstate DEF Accept
    <3> QED BY <2>5, <3>1 DEF Accept
  <2>6. ASSUME UNCHANGED aaaVars PROVE AaaInv'
    <3>1. Payloads' = Payloads /\ Examined' = Examined
      BY <2>6, FoundOfTheEstate DEF aaaVars
    <3> QED BY <2>6, <3>1 DEF aaaVars
  <2> QED BY <2>1, <2>2, <2>3, <2>4, <2>5, <2>6 DEF AaaNext
<1> QED BY <1>1, <1>2, PTL

LEMMA SidesAgreeAlways == SidesAgree
<1>1. ASSUME NEW x \in Clients, NEW h \in InScope, SameBox(h, x[2]) PROVE x \notin Orphaned /\ h \notin Unregistered
  <2>1. x \notin Orphaned
    BY <1>1 DEF Orphaned, SameBox
  <2>2. Recorded[h].address \in ClientAddresses \/ Recorded[h].name \in ClientNames
    BY <1>1 DEF SameBox, ClientAddresses, ClientNames
  <2> QED BY <2>1, <2>2 DEF Unregistered
<1>2. ASSUME NEW x \in Clients \ Orphaned PROVE \E h \in InScope : SameBox(h, x[2])
  BY DEF Orphaned, SameBox
<1>3. ASSUME Examined # {}, NEW h \in InScope \ Unregistered
      PROVE  Recorded[h].manager \/ IsServer(h) \/ \E x \in Clients : SameBox(h, x[2])
  <2>1. \/ Recorded[h].manager \/ IsServer(h)
        \/ Recorded[h].address \in ClientAddresses
        \/ Recorded[h].name \in ClientNames
    BY <1>3 DEF Unregistered
  <2>2. CASE Recorded[h].address \in ClientAddresses
    BY <2>2 DEF ClientAddresses, SameBox
  <2>3. CASE Recorded[h].name \in ClientNames
    BY <2>3 DEF ClientNames, SameBox
  <2> QED BY <2>1, <2>2, <2>3
<1> QED BY <1>1, <1>2, <1>3 DEF SidesAgree

LEMMA EstateIsFinite ==
    ASSUME AaaInv
    PROVE  IsFiniteSet(InScope) /\ IsFiniteSet(Clients) /\ IsFiniteSet(Certificates)
<1> DEFINE C == UNION {r.clients : r \in Snapshots}
           D == UNION {r.ends : r \in Snapshots}
<1>1. \A h \in Host : Read(h) => readings[h] \in Snapshots
  BY DEF AaaInv, Read
<1>2. InScope \subseteq Host /\ Examined \subseteq InScope /\ \A h \in Examined : Read(h)
  BY DEF InScope, Examined
<1>3. \A r \in Snapshots : r.clients \subseteq C /\ r.ends \subseteq D
  OBVIOUS
<1>4. IsFiniteSet(Host) /\ IsFiniteSet(C) /\ IsFiniteSet(D)
  BY AaaAssumption
<1> HIDE DEF C, D
<1>5. Clients \subseteq Host \X C
  BY <1>1, <1>2, <1>3 DEF Clients
<1>6. Certificates \subseteq Host \X D
  BY <1>1, <1>2, <1>3 DEF Certificates, CertificatesOf
<1>7. IsFiniteSet(Host \X C) /\ IsFiniteSet(Host \X D)
  BY <1>4, FS_Product
<1> QED BY <1>2, <1>4, <1>5, <1>6, <1>7, FS_Subset

\* A finite set that is split in two counts as its parts do.
LEMMA SplitInTwo ==
    ASSUME NEW S, IsFiniteSet(S), NEW A, NEW B, S = A \cup B, A \cap B = {}
    PROVE  /\ IsFiniteSet(A) /\ IsFiniteSet(B)
           /\ Cardinality(S) = Cardinality(A) + Cardinality(B)
           /\ Cardinality(S) \in Nat /\ Cardinality(A) \in Nat /\ Cardinality(B) \in Nat
<1>1. IsFiniteSet(A) /\ IsFiniteSet(B)
  BY FS_Subset
<1>2. Cardinality(A \cup B) = Cardinality(A) + Cardinality(B) - Cardinality({})
  BY <1>1, FS_Union
<1>3. Cardinality({}) = 0 /\ Cardinality(A) \in Nat /\ Cardinality(B) \in Nat /\ Cardinality(S) \in Nat
  BY <1>1, FS_EmptySet, FS_CardinalityType
<1> QED BY <1>1, <1>2, <1>3

LEMMA NoVerdictWithoutData == AaaInv => NoDataNoVerdict
<1> SUFFICES ASSUME AaaInv PROVE NoDataNoVerdict
  OBVIOUS
<1>1. Unregistered # {} => Clients # {}
  <2> SUFFICES ASSUME Unregistered # {} PROVE Clients # {}
    OBVIOUS
  <2>1. PICK s \in Examined : readings[s].clients # {}
    BY DEF Unregistered, Examined
  <2>2. PICK c : c \in readings[s].clients
    BY <2>1
  <2>3. <<s, c>> \in Clients
    BY <2>1, <2>2 DEF Clients
  <2> QED BY <2>3
<1>2. ASSUME NEW x \in Reused
      PROVE  \E y, z \in Clients : y # z /\ y[2].key = x[2] /\ z[2].key = x[2]
  <2> DEFINE P == PlacesOf(x[2])
  <2>1. Cardinality(P) > 1
    BY DEF Reused
  <2>2. \A e : e \in P <=> \E y \in Clients : y[2].key = x[2] /\ e = <<Label(y[1]), y[2].name>>
    BY DEF PlacesOf
  <2> HIDE DEF P
  <2>3. \E e, f \in P : e # f
    <3> SUFFICES ASSUME \A e, f \in P : e = f PROVE FALSE
      OBVIOUS
    <3>1. CASE P = {}
      BY <2>1, <3>1, FS_EmptySet
    <3>2. CASE P # {}
      <4>1. PICK e : P = {e}
        BY <3>2
      <4>2. Cardinality(P) = 1
        BY <4>1, FS_Singleton
      <4> QED BY <2>1, <4>2
    <3> QED BY <3>1, <3>2
  <2> QED BY <2>2, <2>3
<1>3. /\ Cardinality(NotExposable) + Cardinality({x \in Clients : x[2].key \in Visible})
           + Cardinality({x \in Clients : x[2].key = NoKey}) = Cardinality(Clients)
  <2> DEFINE H == NotExposable
             V == {x \in Clients : x[2].key \in Visible}
             N == {x \in Clients : x[2].key = NoKey}
  <2>1. IsFiniteSet(Clients)
    BY EstateIsFinite
  <2>2. \A x : x \in H <=> x \in Clients /\ x[2].key = HiddenKey
    BY DEF NotExposable
  <2>3. \A x : x \in V <=> x \in Clients /\ x[2].key # HiddenKey /\ x[2].key # NoKey
    BY DEF Visible
  <2>4. \A x : x \in N <=> x \in Clients /\ x[2].key = NoKey
    OBVIOUS
  <2>5. NoKey # HiddenKey
    BY AaaAssumption
  <2> HIDE DEF H, V, N
  <2>6. Clients = (H \cup V) \cup N /\ (H \cup V) \cap N = {} /\ H \cap V = {}
    BY <2>2, <2>3, <2>4, <2>5
  <2>7. /\ IsFiniteSet(H \cup V) /\ Cardinality(Clients) = Cardinality(H \cup V) + Cardinality(N)
        /\ Cardinality(N) \in Nat
    BY <2>1, <2>6, SplitInTwo
  <2>8. /\ Cardinality(H \cup V) = Cardinality(H) + Cardinality(V)
        /\ Cardinality(H) \in Nat /\ Cardinality(V) \in Nat
    BY <2>6, <2>7, SplitInTwo
  <2>9. Cardinality(H) + Cardinality(V) + Cardinality(N) = Cardinality(Clients)
    BY <2>7, <2>8
  <2> QED BY <2>9 DEF H, V, N
<1>4. Coverage = NoReport <=> \A h \in InScope : ~Read(h) \/ ~readings[h].aaa
  <2>1. Evaluated = {} <=> \A h \in InScope : ~Read(h) \/ ~readings[h].aaa
    BY DEF Evaluated
  <2>2. IsFiniteSet(Evaluated) /\ IsFiniteSet(CentralAuth)
    BY EstateIsFinite, FS_Subset DEF Evaluated, CentralAuth
  <2>3. <<Cardinality(CentralAuth), Cardinality(Evaluated)>> \in Nat \X Nat
    BY <2>2, FS_CardinalityType
  <2>4. <<Cardinality(CentralAuth), Cardinality(Evaluated)>> # NoReport
    BY <2>3, AaaAssumption
  <2> QED BY <2>1, <2>4 DEF Coverage
<1> QED BY <1>1, <1>2, <1>3, <1>4 DEF NoDataNoVerdict

LEMMA TimelineWhole == AaaInv => TimelineIsWhole
<1> SUFFICES ASSUME AaaInv PROVE TimelineIsWhole
  OBVIOUS
<1>1. Cardinality(Certificates) = Cardinality(Expired) + Cardinality(Within(0, 90)) + Cardinality(UndatedOnes)
                                    + Cardinality({x \in Certificates : x[2] # Undated /\ x[2] > 90})
  <2> DEFINE C == Certificates
             E == Expired
             W == Within(0, 90)
             U == UndatedOnes
             L == {x \in Certificates : x[2] # Undated /\ x[2] > 90}
  <2>1. IsFiniteSet(C)
    BY EstateIsFinite
  <2>2. \A x \in C : x[2] = Undated \/ x[2] \in Int
    <3> SUFFICES ASSUME NEW x \in C PROVE x[2] = Undated \/ x[2] \in Int
      OBVIOUS
    <3>1. x[1] \in InScope /\ x[2] \in CertificatesOf(x[1])
      BY DEF Certificates
    <3>2. x[1] \in Host
      BY <3>1 DEF InScope
    <3>3. readings[x[1]] \in Snapshots /\ x[2] \in readings[x[1]].ends
      BY <3>1, <3>2 DEF CertificatesOf, Read, AaaInv
    <3> QED BY <3>3, AaaAssumption
  <2>3. Undated \notin Int
    BY AaaAssumption
  <2>4. /\ \A x : x \in E <=> x \in C /\ x[2] # Undated /\ x[2] < 0
        /\ \A x : x \in W <=> x \in C /\ x[2] # Undated /\ 0 <= x[2] /\ x[2] <= 90
        /\ \A x : x \in U <=> x \in C /\ x[2] = Undated
        /\ \A x : x \in L <=> x \in C /\ x[2] # Undated /\ x[2] > 90
    BY DEF Expired, Within, UndatedOnes
  <2> HIDE DEF C, E, W, U, L
  <2>5. \A x \in C : x \in E \/ x \in W \/ x \in U \/ x \in L
    BY <2>2, <2>4
  <2>6. /\ \A x \in L : x \notin E /\ x \notin W
        /\ \A x \in W : x \notin E
        /\ \A x \in U : x \notin E /\ x \notin W /\ x \notin L
    <3>1. \A x \in C : x \notin U => x[2] \in Int
      BY <2>2, <2>4
    <3>2. \A x \in L : x \notin E /\ x \notin W
      BY <2>2, <2>4
    <3>3. \A x \in W : x \notin E
      BY <2>2, <2>4
    <3> QED BY <2>4, <3>2, <3>3
  <2>7. E \subseteq C /\ W \subseteq C /\ U \subseteq C /\ L \subseteq C
    BY <2>4
  <2> DEFINE EW == E \cup W
             EWU == EW \cup U
  <2>8. C = EWU \cup L /\ EWU \cap L = {} /\ EW \cap U = {} /\ E \cap W = {}
    BY <2>5, <2>6, <2>7
  <2>9. EWU = EW \cup U /\ EW = E \cup W
    OBVIOUS
  <2> HIDE DEF EW, EWU
  <2>10. /\ IsFiniteSet(EWU) /\ Cardinality(L) \in Nat
         /\ Cardinality(C) = Cardinality(EWU) + Cardinality(L)
    BY <2>1, <2>8, SplitInTwo
  <2>11. /\ IsFiniteSet(EW) /\ Cardinality(U) \in Nat
         /\ Cardinality(EWU) = Cardinality(EW) + Cardinality(U)
         /\ Cardinality(E) \in Nat /\ Cardinality(W) \in Nat
         /\ Cardinality(EW) = Cardinality(E) + Cardinality(W)
    <3>1. /\ IsFiniteSet(EW) /\ Cardinality(U) \in Nat
          /\ Cardinality(EWU) = Cardinality(EW) + Cardinality(U)
      BY <2>8, <2>9, <2>10, SplitInTwo
    <3> QED BY <2>8, <2>9, <3>1, SplitInTwo
  <2>12. Cardinality(C) = Cardinality(E) + Cardinality(W) + Cardinality(U) + Cardinality(L)
    BY <2>10, <2>11
  <2> QED BY <2>12 DEF C, E, W, U, L
<1>2. ASSUME NEW h \in PostureServers PROVE h \in Blind \/ \E x \in Certificates : x[1] = h
  <2> SUFFICES ASSUME h \notin Blind PROVE \E x \in Certificates : x[1] = h
    OBVIOUS
  <2>1. PICK c : c \in CertificatesOf(h)
    BY DEF Blind
  <2>2. h \in InScope
    BY DEF PostureServers
  <2>3. <<h, c>> \in Certificates
    BY <2>1, <2>2 DEF Certificates
  <2> QED BY <2>3
<1>3. ASSUME Examined \subseteq PostureServers, PostureServers = {}
      PROVE  WeakInUse = {} /\ Blind = {} /\ Unregistered = {}
  <2>1. WeakInUse = {}
    BY <1>3 DEF WeakInUse, AcceptedBy
  <2>2. Blind = {} /\ Unregistered = {}
    BY <1>3 DEF Blind, Unregistered
  <2> QED BY <2>1, <2>2
<1> QED BY <1>1, <1>2, <1>3 DEF TimelineIsWhole

\* What there is to report is about devices in scope.
LEMMA PayloadsAreInScope == \A p \in Payloads : p.on \in InScope
<1>1. Examined \subseteq InScope
  BY DEF Examined
<1>2. /\ \A x \in Orphaned : x[1] \in InScope
      /\ \A x \in UnknownServers : x[1] \in InScope
      /\ \A x \in Reused : x[1] \in InScope
  BY <1>1 DEF Orphaned, Clients, UnknownServers, Reused
<1>3. Unregistered \subseteq InScope
  BY DEF Unregistered
<1> QED BY <1>2, <1>3 DEF Payloads

LEMMA StoredIsWhatDisagrees ==
    ASSUME AaaInv
    PROVE  StoredIsTrue
<1> SUFFICES ASSUME NEW q \in Correlator, Store(q)
             PROVE  LET open(rows) == {x \in DOMAIN rows : rows[x] \in AaaActive}
                    IN /\ q \in fresh /\ Examined # {} => open(aaaRows') = {<<p.on, p.is>> : p \in Payloads}
                       /\ q \in fresh => {<<p.on, p.is>> : p \in Payloads} \subseteq open(aaaRows')
                       /\ ~report[q].analysed => open(aaaRows) \subseteq open(aaaRows')
  BY DEF StoredIsTrue
<1> DEFINE seen == {<<p.on, p.is>> : p \in {p \in report[q].payloads : standing[p.on] # "deleted"}}
           gone == ResolveAbsent(report[q], seen)
           all == {<<p.on, p.is>> : p \in Payloads}
           open(rows) == {x \in DOMAIN rows : rows[x] \in AaaActive}
<1>1. aaaRows' = [x \in DOMAIN aaaRows \cup seen |->
              IF x \in gone THEN "resolved" ELSE IF x \notin seen THEN aaaRows[x]
              ELSE IF x \notin DOMAIN aaaRows THEN "new"
              ELSE IF aaaRows[x] \in AaaActive THEN aaaRows[x] ELSE "reopened"]
  BY DEF Store
<1>2. \A x : x \in gone <=> x \in DOMAIN aaaRows /\ report[q].analysed /\ aaaRows[x] \in AaaActive /\ x \notin seen
  BY DEF ResolveAbsent
<1>3. ASSUME q \in fresh
      PROVE  seen = all /\ (report[q].analysed <=> Examined # {})
  <2>1. report[q] = [payloads |-> Payloads, analysed |-> Examined # {}]
    BY <1>3 DEF AaaInv
  <2>2. \A p \in Payloads : standing[p.on] # "deleted"
    BY PayloadsAreInScope DEF InScope
  <2>3. {p \in report[q].payloads : standing[p.on] # "deleted"} = Payloads
    BY <2>1, <2>2
  <2>4. seen = all
    BY <2>3
  <2>5. report[q].analysed <=> Examined # {}
    <3>1. report[q].analysed = (Examined # {})
      BY <2>1
    <3> QED BY <3>1, Zenon
  <2> QED BY <2>4, <2>5
<1> HIDE DEF seen, gone, all
<1>4. \A x : x \in open(aaaRows') <=> x \in seen \/ x \in open(aaaRows) \ gone
  BY <1>1, <1>2 DEF AaaActive
<1>5. ASSUME q \in fresh, Examined # {} PROVE open(aaaRows') = all
  <2>1. open(aaaRows) \ gone \subseteq seen
    BY <1>2, <1>3, <1>5
  <2> QED BY <1>3, <1>4, <1>5, <2>1
<1>6. ASSUME q \in fresh PROVE all \subseteq open(aaaRows')
  BY <1>3, <1>4, <1>6
<1>7. ASSUME ~report[q].analysed PROVE open(aaaRows) \subseteq open(aaaRows')
  BY <1>2, <1>4, <1>7
<1> QED BY <1>5, <1>6, <1>7 DEF all

\* Devices and the servers they are registered on: neither side is reported as
\* unknown to the other against the facts, nothing is concluded without data, the
\* page leaves no certificate out, and what is stored of a report the estate has
\* not left behind is what disagrees now.
THEOREM RegistersAreTrue == AaaSpec => RegistersAgree
<1>1. AaaInv /\ AaaInv' /\ [AaaNext]_aaaVars => [AaaStep]_aaaVars
  <2> SUFFICES ASSUME AaaInv, AaaInv' PROVE AaaStep
    OBVIOUS
  <2>1. SidesAgree'
    BY SidesAgreeAlways, PTL
  <2>2. NoDataNoVerdict' /\ TimelineIsWhole'
    BY NoVerdictWithoutData, TimelineWhole, PTL
  <2>3. StoredIsTrue
    BY StoredIsWhatDisagrees
  <2> QED BY <2>1, <2>2, <2>3 DEF AaaStep
<1> QED BY <1>1, AaaInductive, PTL DEF AaaSpec, RegistersAgree
-----------------------------------------------------------------------------
(* Checks *)

Has(s, x) == \E i \in DOMAIN s : s[i] = x

\* What is left of a configuration without its noise: its other lines, and itself where it has none.
LEMMA TidyIs ==
    ASSUME NEW S, NEW s \in Seq(S)
    PROVE  /\ Tidy(s) \in Seq(S)
           /\ \A x : Has(Tidy(s), x) <=> x \notin Noise /\ Has(s, x)
           /\ (\A i \in DOMAIN s : s[i] \notin Noise) => Tidy(s) = s
<1> DEFINE n == Len(s)
           Rec(g) == [k \in 0 .. n |-> IF k = 0 THEN <<>> ELSE IF s[k] \in Noise THEN g[k - 1] ELSE Append(g[k - 1], s[k])]
           upTo == CHOOSE g : g = Rec(g)
<1>1. n \in Nat /\ \A k \in 1 .. n : s[k] \in S
  OBVIOUS
<1>2. Tidy(s) = upTo[n]
  BY DEF Tidy
<1>3. \E g : g = Rec(g)
  <2> DEFINE step == [x \in (1 .. n) \X Seq(S) |-> IF s[x[1]] \in Noise THEN x[2] ELSE Append(x[2], s[x[1]])]
  <2>1. step \in [(1 .. n) \X Seq(S) -> Seq(S)]
    <3>1. \A x \in (1 .. n) \X Seq(S) : Append(x[2], s[x[1]]) \in Seq(S) /\ x[2] \in Seq(S)
      BY <1>1
    <3> QED BY <3>1
  <2>2. <<>> \in Seq(S)
    OBVIOUS
  <2> HIDE DEF step
  <2>3. Loop(n, Seq(S), <<>>, step)
    BY <1>1, <2>1, <2>2 DEF Loop
  <2>4. PICK f \in [0 .. n -> Seq(S)] : f[0] = <<>> /\ \A k \in 1 .. n : f[k] = step[<<k, f[k - 1]>>]
    BY <2>3, LoopExists
  <2>5. ASSUME NEW k \in 1 .. n
        PROVE  f[k] = IF s[k] \in Noise THEN f[k - 1] ELSE Append(f[k - 1], s[k])
    <3>1. k - 1 \in 0 .. n
      BY <1>1
    <3>2. <<k, f[k - 1]>> \in (1 .. n) \X Seq(S)
      BY <3>1
    <3> QED BY <2>4, <3>2 DEF step
  <2>6. ASSUME NEW k \in 0 .. n PROVE f[k] = Rec(f)[k]
    <3>1. CASE k = 0
      BY <2>4, <3>1
    <3>2. CASE k # 0
      <4>1. k \in 1 .. n
        BY <1>1, <3>2
      <4>2. Rec(f)[k] = IF s[k] \in Noise THEN f[k - 1] ELSE Append(f[k - 1], s[k])
        BY <3>2
      <4> QED BY <2>5, <4>1, <4>2
    <3> QED BY <3>1, <3>2
  <2>7. f = Rec(f)
    <3>1. DOMAIN Rec(f) = 0 .. n /\ DOMAIN f = 0 .. n
      OBVIOUS
    <3> HIDE DEF Rec
    <3>2. f = [k \in 0 .. n |-> f[k]]
      OBVIOUS
    <3>3. Rec(f) = [k \in 0 .. n |-> Rec(f)[k]]
      BY DEF Rec
    <3> QED BY <2>6, <3>2, <3>3
  <2> QED BY <2>7
<1>4. upTo = Rec(upTo)
  BY <1>3
<1> HIDE DEF upTo
<1>5. /\ upTo[0] = <<>>
      /\ \A k \in 1 .. n : upTo[k] = IF s[k] \in Noise THEN upTo[k - 1] ELSE Append(upTo[k - 1], s[k])
  <2> DEFINE v(k) == IF k = 0 THEN <<>> ELSE IF s[k] \in Noise THEN upTo[k - 1] ELSE Append(upTo[k - 1], s[k])
  <2> HIDE DEF v
  <2>1. upTo = [k \in 0 .. n |-> v(k)]
    BY <1>4 DEF v
  <2>2. \A k \in 0 .. n : upTo[k] = v(k)
    BY <2>1
  <2>3. 0 \in 0 .. n /\ \A k \in 1 .. n : k \in 0 .. n /\ k # 0
    BY <1>1
  <2> QED BY <2>2, <2>3 DEF v
<1> DEFINE Held(k) == /\ upTo[k] \in Seq(S)
                      /\ \A x : (\E i \in DOMAIN upTo[k] : upTo[k][i] = x) <=> x \notin Noise /\ \E i \in 1 .. k : s[i] = x
                      /\ (\A i \in 1 .. k : s[i] \notin Noise) => Len(upTo[k]) = k /\ \A i \in 1 .. k : upTo[k][i] = s[i]
           T == {k \in 0 .. n : Held(k)}
<1>6. 0 \in T
  <2>1. <<>> \in Seq(S) /\ DOMAIN <<>> = {} /\ Len(<<>>) = 0 /\ 1 .. 0 = {} /\ 0 \in 0 .. n
    BY <1>1
  <2>2. Held(0)
    BY <1>5, <2>1
  <2> QED BY <2>1, <2>2
<1>7. ASSUME NEW k \in 1 .. n, k - 1 \in T PROVE k \in T
  <2> DEFINE t == upTo[k - 1]
             u == upTo[k]
  <2>1. /\ t \in Seq(S)
        /\ \A x : (\E i \in DOMAIN t : t[i] = x) <=> x \notin Noise /\ \E i \in 1 .. k - 1 : s[i] = x
        /\ (\A i \in 1 .. k - 1 : s[i] \notin Noise) => Len(t) = k - 1 /\ \A i \in 1 .. k - 1 : t[i] = s[i]
    BY <1>7
  <2>2. u = IF s[k] \in Noise THEN t ELSE Append(t, s[k])
    BY <1>5
  <2>3. s[k] \in S /\ \A i : i \in 1 .. k <=> i = k \/ i \in 1 .. k - 1
    BY <1>1
  <2> HIDE DEF t, u
  <2>4. CASE s[k] \in Noise
    <3>1. u = t /\ k \in 1 .. k
      BY <2>2, <2>4
    <3>2. Held(k)
      BY <2>1, <2>3, <2>4, <3>1 DEF u
    <3> QED BY <3>2
  <2>5. CASE s[k] \notin Noise
    <3>1. /\ u \in Seq(S) /\ Len(u) = Len(t) + 1 /\ Len(t) \in Nat /\ DOMAIN t = 1 .. Len(t) /\ DOMAIN u = 1 .. Len(t) + 1
          /\ \A i \in DOMAIN t : u[i] = t[i]
          /\ u[Len(t) + 1] = s[k]
      BY <2>1, <2>2, <2>3, <2>5
    <3>2. \A i : i \in DOMAIN u <=> i \in DOMAIN t \/ i = Len(t) + 1
      BY <3>1
    <3>3. \A x : (\E i \in DOMAIN u : u[i] = x) <=> x = s[k] \/ \E i \in DOMAIN t : t[i] = x
      BY <3>1, <3>2
    <3>4. \A x : (\E i \in DOMAIN u : u[i] = x) <=> x \notin Noise /\ \E i \in 1 .. k : s[i] = x
      BY <2>1, <2>3, <2>5, <3>3
    <3>5. ASSUME \A i \in 1 .. k : s[i] \notin Noise PROVE Len(u) = k /\ \A i \in 1 .. k : u[i] = s[i]
      <4>1. Len(t) = k - 1 /\ \A i \in 1 .. k - 1 : t[i] = s[i]
        BY <2>1, <2>3, <3>5
      <4> QED BY <2>3, <3>1, <4>1
    <3>6. Held(k)
      BY <3>1, <3>4, <3>5 DEF u
    <3> QED BY <3>6
  <2> QED BY <2>4, <2>5
<1>8. n \in T
  <2> HIDE DEF T
  <2>1. \A k \in 0 .. n : k \in T
    BY <1>1, <1>6, <1>7, LoopInduction
  <2> QED BY <1>1, <2>1
<1>9. Held(n)
  BY <1>8
<1>10. DOMAIN s = 1 .. n
  OBVIOUS
<1>11. ASSUME \A i \in DOMAIN s : s[i] \notin Noise PROVE Tidy(s) = s
  <2>1. Tidy(s) \in Seq(S) /\ Len(Tidy(s)) = Len(s) /\ \A i \in 1 .. Len(s) : Tidy(s)[i] = s[i]
    BY <1>2, <1>9, <1>10, <1>11
  <2> QED BY <2>1
<1>12. \A x : Has(Tidy(s), x) <=> x \notin Noise /\ Has(s, x)
  BY <1>2, <1>9, <1>10 DEF Has
<1> QED BY <1>2, <1>9, <1>11, <1>12

CheckType == ncm \in [DOMAIN Readings -> {ncm[p] : p \in DOMAIN Readings}] /\ lines \in Seq(Lines)

LEMMA ChecksTyped == CheckSpec => []CheckType
<1>1. CheckInit => CheckType
  BY DEF CheckInit, CheckType
<1>2. CheckType /\ [CheckNext]_checkVars => CheckType'
  <2> SUFFICES ASSUME CheckType, [CheckNext]_checkVars PROVE CheckType'
    OBVIOUS
  <2>1. CASE Answer
    <3>1. PICK p \in DOMAIN Readings : \E v \in Readings[p] : ncm' = [ncm EXCEPT ![p] = v]
      BY <2>1 DEF Answer
    <3>2. PICK v \in Readings[p] : ncm' = [ncm EXCEPT ![p] = v]
      BY <3>1
    <3>3. DOMAIN ncm' = DOMAIN Readings /\ ncm' = [q \in DOMAIN Readings |-> ncm'[q]]
      BY <3>2 DEF CheckType
    <3>4. ncm' \in [DOMAIN Readings -> {ncm'[q] : q \in DOMAIN Readings}]
      BY <3>3
    <3> QED BY <2>1, <3>4 DEF Answer, CheckType
  <2>2. CASE ReadLine
    <3>1. PICK l \in Lines : lines' = Append(lines, l)
      BY <2>2 DEF ReadLine
    <3>2. lines' \in Seq(Lines)
      BY <3>1 DEF CheckType
    <3> QED BY <2>2, <3>2 DEF ReadLine, CheckType
  <2>3. CASE UNCHANGED checkVars
    BY <2>3 DEF checkVars, CheckType
  <2> QED BY <2>1, <2>2, <2>3 DEF CheckNext
<1> QED BY <1>1, <1>2, PTL DEF CheckSpec

\* A template that takes no interest in noise is met by a configuration as by what is left of it.
LEMMA BlocksIgnoreNoise ==
    ASSUME NEW text \in Seq(Lines), NEW block, block.expect \in {"present", "absent"}, block.contiguous \in BOOLEAN,
           \A k \in DOMAIN block.lines : block.lines[k] \cap Noise = {}
    PROVE  Satisfied(block, text) <=> Satisfied(block, Tidy(text))
<1> DEFINE tidy == Tidy(text)
<1>1. tidy \in Seq(Lines) /\ \A x : Has(tidy, x) <=> x \notin Noise /\ Has(text, x)
  BY TidyIs
<1>2. Tidy(tidy) = tidy
  <2>1. \A i \in DOMAIN tidy : tidy[i] \notin Noise
    BY <1>1 DEF Has
  <2> HIDE DEF tidy
  <2> QED BY <1>1, <2>1, TidyIs
<1>3. ContiguousRun(block, text) <=> ContiguousRun(block, tidy)
  <2> HIDE DEF tidy
  <2>1. Tidy(text) = tidy
    BY DEF tidy
  <2> QED BY <1>2, <2>1 DEF ContiguousRun
<1>4. ASSUME NEW wanted \in ToSet(block.lines) PROVE Find(wanted, text) = {} <=> Find(wanted, tidy) = {}
  <2>1. PICK k \in DOMAIN block.lines : wanted = block.lines[k]
    BY DEF ToSet
  <2>2. wanted \cap Noise = {}
    BY <2>1
  <2> HIDE DEF tidy
  <2>3. Find(wanted, text) = {} <=> \A i \in DOMAIN text : text[i] \notin wanted
    BY DEF Find
  <2>4. Find(wanted, tidy) = {} <=> \A i \in DOMAIN tidy : tidy[i] \notin wanted
    BY DEF Find
  <2>5. (\A i \in DOMAIN text : text[i] \notin wanted) <=> \A x \in wanted : ~Has(text, x)
    BY DEF Has
  <2>6. (\A i \in DOMAIN tidy : tidy[i] \notin wanted) <=> \A x \in wanted : ~Has(tidy, x)
    BY DEF Has
  <2> QED BY <1>1, <2>2, <2>3, <2>4, <2>5, <2>6
<1> HIDE DEF tidy
<1>5. CASE block.expect = "present" /\ block.contiguous
  BY <1>3, <1>5 DEF Satisfied, tidy
<1>6. CASE block.expect = "present" /\ ~block.contiguous
  BY <1>4, <1>6 DEF Satisfied, tidy
<1>7. CASE block.expect = "absent"
  BY <1>4, <1>7 DEF Satisfied, tidy
<1> QED BY <1>5, <1>6, <1>7

LEMMA NoiseDoesNotCount == CheckType => NoiseIsIgnored
<1> SUFFICES ASSUME CheckType, Tidy(lines) # <<>>, NEW check \in Library, check.type = "golden",
                    \A block \in check.blocks : \A k \in DOMAIN block.lines : block.lines[k] \cap Noise = {}
             PROVE  Result(check) = EvaluateCheck(check, Assessed, ncm, Tidy(lines))
  BY DEF NoiseIsIgnored
<1>1. lines \in Seq(Lines) /\ lines # <<>>
  <2>1. lines \in Seq(Lines)
    BY DEF CheckType
  <2>2. Tidy(lines) \in Seq(Lines)
    BY <2>1, TidyIs
  <2>3. 1 \in DOMAIN Tidy(lines)
    BY <2>2
  <2>4. Has(Tidy(lines), Tidy(lines)[1])
    BY <2>3 DEF Has
  <2>5. Has(lines, Tidy(lines)[1])
    BY <2>1, <2>4, TidyIs
  <2> QED BY <2>1, <2>5 DEF Has
<1>2. \A block \in check.blocks : Satisfied(block, lines) <=> Satisfied(block, Tidy(lines))
  BY <1>1, BlocksIgnoreNoise, CheckAssumption
<1>3. EvaluateGolden(check, lines) = EvaluateGolden(check, Tidy(lines))
  BY <1>1, <1>2 DEF EvaluateGolden
<1> QED BY <1>3 DEF Result, EvaluateCheck

\* A verdict rests on no path nobody has answered for, but one it counts undeclared.
LEMMA AnswersAreAwaited ==
    ASSUME CheckType, NEW check \in Library, check.missing = "not_evaluated", Result(check) \in {"pass", "fail"}
    PROVE  /\ AppliesTo(check, Assessed, ncm)
           /\ \A p \in check.features \cup check.requires : ncm[p] # Absent
           /\ check.type = "ncm" => ncm[check.expression] # Absent \/ Presumes(check)
<1>1. AppliesTo(check, Assessed, ncm)
  BY DEF Result, EvaluateCheck
<1>2. \A f \in check.features : ncm[f] # Absent
  BY <1>1 DEF AppliesTo
<1>4. \A p \in check.requires : ncm[p] # Absent
  BY <1>1 DEF Result, EvaluateCheck
<1>5. ASSUME check.type = "ncm", ncm[check.expression] = Absent PROVE Presumes(check)
  <2>1. Result(check) = EvaluateNcm(check, ncm)
    BY <1>1, <1>4, <1>5 DEF Result, EvaluateCheck
  <2>2. check.assertion.op \notin Counting => Result(check) \in {"error", "not_evaluated"}
    BY <1>5, <2>1 DEF EvaluateNcm
  <2> QED BY <1>4, <1>5, <2>2 DEF Presumes
<1> QED BY <1>1, <1>2, <1>4, <1>5

\* What a count presumes is what it says of an empty list.
LEMMA PresumedIs ==
    ASSUME CheckType, NEW check \in Library, check.missing = "not_evaluated", Result(check) \in {"pass", "fail"},
           Presumes(check)
    PROVE  Result(check) = AsIfNone(check)
<1> DEFINE path == check.expression
           none == [ncm EXCEPT ![path] = Items(<<>>)]
<1>1. path \in DOMAIN ncm /\ check.type = "ncm" /\ check.assertion.op \in Counting /\ ncm[path] = Absent
  BY CheckAssumption DEF Presumes, CheckType
<1>2. AppliesTo(check, Assessed, ncm) /\ \A p \in check.features \cup check.requires : ncm[p] # Absent
  BY AnswersAreAwaited
<1>3. none[path] = Items(<<>>) /\ \A p \in check.features \cup check.requires : none[p] = ncm[p]
  BY <1>1, <1>2
<1> HIDE DEF path, none
<1>4. AppliesTo(check, Assessed, none)
  BY <1>2, <1>3 DEF AppliesTo
<1>5. AsSequence(ncm[path]) = <<>> /\ AsSequence(none[path]) = <<>>
  BY <1>1, <1>3 DEF AsSequence, Items
<1>6. EvaluateAssertion(check.assertion, none[path]) <=> EvaluateAssertion(check.assertion, ncm[path])
  <2>1. check.assertion.op = "empty" \/ check.assertion.op = "count_lte" \/ check.assertion.op = "count_gte"
    BY <1>1 DEF Counting
  <2> QED BY <1>5, <2>1 DEF EvaluateAssertion
<1>7. EvaluateNcm(check, none) = EvaluateNcm(check, ncm)
  BY <1>1, <1>6 DEF EvaluateNcm, path
<1>8. EvaluateCheck(check, Assessed, none, lines) = EvaluateCheck(check, Assessed, ncm, lines)
  BY <1>1, <1>2, <1>3, <1>4, <1>7 DEF EvaluateCheck
<1> QED BY <1>8 DEF Result, AsIfNone, none, path

LEMMA VerdictsStay ==
    ASSUME CheckType, [CheckNext]_checkVars, lines' = lines,
           NEW check \in Library, check.missing = "not_evaluated", Result(check) \in {"pass", "fail"}
    PROVE  (Presumes(check) /\ ncm'[check.expression] # Absent) \/ Result(check)' = Result(check)
<1>0. SUFFICES ASSUME ~(Presumes(check) /\ ncm'[check.expression] # Absent)
      PROVE  Result(check)' = Result(check)
  OBVIOUS
<1>1. \A p \in DOMAIN Readings : ncm[p] # Absent => ncm'[p] = ncm[p]
  <2>1. CASE Answer
    <3>1. PICK p \in DOMAIN Readings : ncm[p] = Absent /\ \E v \in Readings[p] : ncm' = [ncm EXCEPT ![p] = v]
      BY <2>1 DEF Answer
    <3> QED BY <3>1 DEF CheckType
  <2>2. CASE ReadLine \/ UNCHANGED checkVars
    BY <2>2 DEF ReadLine, checkVars
  <2> QED BY <2>1, <2>2 DEF CheckNext
<1>2. /\ AppliesTo(check, Assessed, ncm)
      /\ \A p \in check.features \cup check.requires : ncm[p] # Absent
      /\ check.type = "ncm" => ncm[check.expression] # Absent \/ Presumes(check)
  BY AnswersAreAwaited
<1>3. /\ \A p \in check.features \cup check.requires : ncm'[p] = ncm[p]
      /\ check.type \in {"ncm", "regex", "golden"}
  BY <1>1, <1>2, CheckAssumption
<1>x. check.type = "ncm" => ncm'[check.expression] = ncm[check.expression]
  BY <1>0, <1>1, <1>2, CheckAssumption DEF Presumes
<1>4. AppliesTo(check, Assessed, ncm')
  BY <1>2, <1>3 DEF AppliesTo
<1>5. check.type = "ncm" => EvaluateNcm(check, ncm') = EvaluateNcm(check, ncm)
  BY <1>x DEF EvaluateNcm
<1>6. EvaluateCheck(check, Assessed, ncm', lines) = EvaluateCheck(check, Assessed, ncm, lines)
  BY <1>2, <1>3, <1>4, <1>5 DEF EvaluateCheck
<1> QED BY <1>6 DEF Result

\* Whatever checks there are, a pass or a failure said of a partial snapshot stands
\* when a further command answers, except that of a count over an undeclared path
\* nobody answered for, which is that of an empty list; and a template says the same
\* of a configuration without its comments and blanks.
THEOREM VerdictsAreSteady == CheckSpec => ChecksAreSteady
<1>1. CheckType /\ [CheckNext]_checkVars =>
        [lines' = lines => \A check \in Library :
            (check.missing = "not_evaluated" /\ Result(check) \in {"pass", "fail"}) =>
                /\ Presumes(check) => Result(check) = AsIfNone(check)
                /\ (Presumes(check) /\ ncm'[check.expression] # Absent) \/ Result(check)' = Result(check)]_checkVars
  BY VerdictsStay, PresumedIs
<1>2. CheckType => NoiseIsIgnored
  BY NoiseDoesNotCount
<1> QED BY <1>1, <1>2, ChecksTyped, PTL DEF CheckSpec, ChecksAreSteady, VerdictsSurviveAnswers

-----------------------------------------------------------------------------
(* Dead rules *)

\* What makes a rule hit a packet.
LEMMA HitIs ==
    ASSUME NEW r, NEW p
    PROVE  Hits(r, p) <=> /\ r.rulebase = p.rulebase /\ r.enabled
                          /\ Named(r.applications, p.app) /\ Named(r.users, p.user)
                          /\ InZones(r, p)
                          /\ p.src \in r.source /\ p.dst \in r.destination /\ ServiceCovers(r.services, p)
<1>1. (\A side \in Sides : SideCovers(r, side, p))
        <=> (p.src \in r.source /\ p.dst \in r.destination /\ ServiceCovers(r.services, p))
  BY DEF Sides, SideCovers
<1> QED BY <1>1 DEF Hits, Sees, Matches

LEMMA ServicesCovered ==
    ASSUME NEW r \in RuleShapes, NEW s \in RuleShapes, NEW p \in Packets,
           ServicesContain(r.services, s.services), ServiceCovers(s.services, p)
    PROVE  ServiceCovers(r.services, p)
<1>1. p.protocol # AnyProtocol
  BY RulesAssumption
<1>2. CASE IsAnyService(r.services)
  <2>1. \A x \in r.services : x[1] = AnyProtocol
    BY <1>2, RulesAssumption DEF IsAnyService
  <2> QED BY <1>1, <1>2, <2>1 DEF ServiceCovers, IsAnyService
<1>3. CASE ~IsAnyService(s.services) /\ s.services \subseteq r.services
  <2>1. PICK x \in s.services : x[1] = p.protocol /\ <<p.protocol, p.port>> \in s.services
    BY <1>3 DEF ServiceCovers, IsAnyService
  <2> QED BY <1>3, <2>1 DEF ServiceCovers
<1>4. s.services # {}
  BY DEF ServiceCovers
<1> QED BY <1>2, <1>3, <1>4 DEF ServicesContain

LEMMA ZonesCovered ==
    ASSUME NEW r, NEW s, NEW p, InZones(s, p),
           ZonesContain(r.src_zones, s.src_zones), ZonesContain(r.dst_zones, s.dst_zones)
    PROVE  InZones(r, p)
BY DEF InZones, ZonesContain

LEMMA NamesCovered ==
    ASSUME NEW a, NEW b, NEW n, NamesContain(a, b), Named(b, n)
    PROVE  Named(a, n)
BY DEF NamesContain, Named

\* A covered rule's packets are the covering rule's.
LEMMA CoveredHits ==
    ASSUME NEW r \in RuleShapes, NEW s \in RuleShapes, NEW p \in Packets,
           Covers(r, s), r.rulebase = s.rulebase, r.enabled, Hits(s, p)
    PROVE  Hits(r, p)
<1>1. /\ s.rulebase = p.rulebase /\ Named(s.applications, p.app) /\ Named(s.users, p.user) /\ InZones(s, p)
      /\ p.src \in s.source /\ p.dst \in s.destination /\ ServiceCovers(s.services, p)
  BY HitIs
<1>2. ServiceCovers(r.services, p)
  BY <1>1, ServicesCovered DEF Covers
<1>3. InZones(r, p)
  BY <1>1, ZonesCovered DEF Covers
<1>4. Named(r.applications, p.app) /\ Named(r.users, p.user)
  BY <1>1, NamesCovered DEF Covers
<1>5. p.src \in r.source /\ p.dst \in r.destination /\ r.rulebase = p.rulebase
  BY <1>1 DEF Covers
<1> QED BY <1>2, <1>3, <1>4, <1>5, HitIs

LEMMA ServicesMeet ==
    ASSUME NEW a, NEW b, NEW p, ServiceCovers(a, p), ServiceCovers(b, p)
    PROVE  ServicesIntersect(a, b)
<1>1. a # {} /\ b # {}
  BY DEF ServiceCovers
<1>2. CASE ~IsAnyService(a) /\ ~IsAnyService(b)
  BY <1>2 DEF ServiceCovers, ServicesIntersect, IsAnyService
<1> QED BY <1>1, <1>2 DEF ServicesIntersect

\* Rules whose hits share a packet are compared, when the first one decides.
LEMMA HitsMeet ==
    ASSUME NEW r, NEW s, NEW p, Hits(r, p), Hits(s, p), Terminates(r),
           ZonesMeet(r.src_zones, s.src_zones), ZonesMeet(r.dst_zones, s.dst_zones)
    PROVE  Comparable(r, s)
<1>1. /\ r.rulebase = p.rulebase /\ Named(r.applications, p.app) /\ Named(r.users, p.user)
      /\ p.src \in r.source /\ p.dst \in r.destination /\ ServiceCovers(r.services, p)
  BY HitIs
<1>2. /\ s.rulebase = p.rulebase /\ Named(s.applications, p.app) /\ Named(s.users, p.user)
      /\ p.src \in s.source /\ p.dst \in s.destination /\ ServiceCovers(s.services, p)
  BY HitIs
<1>3. ServicesIntersect(r.services, s.services)
  BY <1>1, <1>2, ServicesMeet
<1>4. NamesOverlap(r.applications, s.applications) /\ NamesOverlap(r.users, s.users)
  BY <1>1, <1>2 DEF Named, NamesOverlap
<1>5. r.source \cap s.source # {} /\ r.destination \cap s.destination # {}
  BY <1>1, <1>2
<1> QED BY <1>1, <1>2, <1>3, <1>4, <1>5 DEF Comparable

\* Rules that hit an arriving packet are in its zones together.
LEMMA ZonesOfArrival ==
    ASSUME NEW r, NEW s, NEW p \in Arriving, Hits(r, p), Hits(s, p)
    PROVE  ZonesMeet(r.src_zones, s.src_zones) /\ ZonesMeet(r.dst_zones, s.dst_zones)
<1>1. InZones(r, p) /\ InZones(s, p)
  BY HitIs
<1> QED BY <1>1 DEF InZones, ZonesMeet, Arriving

\* What a relationship found says of its two rules.
LEMMA KindIs ==
    ASSUME NEW R, NEW i, NEW j, NEW rel \in KindOf(R, i, j)
    PROVE  /\ Comparable(R[i], R[j]) /\ rel.earlier = i /\ rel.later = j
           /\ rel.kind \in {"shadowed", "redundant", "generalisation", "correlated"}
           /\ rel.kind \in {"shadowed", "redundant"} =>
                 \/ rel.subject = j /\ rel.cause = i /\ Covers(R[i], R[j])
                 \/ rel.subject = i /\ rel.cause = j /\ Covers(R[j], R[i]) /\ rel.kind = "redundant"
           /\ rel.kind = "redundant" => R[i].action = R[j].action
<1> DEFINE Is(kind) == [kind |-> kind, earlier |-> i, later |-> j, subject |-> j, cause |-> i]
<1>1. Comparable(R[i], R[j])
  BY DEF KindOf
<1>2. CASE Covers(R[i], R[j]) /\ R[i].action = R[j].action
  <2>1. rel = Is("redundant")
    BY <1>1, <1>2 DEF KindOf
  <2> QED BY <1>1, <1>2, <2>1
<1>3. CASE Covers(R[i], R[j]) /\ R[i].action # R[j].action
  <2>1. rel = Is("shadowed")
    BY <1>1, <1>3 DEF KindOf
  <2> QED BY <1>1, <1>3, <2>1
<1>4. CASE ~Covers(R[i], R[j]) /\ Covers(R[j], R[i]) /\ R[i].action = R[j].action
  <2>1. rel = [kind |-> "redundant", earlier |-> i, later |-> j, subject |-> i, cause |-> j]
    BY <1>1, <1>4 DEF KindOf
  <2> QED BY <1>1, <1>4, <2>1
<1>5. CASE ~Covers(R[i], R[j]) /\ Covers(R[j], R[i]) /\ R[i].action # R[j].action
  <2>1. rel = Is("generalisation")
    BY <1>1, <1>5 DEF KindOf
  <2> QED BY <1>1, <2>1
<1>6. CASE ~Covers(R[i], R[j]) /\ ~Covers(R[j], R[i])
  <2>1. rel = Is("correlated")
    BY <1>1, <1>6 DEF KindOf
  <2> QED BY <1>1, <2>1
<1> QED BY <1>2, <1>3, <1>4, <1>5, <1>6

\* When a rule covers a later one it is compared with, that is found.
LEMMA CoveredIsFound ==
    ASSUME NEW R, NEW i, NEW j, Comparable(R[i], R[j]), Covers(R[i], R[j])
    PROVE  \E rel \in KindOf(R, i, j) :
              /\ rel.kind = IF R[i].action = R[j].action THEN "redundant" ELSE "shadowed"
              /\ rel.subject = j /\ rel.cause = i
<1> DEFINE rel == [kind |-> IF R[i].action = R[j].action THEN "redundant" ELSE "shadowed",
                   earlier |-> i, later |-> j, subject |-> j, cause |-> i]
<1>1. rel \in KindOf(R, i, j)
  BY DEF KindOf
<1> QED BY <1>1

\* When neither does and they disagree, that is found too, the last deny apart.
LEMMA OverlapIsFound ==
    ASSUME NEW R, NEW i, NEW j, Comparable(R[i], R[j]), ~Covers(R[i], R[j]), R[i].action # R[j].action,
           ~IsCleanup(R, j)
    PROVE  \E rel \in KindOf(R, i, j) :
              rel.kind \in {"correlated", "generalisation"} /\ rel.subject = j /\ rel.cause = i
<1> DEFINE rel == [kind |-> IF Covers(R[j], R[i]) THEN "generalisation" ELSE "correlated",
                   earlier |-> i, later |-> j, subject |-> j, cause |-> i]
<1>1. rel \in KindOf(R, i, j)
  BY DEF KindOf
<1> QED BY <1>1

\* What is kept was found of two enabled rules.
LEMMA KeptIs ==
    ASSUME NEW R \in Seq(RuleShapes), NEW rel \in Kept(R)
    PROVE  \E i, j \in Active(R) : i < j /\ i \in DOMAIN R /\ j \in DOMAIN R /\ rel \in KindOf(R, i, j)
<1>1. PICK x \in Compared(R) : rel \in KindOf(R, x[1], x[2])
  BY DEF Kept, Found
<1>2. x[1] \in Active(R) /\ x[2] \in Active(R) /\ x[1] < x[2]
  BY DEF Compared
<1> QED BY <1>1, <1>2 DEF Active

\* The rules are rules that may be written.
RulesWritten == rules \in Seq(RuleShapes)

LEMMA RulesStayWritten == RulesSpec => []RulesWritten
<1>1. RulesInit => RulesWritten
  BY DEF RulesInit, RulesWritten
<1>2. RulesWritten /\ [RulesNext]_rules => RulesWritten'
  BY DEF RulesWritten, RulesNext, AddRule
<1> QED BY <1>1, <1>2, PTL DEF RulesSpec

\* A rule reported dead never decides.
LEMMA DeadAreDead == RulesWritten => DeadRulesAreDead
<1> SUFFICES ASSUME RulesWritten, NEW x \in Analyse(rules).shown,
                    x.rel.kind \in {"shadowed", "redundant"}, x.rel.cause < x.rel.subject,
                    NEW p \in Packets, Hits(rules[x.rel.subject], p)
             PROVE  Terminates(rules[x.rel.cause]) /\ Hits(rules[x.rel.cause], p)
  BY DEF DeadRulesAreDead
<1>0. rules \in Seq(RuleShapes)
  BY DEF RulesWritten
<1> DEFINE rel == x.rel
<1>1. rel \in Kept(rules)
  BY DEF Analyse
<1> HIDE DEF rel
<1>2. PICK i, j \in Active(rules) : i < j /\ i \in DOMAIN rules /\ j \in DOMAIN rules /\ rel \in KindOf(rules, i, j)
  BY <1>0, <1>1, KeptIs
<1>3. /\ Comparable(rules[i], rules[j])
      /\ \/ rel.subject = j /\ rel.cause = i /\ Covers(rules[i], rules[j])
         \/ rel.subject = i /\ rel.cause = j
  BY <1>2, KindIs DEF rel
<1>4. i \in Nat /\ j \in Nat /\ rules[i] \in RuleShapes /\ rules[j] \in RuleShapes
  BY <1>0, <1>2
<1>5. rel.subject = j /\ rel.cause = i /\ Covers(rules[i], rules[j])
  BY <1>2, <1>3, <1>4 DEF rel
<1>6. rules[i].enabled /\ rules[i].rulebase = rules[j].rulebase /\ Terminates(rules[i])
  BY <1>2, <1>3 DEF Active, Comparable
<1>7. Hits(rules[j], p)
  BY <1>5 DEF rel
<1>8. Hits(rules[i], p)
  BY <1>4, <1>5, <1>6, <1>7, CoveredHits
<1> QED BY <1>5, <1>6, <1>8 DEF rel

\* A packet with another's source, destination, zones, names or service.
LEMMA Varied ==
    ASSUME NEW p \in Arriving, NEW q \in Packets
    PROVE  /\ [p EXCEPT !.src = q.src] \in Arriving /\ [p EXCEPT !.dst = q.dst] \in Arriving
           /\ [p EXCEPT !.app = q.app] \in Arriving /\ [p EXCEPT !.user = q.user] \in Arriving
           /\ [p EXCEPT !.protocol = q.protocol, !.port = q.port] \in Arriving
           /\ q.src_zone # NoZone => [p EXCEPT !.src_zone = q.src_zone] \in Arriving
           /\ q.dst_zone # NoZone => [p EXCEPT !.dst_zone = q.dst_zone] \in Arriving
<1>1. p \in Packets /\ p \in Packet /\ p.src_zone # NoZone /\ p.dst_zone # NoZone
  BY RulesAssumption DEF Arriving
<1>v. \A a, b \in Packets :
        {[a EXCEPT !.src = b.src], [a EXCEPT !.dst = b.dst], [a EXCEPT !.src_zone = b.src_zone],
         [a EXCEPT !.dst_zone = b.dst_zone], [a EXCEPT !.app = b.app], [a EXCEPT !.user = b.user],
         [a EXCEPT !.protocol = b.protocol, !.port = b.port]} \subseteq Packets
  BY PacketsAssumption
<1>2. {[p EXCEPT !.src = q.src], [p EXCEPT !.dst = q.dst], [p EXCEPT !.src_zone = q.src_zone],
       [p EXCEPT !.dst_zone = q.dst_zone], [p EXCEPT !.app = q.app], [p EXCEPT !.user = q.user],
       [p EXCEPT !.protocol = q.protocol, !.port = q.port]} \subseteq Packets
  BY <1>1, <1>v
<1>3. [p EXCEPT !.src = q.src] \in Arriving /\ [p EXCEPT !.dst = q.dst] \in Arriving
  BY <1>1, <1>2 DEF Arriving, Packet
<1>4. [p EXCEPT !.app = q.app] \in Arriving /\ [p EXCEPT !.user = q.user] \in Arriving
  BY <1>1, <1>2 DEF Arriving, Packet
<1>5. [p EXCEPT !.protocol = q.protocol, !.port = q.port] \in Arriving
  BY <1>1, <1>2 DEF Arriving, Packet
<1>6. q.src_zone # NoZone => [p EXCEPT !.src_zone = q.src_zone] \in Arriving
  BY <1>1, <1>2 DEF Arriving, Packet
<1>7. q.dst_zone # NoZone => [p EXCEPT !.dst_zone = q.dst_zone] \in Arriving
  BY <1>1, <1>2 DEF Arriving, Packet
<1> QED BY <1>3, <1>4, <1>5, <1>6, <1>7

\* A rule whose packets all hit another is covered by it.
LEMMA HitsCover ==
    ASSUME NEW r \in RuleShapes, NEW s \in RuleShapes, NEW p \in Arriving, Hits(s, p),
           \A q \in Arriving : Hits(s, q) => Hits(r, q)
    PROVE  Covers(r, s)
<1>0. p \in Packet /\ p.src_zone # NoZone /\ p.dst_zone # NoZone
  BY RulesAssumption DEF Arriving
<1>1. /\ s.rulebase = p.rulebase /\ s.enabled /\ Named(s.applications, p.app) /\ Named(s.users, p.user)
      /\ InZones(s, p) /\ p.src \in s.source /\ p.dst \in s.destination /\ ServiceCovers(s.services, p)
  BY HitIs
<1>2. s.source \subseteq r.source
  <2> SUFFICES ASSUME NEW q \in Packets, q.src \in s.source \ r.source PROVE FALSE
    BY PacketsAssumption
  <2> DEFINE x == [p EXCEPT !.src = q.src]
  <2>1. x \in Arriving
    BY Varied
  <2>2. /\ x.rulebase = p.rulebase /\ x.app = p.app /\ x.user = p.user /\ x.src_zone = p.src_zone
        /\ x.dst_zone = p.dst_zone /\ x.src = q.src /\ x.dst = p.dst /\ x.protocol = p.protocol /\ x.port = p.port
    BY <1>0 DEF Packet
  <2> HIDE DEF x
  <2>3. InZones(s, x) /\ ServiceCovers(s.services, x)
    BY <1>1, <2>2 DEF InZones, ServiceCovers
  <2>4. Hits(s, x)
    BY <1>1, <2>2, <2>3, HitIs
  <2>5. Hits(r, x)
    BY <2>1, <2>4
  <2> QED BY <2>2, <2>5, HitIs
<1>3. s.destination \subseteq r.destination
  <2> SUFFICES ASSUME NEW q \in Packets, q.dst \in s.destination \ r.destination PROVE FALSE
    BY PacketsAssumption
  <2> DEFINE x == [p EXCEPT !.dst = q.dst]
  <2>1. x \in Arriving
    BY Varied
  <2>2. /\ x.rulebase = p.rulebase /\ x.app = p.app /\ x.user = p.user /\ x.src_zone = p.src_zone
        /\ x.dst_zone = p.dst_zone /\ x.src = p.src /\ x.dst = q.dst /\ x.protocol = p.protocol /\ x.port = p.port
    BY <1>0 DEF Packet
  <2> HIDE DEF x
  <2>3. InZones(s, x) /\ ServiceCovers(s.services, x)
    BY <1>1, <2>2 DEF InZones, ServiceCovers
  <2>4. Hits(s, x)
    BY <1>1, <2>2, <2>3, HitIs
  <2>5. Hits(r, x)
    BY <2>1, <2>4
  <2> QED BY <2>2, <2>5, HitIs
<1>4. ServicesContain(r.services, s.services)
  <2> SUFFICES ASSUME NEW q \in Packets, ServiceCovers(s.services, q), ~ServiceCovers(r.services, q) PROVE FALSE
    BY PacketsAssumption
  <2> DEFINE x == [p EXCEPT !.protocol = q.protocol, !.port = q.port]
  <2>1. x \in Arriving
    BY Varied
  <2>2. /\ x.rulebase = p.rulebase /\ x.app = p.app /\ x.user = p.user /\ x.src_zone = p.src_zone
        /\ x.dst_zone = p.dst_zone /\ x.src = p.src /\ x.dst = p.dst /\ x.protocol = q.protocol /\ x.port = q.port
    BY <1>0 DEF Packet
  <2> HIDE DEF x
  <2>3. InZones(s, x) /\ ServiceCovers(s.services, x) /\ ~ServiceCovers(r.services, x)
    BY <1>1, <2>2 DEF InZones, ServiceCovers
  <2>4. Hits(s, x)
    BY <1>1, <2>2, <2>3, HitIs
  <2>5. Hits(r, x)
    BY <2>1, <2>4
  <2> QED BY <2>3, <2>5, HitIs
<1>5. NamesContain(r.applications, s.applications)
  <2> SUFFICES ASSUME NEW q \in Packets, Named(s.applications, q.app), ~Named(r.applications, q.app) PROVE FALSE
    BY PacketsAssumption
  <2> DEFINE x == [p EXCEPT !.app = q.app]
  <2>1. x \in Arriving
    BY Varied
  <2>2. /\ x.rulebase = p.rulebase /\ x.app = q.app /\ x.user = p.user /\ x.src_zone = p.src_zone
        /\ x.dst_zone = p.dst_zone /\ x.src = p.src /\ x.dst = p.dst /\ x.protocol = p.protocol /\ x.port = p.port
    BY <1>0 DEF Packet
  <2> HIDE DEF x
  <2>3. InZones(s, x) /\ ServiceCovers(s.services, x)
    BY <1>1, <2>2 DEF InZones, ServiceCovers
  <2>4. Hits(s, x)
    BY <1>1, <2>2, <2>3, HitIs
  <2>5. Hits(r, x)
    BY <2>1, <2>4
  <2> QED BY <2>2, <2>5, HitIs
<1>6. NamesContain(r.users, s.users)
  <2> SUFFICES ASSUME NEW q \in Packets, Named(s.users, q.user), ~Named(r.users, q.user) PROVE FALSE
    BY PacketsAssumption
  <2> DEFINE x == [p EXCEPT !.user = q.user]
  <2>1. x \in Arriving
    BY Varied
  <2>2. /\ x.rulebase = p.rulebase /\ x.app = p.app /\ x.user = q.user /\ x.src_zone = p.src_zone
        /\ x.dst_zone = p.dst_zone /\ x.src = p.src /\ x.dst = p.dst /\ x.protocol = p.protocol /\ x.port = p.port
    BY <1>0 DEF Packet
  <2> HIDE DEF x
  <2>3. InZones(s, x) /\ ServiceCovers(s.services, x)
    BY <1>1, <2>2 DEF InZones, ServiceCovers
  <2>4. Hits(s, x)
    BY <1>1, <2>2, <2>3, HitIs
  <2>5. Hits(r, x)
    BY <2>1, <2>4
  <2> QED BY <2>2, <2>5, HitIs
<1>7. ZonesContain(r.src_zones, s.src_zones)
  <2> SUFFICES ASSUME ~ZonesContain(r.src_zones, s.src_zones) PROVE FALSE
    OBVIOUS
  <2>0. PICK q \in Packets : /\ q.src_zone # NoZone /\ q.src_zone \notin r.src_zones
                             /\ s.src_zones = {} \/ q.src_zone \in s.src_zones
    BY PacketsAssumption
  <2> DEFINE x == [p EXCEPT !.src_zone = q.src_zone]
  <2>1. x \in Arriving
    BY <2>0, Varied
  <2>2. /\ x.rulebase = p.rulebase /\ x.app = p.app /\ x.user = p.user /\ x.src_zone = q.src_zone
        /\ x.dst_zone = p.dst_zone /\ x.src = p.src /\ x.dst = p.dst /\ x.protocol = p.protocol /\ x.port = p.port
    BY <1>0 DEF Packet
  <2> HIDE DEF x
  <2>3. InZones(s, x) /\ ServiceCovers(s.services, x)
    BY <1>1, <2>0, <2>2 DEF InZones, ServiceCovers
  <2>4. Hits(s, x)
    BY <1>1, <2>2, <2>3, HitIs
  <2>5. InZones(r, x)
    BY <2>1, <2>4, HitIs
  <2> QED BY <2>0, <2>2, <2>5 DEF InZones, ZonesContain
<1>8. ZonesContain(r.dst_zones, s.dst_zones)
  <2> SUFFICES ASSUME ~ZonesContain(r.dst_zones, s.dst_zones) PROVE FALSE
    OBVIOUS
  <2>0. PICK q \in Packets : /\ q.dst_zone # NoZone /\ q.dst_zone \notin r.dst_zones
                             /\ s.dst_zones = {} \/ q.dst_zone \in s.dst_zones
    BY PacketsAssumption
  <2> DEFINE x == [p EXCEPT !.dst_zone = q.dst_zone]
  <2>1. x \in Arriving
    BY <2>0, Varied
  <2>2. /\ x.rulebase = p.rulebase /\ x.app = p.app /\ x.user = p.user /\ x.src_zone = p.src_zone
        /\ x.dst_zone = q.dst_zone /\ x.src = p.src /\ x.dst = p.dst /\ x.protocol = p.protocol /\ x.port = p.port
    BY <1>0 DEF Packet
  <2> HIDE DEF x
  <2>3. InZones(s, x) /\ ServiceCovers(s.services, x)
    BY <1>1, <2>0, <2>2 DEF InZones, ServiceCovers
  <2>4. Hits(s, x)
    BY <1>1, <2>2, <2>3, HitIs
  <2>5. InZones(r, x)
    BY <2>1, <2>4, HitIs
  <2> QED BY <2>0, <2>2, <2>5 DEF InZones, ZonesContain
<1> QED BY <1>2, <1>3, <1>4, <1>5, <1>6, <1>7, <1>8 DEF Covers

\* Two rules have one relationship at most, so what is found is finite.
LEMMA OneKind ==
    ASSUME NEW R, NEW i, NEW j, NEW a \in KindOf(R, i, j), NEW b \in KindOf(R, i, j)
    PROVE  a = b
BY DEF KindOf

LEMMA FoundIsFinite ==
    ASSUME NEW R \in Seq(RuleShapes)
    PROVE  IsFiniteSet(Found(R))
<1> DEFINE N == Len(R)
           I == 1 .. N
           C == {x \in Compared(R) : KindOf(R, x[1], x[2]) # {}}
           f == [x \in C |-> CHOOSE r \in KindOf(R, x[1], x[2]) : TRUE]
<1>0. N \in Nat /\ DOMAIN R = I
  OBVIOUS
<1>1. 1 \in Int /\ N \in Int
  BY <1>0
<1> HIDE DEF N
<1>2. IsFiniteSet(I)
  BY <1>1, FS_Interval
<1>3. IsFiniteSet(I \X I)
  BY <1>2, FS_Product
<1>4. C \subseteq I \X I
  <2>1. Active(R) \subseteq I
    BY <1>0 DEF Active
  <2>2. C \subseteq Active(R) \X Active(R)
    BY DEF Compared
  <2> QED BY <2>1, <2>2
<1>5. IsFiniteSet(C)
  BY <1>3, <1>4, FS_Subset
<1>6. f \in Surjection(C, Found(R))
  <2>1. \A x \in C : f[x] \in Found(R)
    BY DEF Found
  <2>2. \A r \in Found(R) : \E x \in C : f[x] = r
    <3> SUFFICES ASSUME NEW r \in Found(R) PROVE \E x \in C : f[x] = r
      OBVIOUS
    <3>1. PICK x \in Compared(R) : r \in KindOf(R, x[1], x[2])
      BY DEF Found
    <3>2. x \in C
      BY <3>1
    <3>3. f[x] \in KindOf(R, x[1], x[2])
      BY <3>2
    <3>4. f[x] = r
      BY <3>1, <3>3, OneKind
    <3> QED BY <3>2, <3>4
  <2>3. f \in [C -> Found(R)]
    BY <2>1
  <2> HIDE DEF f, C
  <2> QED BY <2>2, <2>3 DEF Surjection
<1> HIDE DEF f, C
<1> QED BY <1>5, <1>6, FS_Surjection

\* What is not cut off is all kept.
LEMMA AllKept ==
    ASSUME NEW R \in Seq(RuleShapes), ~Analyse(R).truncated
    PROVE  Kept(R) = Found(R)
<1> SUFFICES ASSUME NEW r \in Found(R) PROVE r \in Kept(R)
  BY DEF Kept
<1> DEFINE A == Found(R)
           P == {s \in Found(R) : Precedes(s, r)}
<1>1. ~(Cardinality(Found(R)) > MaxRelationships)
  BY DEF Analyse
<1>2. IsFiniteSet(A) /\ P \in SUBSET A
  BY FoundIsFinite
<1>3. r \notin P
  <2>1. PICK x \in Compared(R) : r \in KindOf(R, x[1], x[2])
    BY DEF Found
  <2>2. r.earlier = x[1] /\ r.later = x[2]
    BY <2>1, KindIs
  <2>3. x[1] \in Nat /\ x[2] \in Nat
    BY DEF Compared, Active
  <2>4. ~Precedes(r, r)
    BY <2>2, <2>3 DEF Precedes
  <2> QED BY <2>4
<1>4. A # P
  BY <1>3
<1>5. A = Found(R)
  OBVIOUS
<1> HIDE DEF A, P
<1>6. Cardinality(P) <= Cardinality(A) /\ Cardinality(A) # Cardinality(P) /\ IsFiniteSet(P)
  BY <1>2, <1>4, FS_Subset
<1>7. Cardinality(P) \in Nat /\ Cardinality(A) \in Nat
  BY <1>2, <1>6, FS_CardinalityType
<1>8. Cardinality(P) < MaxRelationships
  BY <1>1, <1>5, <1>6, <1>7, RulesAssumption
<1> QED BY <1>8 DEF P, Kept

\* What is kept is shown.
LEMMA KeptIsShown ==
    ASSUME NEW R, NEW r \in Kept(R)
    PROVE  \E x \in Analyse(R).shown :
              /\ x.rel = r
              /\ r.kind = "redundant" => \A s \in Kept(R) : (s.kind = "shadowed" /\ s.cause = r.subject) => s.subject \in x.shadows
<1> DEFINE Caveat(a) == {s.subject : s \in {s \in Kept(R) :
                        a.kind = "redundant" /\ s.kind = "shadowed" /\ s.cause = a.subject}}
           x == [rel |-> r, shadows |-> Caveat(r)]
<1>1. Analyse(R).shown = {[rel |-> a, shadows |-> Caveat(a)] : a \in Kept(R)}
  BY DEF Analyse
<1>2. x \in Analyse(R).shown
  BY <1>1
<1>3. x.rel = r /\ x.shadows = Caveat(r)
  OBVIOUS
<1>4. ASSUME r.kind = "redundant", NEW s \in Kept(R), s.kind = "shadowed", s.cause = r.subject
      PROVE  s.subject \in x.shadows
  BY <1>3, <1>4
<1> HIDE DEF x
<1> QED BY <1>2, <1>3, <1>4

\* Every rule that one above it covers is reported.
LEMMA DeadAreReported == RulesWritten => EveryDeadRuleIsReported
<1> SUFFICES ASSUME RulesWritten, ~Analyse(rules).truncated,
                    NEW i \in Active(rules), NEW j \in Active(rules), i < j, Terminates(rules[i]),
                    NEW p \in Arriving, Hits(rules[j], p),
                    \A q \in Arriving : Hits(rules[j], q) => Hits(rules[i], q)
             PROVE  \E x \in Analyse(rules).shown : x.rel.kind \in {"shadowed", "redundant"} /\ x.rel.subject = j
  BY DEF EveryDeadRuleIsReported
<1>0. rules \in Seq(RuleShapes)
  BY DEF RulesWritten
<1>1. i \in Nat /\ j \in Nat /\ rules[i] \in RuleShapes /\ rules[j] \in RuleShapes
  BY <1>0 DEF Active
<1>2. Covers(rules[i], rules[j])
  BY <1>1, HitsCover
<1>3. Hits(rules[i], p)
  OBVIOUS
<1>4. ZonesMeet(rules[i].src_zones, rules[j].src_zones) /\ ZonesMeet(rules[i].dst_zones, rules[j].dst_zones)
  BY <1>3, ZonesOfArrival
<1>5. Comparable(rules[i], rules[j])
  BY <1>3, <1>4, HitsMeet
<1>6. \E rel \in Found(rules) : rel.kind \in {"shadowed", "redundant"} /\ rel.subject = j
  <2> DEFINE S == {k \in Active(rules) : k < j /\ Shadows(rules, k, j)}
  <2>0. S \in SUBSET Nat
    BY <1>0 DEF Active
  <2>1. CASE S = {}
    <3>1. <<i, j>> \in Compared(rules)
      <4> SUFFICES ASSUME NEW k \in Active(rules), k < i PROVE ~Shadows(rules, k, j)
        BY DEF Compared
      <4>1. k \in Nat
        BY <1>0 DEF Active
      <4> QED BY <1>1, <2>1, <4>1
    <3>2. PICK rel \in KindOf(rules, i, j) :
             rel.kind = (IF rules[i].action = rules[j].action THEN "redundant" ELSE "shadowed") /\ rel.subject = j
      BY <1>2, <1>5, CoveredIsFound
    <3>3. rel \in Found(rules)
      BY <3>1 DEF Found
    <3> QED BY <3>2, <3>3
  <2>2. CASE S # {}
    <3>1. PICK k \in S : \A h \in S : k <= h
      BY <2>0, <2>2, Least
    <3>2. <<k, j>> \in Compared(rules)
      <4> SUFFICES ASSUME NEW h \in Active(rules), h < k PROVE ~Shadows(rules, h, j)
        BY DEF Compared
      <4>1. h \in Nat /\ k \in Nat /\ k < j
        BY <1>0, <2>0 DEF Active
      <4> QED BY <1>1, <3>1, <4>1
    <3>3. PICK rel \in KindOf(rules, k, j) : rel.kind = "shadowed"
      BY DEF Shadows
    <3>4. rel.subject = j
      BY <3>3, KindIs
    <3>5. rel \in Found(rules)
      BY <3>2 DEF Found
    <3> QED BY <3>3, <3>4, <3>5
  <2> QED BY <2>1, <2>2
<1>7. Kept(rules) = Found(rules)
  BY <1>0, AllKept
<1> QED BY <1>6, <1>7, KeptIsShown

\* A redundant rule shown is shown with every rule that it shadows.
LEMMA ShownIs ==
    ASSUME NEW R, NEW x \in Analyse(R).shown
    PROVE  /\ x.rel \in Kept(R)
           /\ x.rel.kind = "redundant" =>
                 \A s \in Kept(R) : (s.kind = "shadowed" /\ s.cause = x.rel.subject) => s.subject \in x.shadows
<1> DEFINE Caveat(a) == {s.subject : s \in {s \in Kept(R) :
                        a.kind = "redundant" /\ s.kind = "shadowed" /\ s.cause = a.subject}}
<1>1. PICK r \in Kept(R) : x = [rel |-> r, shadows |-> Caveat(r)]
  BY DEF Analyse
<1>2. x.rel = r /\ x.shadows = Caveat(r)
  BY <1>1
<1>3. ASSUME r.kind = "redundant", NEW s \in Kept(R), s.kind = "shadowed", s.cause = r.subject
      PROVE  s.subject \in Caveat(r)
  BY <1>3
<1> HIDE DEF Caveat
<1> QED BY <1>2, <1>3

\* Where taking a rule away changes the verdict, the rule decided.
LEMMA OnlyTheDecider ==
    ASSUME NEW R \in Seq(RuleShapes), NEW k, NEW p,
           Verdict(R, Active(R), p) # Verdict(R, Active(R) \ {k}, p)
    PROVE  /\ k \in Active(R) /\ Terminates(R[k]) /\ Hits(R[k], p)
           /\ \A i \in Active(R) : Terminates(R[i]) /\ Hits(R[i], p) => k <= i
           /\ (\E i \in Active(R) \ {k} : Terminates(R[i]) /\ Hits(R[i], p)) =>
                 \E d \in Active(R) :
                    /\ d # k /\ Terminates(R[d]) /\ Hits(R[d], p) /\ R[d].action # R[k].action
                    /\ \A i \in Active(R) \ {k} : Terminates(R[i]) /\ Hits(R[i], p) => d <= i
<1> DEFINE D == {i \in Active(R) : Terminates(R[i]) /\ Hits(R[i], p)}
           E == {i \in Active(R) \ {k} : Terminates(R[i]) /\ Hits(R[i], p)}
           v == D # {} /\ Permits(R[Min(D)])
           w == E # {} /\ Permits(R[Min(E)])
<1>1. Verdict(R, Active(R), p) = v /\ Verdict(R, Active(R) \ {k}, p) = w
  BY DEF Verdict
<1>2. D \in SUBSET Nat /\ E \in SUBSET Nat
  BY DEF Active
<1>3. E = D \ {k}
  OBVIOUS
<1>4. v # w
  BY <1>1
<1>5. k \in D
  <2> SUFFICES ASSUME k \notin D PROVE FALSE
    OBVIOUS
  <2>1. D = E
    BY <1>3
  <2> HIDE DEF D, E
  <2> QED BY <1>4, <2>1
<1> HIDE DEF D, E
<1>6. Min(D) \in D /\ \A i \in D : Min(D) <= i
  BY <1>2, <1>5, SmallestOf
<1>7. Min(D) = k
  <2> SUFFICES ASSUME Min(D) # k PROVE FALSE
    OBVIOUS
  <2>1. E # {} /\ Min(D) \in E
    BY <1>3, <1>6
  <2>2. Min(E) \in E /\ \A i \in E : Min(E) <= i
    BY <1>2, <2>1, SmallestOf
  <2>3. Min(E) = Min(D)
    <3>1. Min(D) \in Nat /\ Min(E) \in Nat /\ Min(D) <= Min(E) /\ Min(E) <= Min(D)
      BY <1>2, <1>3, <1>6, <2>1, <2>2
    <3> QED BY <3>1
  <2> QED BY <1>4, <1>5, <2>1, <2>3
<1>8. ASSUME E # {} PROVE \E d \in E : R[d].action # R[k].action /\ \A i \in E : d <= i
  <2>1. Min(E) \in E /\ \A i \in E : Min(E) <= i
    BY <1>2, <1>8, SmallestOf
  <2>2. Permits(R[Min(E)]) # Permits(R[k])
    BY <1>4, <1>5, <1>7, <1>8
  <2>3. R[Min(E)].action # R[k].action
    BY <2>2 DEF Permits
  <2> QED BY <2>1, <2>3
<1> QED BY <1>5, <1>6, <1>7, <1>8 DEF D, E

\* A removal that would change a verdict is reported as such.
LEMMA RemovalExplained == RulesWritten => RemovalIsExplained
<1> SUFFICES ASSUME RulesWritten, ~Analyse(rules).truncated,
                    NEW x \in Analyse(rules).shown, x.rel.kind = "redundant",
                    NEW p \in Arriving,
                    Verdict(rules, Active(rules), p) # Verdict(rules, Active(rules) \ {x.rel.subject}, p)
             PROVE  \/ \E y \in x.shadows : y < x.rel.cause
                    \/ \E y \in Analyse(rules).shown :
                          /\ y.rel.kind \in {"correlated", "generalisation"}
                          /\ x.rel.subject \in {y.rel.subject, y.rel.cause}
                          /\ {y.rel.subject, y.rel.cause} \cap (x.rel.subject + 1 .. x.rel.cause - 1) # {}
  BY DEF RemovalIsExplained
<1>0. rules \in Seq(RuleShapes)
  BY DEF RulesWritten
<1> DEFINE rel == x.rel
           k == rel.subject
           m == rel.cause
<1>1. rel \in Kept(rules) /\ \A s \in Kept(rules) : s.kind = "shadowed" /\ s.cause = k => s.subject \in x.shadows
  BY ShownIs
<1>2. Verdict(rules, Active(rules), p) # Verdict(rules, Active(rules) \ {k}, p)
  OBVIOUS
<1>k. rel.kind = "redundant"
  OBVIOUS
<1> HIDE DEF rel, k, m
<1>3. PICK i, j \in Active(rules) : i < j /\ i \in DOMAIN rules /\ j \in DOMAIN rules /\ rel \in KindOf(rules, i, j)
  BY <1>0, <1>1, KeptIs
<1>4. i \in Nat /\ j \in Nat /\ rules[i] \in RuleShapes /\ rules[j] \in RuleShapes
  BY <1>0, <1>3
<1>5. /\ Comparable(rules[i], rules[j]) /\ rules[i].action = rules[j].action
      /\ \/ k = j /\ m = i /\ Covers(rules[i], rules[j])
         \/ k = i /\ m = j /\ Covers(rules[j], rules[i])
  BY <1>3, <1>k, KindIs DEF k, m
<1>6. /\ k \in Active(rules) /\ Terminates(rules[k]) /\ Hits(rules[k], p)
      /\ \A h \in Active(rules) : Terminates(rules[h]) /\ Hits(rules[h], p) => k <= h
  BY <1>0, <1>2, OnlyTheDecider
<1>7. /\ k \in Nat /\ m \in Nat /\ k # m /\ rules[k] \in RuleShapes /\ rules[m] \in RuleShapes /\ m \in Active(rules)
      /\ Covers(rules[m], rules[k]) /\ rules[k].action = rules[m].action /\ rules[m].rulebase = rules[k].rulebase
  BY <1>3, <1>4, <1>5 DEF Comparable
<1>8. Terminates(rules[m]) /\ Hits(rules[m], p)
  <2>1. Terminates(rules[m])
    BY <1>6, <1>7 DEF Terminates
  <2>2. p \in Packets /\ rules[m].enabled
    BY <1>7 DEF Arriving, Active
  <2> QED BY <1>6, <1>7, <2>1, <2>2, CoveredHits
<1>9. PICK d \in Active(rules) :
         /\ d # k /\ Terminates(rules[d]) /\ Hits(rules[d], p) /\ rules[d].action # rules[k].action
         /\ \A h \in Active(rules) \ {k} : Terminates(rules[h]) /\ Hits(rules[h], p) => d <= h
  BY <1>0, <1>2, <1>7, <1>8, OnlyTheDecider
<1>10. d \in Nat /\ d \in DOMAIN rules /\ k < d /\ d < m /\ rules[d] \in RuleShapes
  <2>1. d \in Nat /\ d \in DOMAIN rules /\ rules[d] \in RuleShapes
    BY <1>0 DEF Active
  <2>2. k <= d /\ d <= m /\ d # m
    BY <1>6, <1>7, <1>8, <1>9
  <2> QED BY <1>7, <1>9, <2>1, <2>2
<1>11. Comparable(rules[k], rules[d])
  <2>1. ZonesMeet(rules[k].src_zones, rules[d].src_zones) /\ ZonesMeet(rules[k].dst_zones, rules[d].dst_zones)
    BY <1>6, <1>9, ZonesOfArrival
  <2> QED BY <1>6, <1>9, <2>1, HitsMeet
<1>12. <<k, d>> \in Compared(rules)
  <2>1. ASSUME NEW h \in Active(rules), h < k, Shadows(rules, h, d) PROVE FALSE
    <3>1. PICK r \in KindOf(rules, h, d) : r.kind = "shadowed"
      BY <2>1 DEF Shadows
    <3>2. Comparable(rules[h], rules[d]) /\ Covers(rules[h], rules[d])
      BY <3>1, KindIs
    <3>3. rules[h] \in RuleShapes /\ rules[h].enabled /\ p \in Packets /\ h \in Nat
      BY <1>0 DEF Active, Arriving
    <3>4. rules[h].rulebase = rules[d].rulebase /\ Terminates(rules[h])
      BY <3>2 DEF Comparable
    <3>5. Hits(rules[h], p)
      BY <1>9, <1>10, <3>2, <3>3, <3>4, CoveredHits
    <3> QED BY <1>6, <1>7, <2>1, <3>3, <3>4, <3>5
  <2> QED BY <1>6, <1>9, <1>10, <2>1 DEF Compared
<1>13. Kept(rules) = Found(rules)
  BY <1>0, AllKept
<1>14. \A r \in KindOf(rules, k, d) : r \in Kept(rules)
  BY <1>12, <1>13 DEF Found
<1>15. CASE Covers(rules[k], rules[d])
  <2>1. PICK r \in KindOf(rules, k, d) : r.kind = "shadowed" /\ r.subject = d /\ r.cause = k
    BY <1>9, <1>11, <1>15, CoveredIsFound
  <2>2. d \in x.shadows
    BY <1>1, <1>14, <2>1
  <2> QED BY <1>10, <2>2 DEF m, rel
<1>16. CASE ~Covers(rules[k], rules[d])
  <2>1. ~IsCleanup(rules, d)
    BY <1>7, <1>10 DEF IsCleanup
  <2>2. PICK r \in KindOf(rules, k, d) : r.kind \in {"correlated", "generalisation"} /\ r.subject = d /\ r.cause = k
    BY <1>9, <1>11, <1>16, <2>1, OverlapIsFound
  <2>3. PICK y \in Analyse(rules).shown : y.rel = r
    BY <1>14, KeptIsShown
  <2>4. d \in k + 1 .. m - 1
    BY <1>7, <1>10
  <2> QED BY <2>2, <2>3, <2>4 DEF k, m, rel
<1> QED BY <1>15, <1>16

\* Whatever the rulebase, the rules reported dead are the dead ones, and a
\* removal that would change a verdict is marked as such.
THEOREM DeadRulesAreReported == RulesSpec => []DeadRulesAreExact
<1>1. RulesWritten => DeadRulesAreExact
  BY DeadAreDead, DeadAreReported, RemovalExplained DEF DeadRulesAreExact
<1> QED BY <1>1, RulesStayWritten, PTL

-----------------------------------------------------------------------------
(* Reviews of single rules *)

\* What a name reads as: addresses, or nothing that can be read.
Content == (SUBSET All) \cup {Cut}

LEMMA GroupIs ==
    ASSUME NEW read \in [Name -> Content], NEW g \in DOMAIN Members
    PROVE  /\ OfGroup(read, g) \in Content
           /\ OfGroup(read, g) = Cut <=> Members[g] # {} /\ \A m \in Members[g] : read[m] = Cut
           /\ OfGroup(read, g) # Cut => OfGroup(read, g) = UNION {read[m] : m \in {m \in Members[g] : read[m] # Cut}}
<1> DEFINE parts == {read[m] : m \in Members[g]} \ {Cut}
<1>1. Members[g] \subseteq Name
  BY ReviewAssumption
<1>2. parts = {read[m] : m \in {m \in Members[g] : read[m] # Cut}}
  OBVIOUS
<1>3. parts \subseteq SUBSET All
  BY <1>1 DEF Content
<1>4. OfGroup(read, g) = IF parts = {} /\ Members[g] # {} THEN Cut ELSE UNION parts
  BY DEF OfGroup
<1>5. parts = {} <=> \A m \in Members[g] : read[m] = Cut
  OBVIOUS
<1>6. UNION parts \in SUBSET All
  BY <1>3
<1>7. UNION parts # Cut
  BY <1>6, ReviewAssumption
<1> HIDE DEF parts
<1> QED BY <1>2, <1>4, <1>5, <1>6, <1>7 DEF Content

LEMMA DeeperIs ==
    ASSUME NEW read \in [Name -> Content], NEW unread
    PROVE  /\ Deeper(read, unread) \in [Name -> Content]
           /\ \A n \in Name : Deeper(read, unread)[n] =
                 IF n \in DOMAIN Holds THEN IF n \in unread THEN Cut ELSE Holds[n] ELSE OfGroup(read, n)
<1>1. \A n \in Name : n \notin DOMAIN Holds => n \in DOMAIN Members
  BY DEF Name
<1>2. \A n \in Name : Deeper(read, unread)[n] =
         IF n \in DOMAIN Holds THEN IF n \in unread THEN Cut ELSE Holds[n] ELSE OfGroup(read, n)
  BY DEF Deeper
<1>3. \A n \in Name : Deeper(read, unread)[n] \in Content
  <2> TAKE n \in Name
  <2>1. n \in DOMAIN Holds => Holds[n] \in Content
    BY ReviewAssumption DEF Content
  <2>2. n \notin DOMAIN Holds => OfGroup(read, n) \in Content
    BY <1>1, GroupIs
  <2>3. Cut \in Content
    BY DEF Content
  <2> QED BY <1>2, <2>1, <2>2, <2>3
<1>4. Deeper(read, unread) = [n \in Name |-> Deeper(read, unread)[n]]
  BY DEF Deeper
<1> QED BY <1>2, <1>3, <1>4

\* The levels a name is read through.
Levels(f, unread) ==
    /\ f \in [0 .. MaxDepth + 1 -> [Name -> Content]]
    /\ f[0] = [n \in Name |-> Cut]
    /\ \A k \in 1 .. MaxDepth + 1 : f[k] = Deeper(f[k - 1], unread)
    /\ Reading(unread) = f[MaxDepth + 1]

LEMMA ReadingIs == \A unread : \E f : Levels(f, unread)
<1> SUFFICES ASSUME NEW unread PROVE \E f : Levels(f, unread)
  OBVIOUS
<1> DEFINE n == MaxDepth + 1
           S == [Name -> Content]
           base == [m \in Name |-> Cut]
           step == [x \in (1 .. n) \X S |-> Deeper(x[2], unread)]
           Eq(f) == f = [k \in 0 .. n |-> IF k = 0 THEN base ELSE Deeper(f[k - 1], unread)]
<1>1. n \in Nat /\ base \in S
  BY ReviewAssumption DEF Content
<1>2. step \in [(1 .. n) \X S -> S]
  BY DeeperIs
<1>3. Reading(unread) = (CHOOSE f : Eq(f))[n]
  BY DEF Reading
<1>4. PICK f \in [0 .. n -> S] : f[0] = base /\ \A k \in 1 .. n : f[k] = step[<<k, f[k - 1]>>]
  <2> HIDE DEF n, S, base, step
  <2>1. Loop(n, S, base, step)
    BY <1>1, <1>2 DEF Loop
  <2> QED BY <2>1, LoopExists
<1>5. \A k \in 1 .. n : f[k] = Deeper(f[k - 1], unread)
  <2> TAKE k \in 1 .. n
  <2>1. k - 1 \in 0 .. n
    BY <1>1
  <2>2. f[k - 1] \in S
    BY <1>4, <2>1
  <2> HIDE DEF S, n
  <2>3. <<k, f[k - 1]>> \in (1 .. n) \X S
    BY <2>2
  <2> QED BY <1>4, <2>3
<1>6. Eq(f)
  <2> HIDE DEF S, base
  <2>1. \A k \in 0 .. n : f[k] = IF k = 0 THEN base ELSE Deeper(f[k - 1], unread)
    BY <1>1, <1>4, <1>5
  <2> QED BY <1>4, <2>1
<1>7. Eq(CHOOSE g : Eq(g))
  <2> HIDE DEF Eq
  <2> QED BY <1>6
<1> DEFINE g == CHOOSE h : Eq(h)
<1> HIDE DEF g
<1>8. g = [k \in 0 .. n |-> IF k = 0 THEN base ELSE Deeper(g[k - 1], unread)] /\ Reading(unread) = g[n]
  BY <1>3, <1>7 DEF g
<1> DEFINE T == {k \in 0 .. n : g[k] = f[k]}
<1>9. \A k \in 0 .. n : g[k] = IF k = 0 THEN base ELSE Deeper(g[k - 1], unread)
  BY <1>8
<1>10. \A k \in 0 .. n : k \in T
  <2> HIDE DEF S, base
  <2>1. 0 \in T
    BY <1>1, <1>4, <1>9
  <2>2. \A k \in 1 .. n : k - 1 \in T => k \in T
    BY <1>1, <1>5, <1>9
  <2> HIDE DEF T, n
  <2> QED BY <1>1, <2>1, <2>2, LoopInduction
<1>11. Reading(unread) = f[n]
  BY <1>1, <1>8, <1>10
<1> HIDE DEF base
<1>12. f \in [0 .. MaxDepth + 1 -> [Name -> Content]]
  BY <1>4
<1> QED BY <1>4, <1>5, <1>11, <1>12 DEF Levels, base

Listed == Seq(Name \cup {"any"})

LEMMA ConsultedListed ==
    ASSUME NEW list \in Listed, NEW read
    PROVE  Consulted(list, read) \ {"any"} \in SUBSET Name
BY DEF Consulted, Listed

\* The levels of groups a list leads into.
MembersOf(g) == IF g \in DOMAIN Members THEN Members[g] ELSE {}
Below(S) == S \cup UNION {MembersOf(g) : g \in S}

Reaches(f, list, read) ==
    /\ f \in [0 .. MaxDepth -> SUBSET Name]
    /\ f[0] = Consulted(list, read) \ {"any"}
    /\ \A k \in 1 .. MaxDepth : f[k] = Below(f[k - 1])
    /\ LookedUp(list, read) = f[MaxDepth]

LEMMA ReachIs == \A list \in Listed : \A read : \E f : Reaches(f, list, read)
<1> SUFFICES ASSUME NEW list \in Listed, NEW read PROVE \E f : Reaches(f, list, read)
  OBVIOUS
<1> DEFINE n == MaxDepth
           S == SUBSET Name
           base == Consulted(list, read) \ {"any"}
           step == [x \in (1 .. n) \X S |-> Below(x[2])]
           Eq(f) == f = [k \in 0 .. n |-> IF k = 0 THEN base ELSE
                            f[k - 1] \cup UNION {Members[g] : g \in f[k - 1] \cap DOMAIN Members}]
<1>1. n \in Nat /\ base \in S
  BY ConsultedListed, ReviewAssumption
<1>2. \A X : Below(X) = X \cup UNION {Members[g] : g \in X \cap DOMAIN Members}
  BY DEF Below, MembersOf
<1>3. step \in [(1 .. n) \X S -> S]
  <2>1. \A X \in S : Below(X) \in S
    BY ReviewAssumption DEF Below, MembersOf
  <2> QED BY <2>1
<1>4. LookedUp(list, read) = (CHOOSE f : Eq(f))[n]
  BY DEF LookedUp
<1>5. PICK f \in [0 .. n -> S] : f[0] = base /\ \A k \in 1 .. n : f[k] = step[<<k, f[k - 1]>>]
  <2> HIDE DEF n, S, base, step
  <2>1. Loop(n, S, base, step)
    BY <1>1, <1>3 DEF Loop
  <2> QED BY <2>1, LoopExists
<1>6. \A k \in 1 .. n : f[k] = Below(f[k - 1])
  <2> TAKE k \in 1 .. n
  <2>1. k - 1 \in 0 .. n
    BY <1>1
  <2>2. f[k - 1] \in S
    BY <1>5, <2>1
  <2> HIDE DEF S, n
  <2>3. <<k, f[k - 1]>> \in (1 .. n) \X S
    BY <2>2
  <2> QED BY <1>5, <2>3
<1>7. Eq(f)
  <2> HIDE DEF S, base
  <2>1. \A k \in 0 .. n : f[k] = IF k = 0 THEN base ELSE
                            f[k - 1] \cup UNION {Members[g] : g \in f[k - 1] \cap DOMAIN Members}
    BY <1>1, <1>2, <1>5, <1>6
  <2> QED BY <1>5, <2>1
<1>8. Eq(CHOOSE g : Eq(g))
  <2> HIDE DEF Eq
  <2> QED BY <1>7
<1> DEFINE g == CHOOSE h : Eq(h)
<1> HIDE DEF g
<1>9. Eq(g) /\ LookedUp(list, read) = g[n]
  BY <1>4, <1>8 DEF g
<1>10. \A k \in 0 .. n : g[k] = IF k = 0 THEN base ELSE Below(g[k - 1])
  <2>1. \A k \in 0 .. n : g[k] = IF k = 0 THEN base ELSE
                            g[k - 1] \cup UNION {Members[x] : x \in g[k - 1] \cap DOMAIN Members}
    BY <1>9
  <2> HIDE DEF base, Eq
  <2> QED BY <1>2, <2>1
<1> DEFINE T == {k \in 0 .. n : g[k] = f[k]}
<1>11. \A k \in 0 .. n : k \in T
  <2> HIDE DEF S, base, Eq
  <2>1. 0 \in T
    BY <1>1, <1>5, <1>10
  <2>2. \A k \in 1 .. n : k - 1 \in T => k \in T
    BY <1>1, <1>6, <1>10
  <2> HIDE DEF T, n
  <2> QED BY <1>1, <2>1, <2>2, LoopInduction
<1>12. LookedUp(list, read) = f[n]
  <2> HIDE DEF S, base, Eq
  <2> QED BY <1>1, <1>9, <1>11
<1> HIDE DEF base, Eq
<1>13. f \in [0 .. MaxDepth -> SUBSET Name]
  BY <1>5
<1> QED BY <1>5, <1>6, <1>12, <1>13 DEF Reaches, base

LEMMA SameGroup ==
    ASSUME NEW r, NEW s, NEW g, \A m \in Members[g] : r[m] = s[m]
    PROVE  OfGroup(r, g) = OfGroup(s, g)
<1>1. {r[m] : m \in Members[g]} = {s[m] : m \in Members[g]}
  OBVIOUS
<1> QED BY <1>1 DEF OfGroup

\* What a list stands for depends on the names it leads to alone.
LEMMA SameReading ==
    ASSUME NEW list \in Listed, NEW u, NEW v,
           \A n \in LookedUp(list, Reading(u)) \cap DOMAIN Holds : n \in u <=> n \in v
    PROVE  \A n \in Consulted(list, Reading(u)) \ {"any"} : Reading(u)[n] = Reading(v)[n]
<1> DEFINE M == MaxDepth
<1>0. M \in Nat
  BY ReviewAssumption
<1>1. PICK f : Levels(f, u)
  BY ReadingIs
<1>2. PICK h : Levels(h, v)
  BY ReadingIs
<1> DEFINE ru == Reading(u)
<1>3. PICK reach : Reaches(reach, list, ru)
  <2> HIDE DEF ru
  <2> QED BY ReachIs
<1>4. \A k \in 0 .. M : reach[k] \in SUBSET Name
  BY <1>3 DEF Reaches
<1>5. \A k \in 0 .. M : \A n \in Name :
        /\ f[k + 1][n] = IF n \in DOMAIN Holds THEN IF n \in u THEN Cut ELSE Holds[n] ELSE OfGroup(f[k], n)
        /\ h[k + 1][n] = IF n \in DOMAIN Holds THEN IF n \in v THEN Cut ELSE Holds[n] ELSE OfGroup(h[k], n)
  <2> TAKE k \in 0 .. M
  <2>1. k + 1 \in 1 .. MaxDepth + 1 /\ (k + 1) - 1 = k /\ k \in 0 .. MaxDepth + 1
    BY <1>0
  <2>2. f[k + 1] = Deeper(f[k], u) /\ h[k + 1] = Deeper(h[k], v)
    BY <1>1, <1>2, <2>1 DEF Levels
  <2>3. f[k] \in [Name -> Content] /\ h[k] \in [Name -> Content]
    BY <1>1, <1>2, <2>1 DEF Levels
  <2> QED BY <2>2, <2>3, DeeperIs
<1> DEFINE T == {k \in 0 .. M : \A n \in reach[M - k] : f[k + 1][n] = h[k + 1][n]}
<1>6. 0 \in T
  <2>1. \A n \in reach[M] : f[0 + 1][n] = h[0 + 1][n]
    <3> SUFFICES ASSUME NEW n \in reach[M] PROVE f[0 + 1][n] = h[0 + 1][n]
      OBVIOUS
    <3>1. n \in Name /\ 0 \in 0 .. M
      BY <1>0, <1>4
    <3>2. f[0] = h[0]
      BY <1>1, <1>2 DEF Levels
    <3>3. n \in DOMAIN Holds => (n \in u <=> n \in v)
      BY <1>3 DEF Reaches
    <3> QED BY <1>5, <3>1, <3>2, <3>3
  <2> QED BY <1>0, <2>1
<1>7. ASSUME NEW k \in 1 .. M, k - 1 \in T PROVE k \in T
  <2> SUFFICES ASSUME NEW n \in reach[M - k] PROVE f[k + 1][n] = h[k + 1][n]
    BY <1>0
  <2>1. k - 1 \in 0 .. M /\ k \in 0 .. M /\ (k - 1) + 1 = k /\ M - (k - 1) \in 1 .. M
        /\ (M - (k - 1)) - 1 = M - k /\ M - k \in 0 .. M
    BY <1>0
  <2>2. \A m \in reach[M - (k - 1)] : f[k][m] = h[k][m]
    BY <1>7, <2>1
  <2>3. reach[M - (k - 1)] = Below(reach[M - k])
    BY <1>3, <2>1 DEF Reaches
  <2>4. n \in Name
    BY <1>4, <2>1
  <2>5. CASE n \in DOMAIN Holds
    <3>1. f[k][n] = h[k][n]
      BY <2>2, <2>3 DEF Below
    <3>2. f[k][n] = (IF n \in u THEN Cut ELSE Holds[n]) /\ h[k][n] = (IF n \in v THEN Cut ELSE Holds[n])
      BY <1>5, <2>1, <2>4, <2>5
    <3>3. f[k + 1][n] = (IF n \in u THEN Cut ELSE Holds[n]) /\ h[k + 1][n] = (IF n \in v THEN Cut ELSE Holds[n])
      BY <1>5, <2>1, <2>4, <2>5
    <3> QED BY <3>1, <3>2, <3>3
  <2>6. CASE n \notin DOMAIN Holds
    <3>1. n \in DOMAIN Members
      BY <2>4, <2>6 DEF Name
    <3>2. Members[n] \subseteq reach[M - (k - 1)]
      BY <2>3, <3>1 DEF Below, MembersOf
    <3>3. \A m \in Members[n] : f[k][m] = h[k][m]
      BY <2>2, <3>2
    <3>4. OfGroup(f[k], n) = OfGroup(h[k], n)
      BY <3>3, SameGroup
    <3>5. f[k + 1][n] = OfGroup(f[k], n) /\ h[k + 1][n] = OfGroup(h[k], n)
      BY <1>5, <2>1, <2>4, <2>6
    <3> QED BY <3>4, <3>5
  <2> QED BY <2>5, <2>6
<1>8. M \in T
  <2> HIDE DEF T, M
  <2>1. \A k \in 0 .. M : k \in T
    BY <1>0, <1>6, <1>7, LoopInduction
  <2> QED BY <1>0, <2>1
<1>9. \A n \in reach[0] : f[M + 1][n] = h[M + 1][n]
  BY <1>0, <1>8
<1> QED BY <1>1, <1>2, <1>3, <1>9 DEF Levels, Reaches

LEMMA SameConsulted ==
    ASSUME NEW list \in Listed, NEW r, NEW s, \A n \in Consulted(list, r) \ {"any"} : r[n] = s[n]
    PROVE  Consulted(list, s) = Consulted(list, r) /\ Expanded(list, s) = Expanded(list, r)
<1>1. \A n \in Consulted(list, r) : Ends(n, r) <=> Ends(n, s)
  BY DEF Ends
<1> DEFINE Up(i, x) == \A j \in DOMAIN list : j < i => ~Ends(list[j], x)
<1>2. \A i \in DOMAIN list : Up(i, r) => list[i] \in Consulted(list, r)
  BY DEF Consulted
<1>3. \A i \in DOMAIN list : i \in Nat
  BY DEF Listed
<1>4. ASSUME NEW i \in DOMAIN list, Up(i, r) PROVE Up(i, s)
  <2> SUFFICES ASSUME NEW j \in DOMAIN list, j < i PROVE ~Ends(list[j], s)
    OBVIOUS
  <2>1. Up(j, r)
    BY <1>3, <1>4
  <2>2. list[j] \in Consulted(list, r)
    BY <1>2, <2>1
  <2> QED BY <1>1, <1>4, <2>2
<1>5. ASSUME NEW i \in DOMAIN list, Up(i, s) PROVE Up(i, r)
  <2> SUFFICES ASSUME ~Up(i, r) PROVE FALSE
    OBVIOUS
  <2> DEFINE B == {j \in DOMAIN list : j < i /\ Ends(list[j], r)}
  <2>1. B \in SUBSET Nat /\ B # {}
    BY <1>3
  <2>2. PICK j \in B : \A q \in B : j <= q
    <3> HIDE DEF B
    <3> QED BY <2>1, Least
  <2>3. Up(j, r)
    <3> SUFFICES ASSUME NEW q \in DOMAIN list, q < j PROVE ~Ends(list[q], r)
      OBVIOUS
    <3>1. q \in Nat /\ j \in Nat /\ i \in Nat /\ j < i
      BY <1>3
    <3>2. q \notin B
      <4> HIDE DEF B
      <4>1. ~(j <= q)
        BY <3>1
      <4> QED BY <2>2, <4>1
    <3> QED BY <3>1, <3>2
  <2>4. list[j] \in Consulted(list, r)
    BY <1>2, <2>3
  <2> QED BY <1>1, <1>5, <2>4
<1>6. Consulted(list, s) = Consulted(list, r)
  BY <1>4, <1>5 DEF Consulted
<1>7. Expanded(list, s) = Expanded(list, r)
  <2> DEFINE C == Consulted(list, r)
             R == {n \in C \ {"any"} : r[n] # Cut}
             S == {n \in C \ {"any"} : s[n] # Cut}
  <2>1. R = S
    OBVIOUS
  <2>2. UNION {r[n] : n \in R} = UNION {s[n] : n \in S}
    BY <2>1
  <2>3. (\E n \in C : Ends(n, r)) <=> (\E n \in C : Ends(n, s))
    BY <1>1
  <2>4. Expanded(list, r) = [set |-> IF \E n \in C : Ends(n, r) THEN All ELSE UNION {r[n] : n \in R}, missing |-> C \ {"any"} # R]
    BY DEF Expanded
  <2>5. Expanded(list, s) = [set |-> IF \E n \in C : Ends(n, s) THEN All ELSE UNION {s[n] : n \in S}, missing |-> C \ {"any"} # S]
    BY <1>6 DEF Expanded
  <2> DEFINE a == IF \E n \in C : Ends(n, r) THEN All ELSE UNION {r[n] : n \in R}
             b == IF \E n \in C : Ends(n, s) THEN All ELSE UNION {s[n] : n \in S}
  <2>6. a = b
    <3> HIDE DEF R, S, C
    <3> QED BY <2>2, <2>3
  <2>7. Expanded(list, r) = [set |-> a, missing |-> C \ {"any"} # R]
    BY <2>4
  <2>8. Expanded(list, s) = [set |-> b, missing |-> C \ {"any"} # S]
    BY <2>5
  <2> HIDE DEF R, S, C, a, b
  <2> QED BY <2>1, <2>6, <2>7, <2>8
<1> QED BY <1>6, <1>7

\* What is read with names unread is part of what the device reads.
LEMMA MoreIsRead ==
    ASSUME NEW u
    PROVE  /\ Reading(u) \in [Name -> Content]
           /\ \A n \in Name : Reading(u)[n] # Cut => Reading({})[n] # Cut /\ Reading(u)[n] \subseteq Reading({})[n]
<1> DEFINE M == MaxDepth + 1
<1>0. M \in Nat
  BY ReviewAssumption
<1>1. PICK f : Levels(f, u)
  BY ReadingIs
<1>2. PICK h : Levels(h, {})
  BY ReadingIs
<1>3. \A k \in 0 .. M : f[k] \in [Name -> Content] /\ h[k] \in [Name -> Content]
  BY <1>1, <1>2 DEF Levels
<1> DEFINE Grows(k) == \A n \in Name : f[k][n] # Cut => h[k][n] # Cut /\ f[k][n] \subseteq h[k][n]
           T == {k \in 0 .. M : Grows(k)}
<1>4. 0 \in T
  BY <1>0, <1>1 DEF Levels
<1>5. ASSUME NEW k \in 1 .. M, k - 1 \in T PROVE k \in T
  <2>1. k - 1 \in 0 .. M /\ k \in 0 .. M
    BY <1>0
  <2>2. f[k] = Deeper(f[k - 1], u) /\ h[k] = Deeper(h[k - 1], {})
    BY <1>1, <1>2 DEF Levels
  <2>3. Grows(k - 1)
    BY <1>5
  <2>4. ASSUME NEW n \in Name, f[k][n] # Cut PROVE h[k][n] # Cut /\ f[k][n] \subseteq h[k][n]
    <3>1. f[k][n] = IF n \in DOMAIN Holds THEN IF n \in u THEN Cut ELSE Holds[n] ELSE OfGroup(f[k - 1], n)
      BY <1>3, <2>1, <2>2, DeeperIs
    <3>2. h[k][n] = IF n \in DOMAIN Holds THEN IF n \in {} THEN Cut ELSE Holds[n] ELSE OfGroup(h[k - 1], n)
      BY <1>3, <2>1, <2>2, DeeperIs
    <3>3. CASE n \in DOMAIN Holds
      BY <2>4, <3>1, <3>2, <3>3
    <3>4. CASE n \notin DOMAIN Holds
      <4>1. n \in DOMAIN Members /\ Members[n] \subseteq Name
        BY <3>4, ReviewAssumption DEF Name
      <4> DEFINE r == f[k - 1]
                 s == h[k - 1]
      <4>2. r \in [Name -> Content] /\ s \in [Name -> Content]
        BY <1>3, <2>1
      <4>3. \A m \in Members[n] : r[m] # Cut => s[m] # Cut /\ r[m] \subseteq s[m]
        BY <2>3, <4>1
      <4>4. OfGroup(r, n) # Cut
        BY <2>4, <3>1, <3>4
      <4>5. f[k][n] = OfGroup(r, n) /\ h[k][n] = OfGroup(s, n)
        BY <3>1, <3>2, <3>4
      <4> HIDE DEF r, s
      <4>6. OfGroup(s, n) # Cut
        BY <4>1, <4>2, <4>3, <4>4, GroupIs
      <4>7. OfGroup(r, n) = UNION {r[m] : m \in {m \in Members[n] : r[m] # Cut}}
        BY <4>1, <4>2, <4>4, GroupIs
      <4>8. OfGroup(s, n) = UNION {s[m] : m \in {m \in Members[n] : s[m] # Cut}}
        BY <4>1, <4>2, <4>6, GroupIs
      <4>9. OfGroup(r, n) \subseteq OfGroup(s, n)
        BY <4>3, <4>7, <4>8
      <4> QED BY <4>5, <4>6, <4>9
    <3> QED BY <3>3, <3>4
  <2> QED BY <2>1, <2>4
<1>6. M \in T
  <2> HIDE DEF T, M
  <2>1. \A k \in 0 .. M : k \in T
    BY <1>0, <1>4, <1>5, LoopInduction
  <2> QED BY <1>0, <2>1
<1>7. Reading(u) = f[M] /\ Reading({}) = h[M] /\ f[M] \in [Name -> Content]
  BY <1>0, <1>1, <1>2, <1>3 DEF Levels
<1> QED BY <1>6, <1>7

LEMMA AllConsulted ==
    ASSUME NEW list \in Listed, NEW r, \A n \in Consulted(list, r) : ~Ends(n, r)
    PROVE  \A i \in DOMAIN list : list[i] \in Consulted(list, r) /\ ~Ends(list[i], r)
<1> DEFINE B == {j \in DOMAIN list : Ends(list[j], r)}
<1>1. B \in SUBSET Nat
  BY DEF Listed
<1>2. B = {}
  <2> SUFFICES ASSUME B # {} PROVE FALSE
    OBVIOUS
  <2>1. PICK j \in B : \A q \in B : j <= q
    <3> HIDE DEF B
    <3> QED BY <1>1, Least
  <2>2. \A q \in DOMAIN list : q < j => ~Ends(list[q], r)
    <3> SUFFICES ASSUME NEW q \in DOMAIN list, q < j, q \in B PROVE FALSE
      OBVIOUS
    <3>1. q \in Nat /\ j \in Nat
      BY <1>1
    <3> HIDE DEF B
    <3> QED BY <2>1, <3>1
  <2> QED BY <2>1, <2>2 DEF Consulted
<1> QED BY <1>2 DEF Consulted

LEMMA ExpandedGrows ==
    ASSUME NEW list \in Listed, NEW r \in [Name -> Content], NEW s \in [Name -> Content],
           \A n \in Name : r[n] # Cut => s[n] # Cut /\ r[n] \subseteq s[n]
    PROVE  Expanded(list, r).set \subseteq Expanded(list, s).set /\ Expanded(list, s).set \subseteq All
<1> DEFINE Of(x) == UNION {x[n] : n \in {n \in Consulted(list, x) \ {"any"} : x[n] # Cut}}
<1>1. ASSUME NEW x \in [Name -> Content]
      PROVE  /\ Expanded(list, x).set = IF \E n \in Consulted(list, x) : Ends(n, x) THEN All ELSE Of(x)
             /\ Of(x) \subseteq All
  <2>1. \A n \in Consulted(list, x) \ {"any"} : n \in Name
    BY ConsultedListed
  <2>2. \A n \in Consulted(list, x) \ {"any"} : x[n] # Cut => x[n] \subseteq All
    BY <2>1 DEF Content
  <2> QED BY <2>2 DEF Expanded
<1>2. CASE \E n \in Consulted(list, s) : Ends(n, s)
  BY <1>1, <1>2
<1>3. CASE ~ \E n \in Consulted(list, s) : Ends(n, s)
  <2>1. \A i \in DOMAIN list : list[i] \in Consulted(list, s) /\ ~Ends(list[i], s)
    BY <1>3, AllConsulted
  <2>2. \A i \in DOMAIN list : ~Ends(list[i], r)
    <3> SUFFICES ASSUME NEW i \in DOMAIN list, Ends(list[i], r) PROVE FALSE
      OBVIOUS
    <3>1. list[i] # "any"
      BY <2>1 DEF Ends
    <3>2. list[i] \in Name
      BY <3>1 DEF Listed
    <3> QED BY <2>1, <3>1, <3>2 DEF Ends, IsEvery
  <2>3. Consulted(list, r) = Consulted(list, s)
    BY <2>1, <2>2 DEF Consulted
  <2>4. ~ \E n \in Consulted(list, r) : Ends(n, r)
    BY <2>2 DEF Consulted
  <2>5. \A n \in Consulted(list, r) \ {"any"} : n \in Name
    BY ConsultedListed
  <2>6. Of(r) \subseteq Of(s)
    BY <2>3, <2>5
  <2> HIDE DEF Of
  <2> QED BY <1>1, <1>3, <2>4, <2>6
<1> QED BY <1>2, <1>3

\* What the review reads of a side is part of it, and all when nothing was lost.
LEMMA SideIs ==
    ASSUME NEW list \in Listed, NEW u
    PROVE  /\ Expanded(list, Reading(u)).set \subseteq Expanded(list, Reading({})).set
           /\ Expanded(list, Reading({})).set \subseteq All
           /\ LookedUp(list, Reading({})) \cap u = {} => Expanded(list, Reading(u)) = Expanded(list, Reading({}))
<1> DEFINE r == Reading(u)
           s == Reading({})
<1>1. r \in [Name -> Content] /\ s \in [Name -> Content]
      /\ \A n \in Name : r[n] # Cut => s[n] # Cut /\ r[n] \subseteq s[n]
  BY MoreIsRead
<1>2. ASSUME LookedUp(list, s) \cap u = {} PROVE Expanded(list, r) = Expanded(list, s)
  <2>1. \A n \in LookedUp(list, Reading({})) \cap DOMAIN Holds : n \in {} <=> n \in u
    BY <1>2
  <2>2. \A n \in Consulted(list, s) \ {"any"} : s[n] = r[n]
    BY <2>1, SameReading
  <2> HIDE DEF r, s
  <2> QED BY <2>2, SameConsulted
<1> HIDE DEF r, s
<1>3. Expanded(list, r).set \subseteq Expanded(list, s).set /\ Expanded(list, s).set \subseteq All
  BY <1>1, ExpandedGrows
<1> QED BY <1>2, <1>3 DEF r, s

\* The block under review is one that may be written.
ReviewType ==
    /\ reviewed.rules \in Seq(RuleForms)
    /\ \E b \in Blocks : reviewed = [rules |-> reviewed.rules, unread |-> b.unread, table |-> b.table, nat |-> b.nat,
                                    outside |-> b.outside, comments |-> b.comments]

LEMMA ReviewStarts == ReviewInit => ReviewType
BY DEF ReviewInit, ReviewType

LEMMA ReviewStays == ReviewType /\ [ReviewNext]_reviewed => ReviewType'
<1> SUFFICES ASSUME ReviewType, [ReviewNext]_reviewed PROVE ReviewType'
  OBVIOUS
<1>1. CASE ReviewNext
  <2>1. PICK r \in RuleForms : reviewed' = [reviewed EXCEPT !.rules = Append(@, r)]
    BY <1>1 DEF ReviewNext, WriteRule
  <2> DEFINE rs == reviewed.rules
             more == Append(rs, r)
  <2>2. PICK b \in Blocks : reviewed = [rules |-> rs, unread |-> b.unread, table |-> b.table, nat |-> b.nat,
                                      outside |-> b.outside, comments |-> b.comments]
    BY DEF ReviewType
  <2>3. rs \in Seq(RuleForms)
    BY DEF ReviewType
  <2>4. reviewed' = [reviewed EXCEPT !.rules = more]
    BY <2>1
  <2> HIDE DEF rs
  <2>5. more \in Seq(RuleForms)
    BY <2>3
  <2> HIDE DEF more
  <2>6. reviewed' = [rules |-> more, unread |-> b.unread, table |-> b.table, nat |-> b.nat,
                     outside |-> b.outside, comments |-> b.comments]
    BY <2>2, <2>4
  <2>7. reviewed'.rules = more
    BY <2>6
  <2> QED BY <2>5, <2>6, <2>7 DEF ReviewType
<1>2. CASE UNCHANGED reviewed
  BY <1>2 DEF ReviewType
<1> QED BY <1>1, <1>2

LEMMA ReviewTyped == ReviewSpec => []ReviewType
BY ReviewStarts, ReviewStays, PTL DEF ReviewSpec

\* What a rule is resolved to.
SideOf(list, negated, u) ==
    IF negated THEN All \ Expanded(list, Reading(u)).set ELSE Expanded(list, Reading(u)).set

IsResolved(r, F, lost, u) ==
    /\ r.enabled = F.enabled /\ r.action = F.action
    /\ r.src_zones = F.src_zones /\ r.dst_zones = F.dst_zones
    /\ r.source = SideOf(F.src, "src" \in F.negate, u)
    /\ r.destination = SideOf(F.dst, "dst" \in F.negate, u)
    /\ r.services = IF "svc" \in lost THEN {} ELSE F.written
    /\ "svc" \in lost => "svc" \in r.unresolved
    /\ r.documented <=> "comment" \notin lost /\ F.documented
    /\ r.applications = IF "applications" \in lost THEN {} ELSE F.applications
    /\ r.logs = IF "logs" \in lost THEN Cut ELSE F.logs
    /\ r.hits = IF "hits" \in lost THEN Cut ELSE F.hits
    /\ r.profiles = IF "profiles" \in lost THEN "none" ELSE F.profiles

LEMMA ResolvedIs == \A F, lost, u : IsResolved(Resolved(F, lost, u), F, lost, u)
<1> SUFFICES ASSUME NEW F, NEW lost, NEW u PROVE IsResolved(Resolved(F, lost, u), F, lost, u)
  OBVIOUS
<1> DEFINE r == Resolved(F, lost, u)
<1>1. /\ r.enabled = F.enabled /\ r.action = F.action
      /\ r.src_zones = F.src_zones /\ r.dst_zones = F.dst_zones
      /\ r.services = IF "svc" \in lost THEN {} ELSE F.written
      /\ r.documented <=> "comment" \notin lost /\ F.documented
      /\ r.applications = IF "applications" \in lost THEN {} ELSE F.applications
      /\ r.logs = IF "logs" \in lost THEN Cut ELSE F.logs
      /\ r.hits = IF "hits" \in lost THEN Cut ELSE F.hits
      /\ r.profiles = IF "profiles" \in lost THEN "none" ELSE F.profiles
  BY DEF Resolved
<1>2. r.source = SideOf(F.src, "src" \in F.negate, u)
  BY DEF Resolved, SideOf
<1>3. r.destination = SideOf(F.dst, "dst" \in F.negate, u)
  BY DEF Resolved, SideOf
<1>4. "svc" \in lost => "svc" \in r.unresolved
  BY DEF Resolved, Sides
<1> HIDE DEF r
<1>5. IsResolved(r, F, lost, u)
  BY <1>1, <1>2, <1>3, <1>4 DEF IsResolved
<1> QED BY <1>5 DEF r

\* What is found of a rule is found of what it shows.
LEMMA FindingsSay ==
    ASSUME NEW r, NEW routed, NEW comments
    PROVE  LET found == Findings(r, routed, comments)
           IN  /\ found \cap {"any_any_any", "broad_source"} # {} =>
                    IsEvery(r.source) \/ Cardinality(r.source \cap Net4) > MaxAddresses
               /\ found \cap {"any_any_any", "broad_destination"} # {} =>
                    IsEvery(r.destination) \/ Cardinality(r.destination \cap Net4) > MaxAddresses
               /\ "unroutable_destination" \in found =>
                    routed # Cut /\ (r.destination \cap Net4) \cap routed = {}
               /\ "no_logging" \in found => r.logs = FALSE
               /\ "no_profiles" \in found => r.profiles = "none"
               /\ "never_hit" \in found => r.hits = "none"
               /\ "no_recent_hits" \in found => r.hits = "old"
               /\ "insecure_service" \in found => r.services \cap Insecure # {}
               /\ "no_documentation" \in found => comments /\ ~r.documented
               /\ "no_application_identity" \in found => "any" \in r.applications
<1> DEFINE dst4 == r.destination \cap Net4
           wide == [source |-> IsEvery(r.source), destination |-> IsEvery(r.destination),
                    services |-> AnyService(r.services)]
           everything == wide.source /\ wide.destination /\ wide.services
           If(condition, issue) == IF condition THEN {issue} ELSE {}
           a1 == If(r.unresolved # {}, "unresolved_objects")
           a2 == If(comments /\ ~r.documented, "no_documentation")
           a3 == If(/\ routed # Cut /\ ~wide.destination /\ "dst" \notin r.unresolved
                    /\ dst4 # {} /\ dst4 \cap routed = {}, "unroutable_destination")
           b1 == If(wide.source \/ Cardinality(r.source \cap Net4) > MaxAddresses, "broad_source")
           b2 == If(wide.destination \/ Cardinality(dst4) > MaxAddresses, "broad_destination")
           b3 == If(wide.services \/ Cardinality(r.services) > MaxPorts, "broad_service")
           b4 == If(r.logs = FALSE, "no_logging")
           b5 == If(r.profiles = "none", "no_profiles")
           b6 == If(r.profiles = "blind", "inspection_not_decrypted")
           b7 == If(~wide.services /\ r.services \cap Insecure # {}, "insecure_service")
           b8 == If(r.hits = "none", "never_hit")
           b9 == If(r.hits = "old", "no_recent_hits")
           b0 == If("any" \in r.applications, "no_application_identity")
           found == Findings(r, routed, comments)
<1>1. found = IF ~r.enabled THEN {"disabled"}
              ELSE (a1 \cup a2 \cup a3) \cup
                   (IF ~Permits(r) THEN {} ELSE IF everything THEN {"any_any_any"}
                    ELSE b1 \cup b2 \cup b3 \cup b4 \cup b5 \cup b6 \cup b0 \cup b7 \cup b8 \cup b9)
  BY DEF Findings
<1>2. /\ a1 \subseteq {"unresolved_objects"} /\ a2 \subseteq {"no_documentation"}
      /\ a3 \subseteq {"unroutable_destination"} /\ b1 \subseteq {"broad_source"} /\ b2 \subseteq {"broad_destination"}
      /\ b3 \subseteq {"broad_service"} /\ b4 \subseteq {"no_logging"} /\ b5 \subseteq {"no_profiles"}
      /\ b6 \subseteq {"inspection_not_decrypted"} /\ b7 \subseteq {"insecure_service"}
      /\ b8 \subseteq {"never_hit"} /\ b9 \subseteq {"no_recent_hits"}
      /\ b0 \subseteq {"no_application_identity"}
  OBVIOUS
<1>3. /\ a3 # {} => routed # Cut /\ dst4 \cap routed = {}
      /\ b1 # {} => IsEvery(r.source) \/ Cardinality(r.source \cap Net4) > MaxAddresses
      /\ b2 # {} => IsEvery(r.destination) \/ Cardinality(dst4) > MaxAddresses
      /\ b4 # {} => r.logs = FALSE
      /\ b5 # {} => r.profiles = "none"
      /\ b7 # {} => r.services \cap Insecure # {}
      /\ b8 # {} => r.hits = "none"
      /\ b9 # {} => r.hits = "old"
      /\ a2 # {} => comments /\ ~r.documented
      /\ b0 # {} => "any" \in r.applications
      /\ everything => IsEvery(r.source) /\ IsEvery(r.destination)
  OBVIOUS
<1> HIDE DEF a1, a2, a3, b0, b1, b2, b3, b4, b5, b6, b7, b8, b9, found, everything, wide
<1>4. /\ "unroutable_destination" \in found => a3 # {}
      /\ "no_logging" \in found => b4 # {}
      /\ "no_profiles" \in found => b5 # {}
      /\ "insecure_service" \in found => b7 # {}
      /\ "never_hit" \in found => b8 # {}
      /\ "no_recent_hits" \in found => b9 # {}
      /\ "no_documentation" \in found => a2 # {}
      /\ "no_application_identity" \in found => b0 # {}
  BY <1>1, <1>2
<1>5. /\ "any_any_any" \in found => everything
      /\ "broad_source" \in found => b1 # {}
      /\ "broad_destination" \in found => b2 # {}
  BY <1>1, <1>2
<1>6. /\ found \cap {"any_any_any", "broad_source"} # {} => everything \/ b1 # {}
      /\ found \cap {"any_any_any", "broad_destination"} # {} => everything \/ b2 # {}
  BY <1>5
<1> QED BY <1>3, <1>4, <1>6 DEF found

\* What routes are judged on is all the device has.
LEMMA RoutesAreWhole ==
    ASSUME NEW table, table.routes \in Seq(SUBSET All), RoutedSpace(table) # Cut
    PROVE  Net4 \cap UNION ToSet(table.routes) \subseteq RoutedSpace(table)
<1> DEFINE seen == ToSet(Collected(table))
           v4 == {p \in seen \ {Cut} : p \cap Net4 # {}}
<1>1. /\ table.lost # "tail" /\ Cut \notin seen /\ v4 # {}
      /\ RoutedSpace(table) = Net4 \cap UNION v4
  BY DEF RoutedSpace
<1>2. table.lost # "all"
  <2> SUFFICES ASSUME table.lost = "all" PROVE FALSE
    OBVIOUS
  <2>1. Collected(table) = <<>>
    BY DEF Collected
  <2>2. seen = {}
    BY <2>1 DEF ToSet
  <2> QED BY <1>1, <2>2
<1>3. table.lost # "value"
  <2> SUFFICES ASSUME table.lost = "value" PROVE FALSE
    OBVIOUS
  <2>1. Collected(table) = [table.routes EXCEPT ![1] = Cut]
    BY DEF Collected
  <2>2. CASE 1 \in DOMAIN table.routes
    <3>1. Collected(table)[1] = Cut /\ 1 \in DOMAIN Collected(table)
      BY <2>1, <2>2
    <3>2. Cut \in seen
      BY <3>1 DEF ToSet
    <3> QED BY <1>1, <3>2
  <2>3. CASE 1 \notin DOMAIN table.routes
    <3>1. DOMAIN table.routes = {}
      BY <2>3
    <3>2. DOMAIN Collected(table) = {}
      BY <2>1, <3>1
    <3>3. seen = {}
      BY <3>2 DEF ToSet
    <3> QED BY <1>1, <3>3
  <2> QED BY <2>2, <2>3
<1>4. Collected(table) = table.routes
  BY <1>1, <1>2, <1>3 DEF Collected
<1>5. Net4 \cap UNION ToSet(table.routes) \subseteq Net4 \cap UNION v4
  BY <1>1, <1>4
<1> QED BY <1>1, <1>5

Many(s) == Cardinality(s \cap Net4) > MaxAddresses

LEMMA Broader ==
    ASSUME NEW s, NEW t, s \subseteq t, Many(s)
    PROVE  Many(t)
<1> DEFINE a == s \cap Net4
           b == t \cap Net4
<1>1. IsFiniteSet(Net4) /\ b \in SUBSET Net4 /\ a \in SUBSET b
  BY ReviewAssumption
<1> HIDE DEF a, b
<1>2. IsFiniteSet(b)
  BY <1>1, FS_Subset
<1>3. IsFiniteSet(a) /\ Cardinality(a) <= Cardinality(b)
  BY <1>1, <1>2, FS_Subset
<1>4. Cardinality(a) \in Nat /\ Cardinality(b) \in Nat
  BY <1>2, <1>3, FS_CardinalityType
<1>5. Cardinality(a) > MaxAddresses
  BY DEF a, Many
<1>6. Cardinality(b) > MaxAddresses
  BY <1>3, <1>4, <1>5, ReviewAssumption
<1> QED BY <1>6 DEF b, Many

\* A broad side is broad on the device, unless it is negated and partly read.
LEMMA BroadIs ==
    ASSUME NEW list \in Listed, NEW u, NEW negated \in BOOLEAN,
           NEW s, s = SideOf(list, negated, u),
           NEW a, a = SideOf(list, negated, {}),
           IsEvery(s) \/ Many(s)
    PROVE  \/ IsEvery(a) \/ Many(a)
           \/ negated /\ LookedUp(list, Reading({})) \cap u # {}
<1>1. s \subseteq a \/ (negated /\ LookedUp(list, Reading({})) \cap u # {})
  BY SideIs DEF SideOf
<1>2. ASSUME s \subseteq a PROVE IsEvery(a) \/ Many(a)
  <2>1. CASE IsEvery(s)
    BY <1>2, <2>1 DEF IsEvery
  <2>2. CASE Many(s)
    BY <1>2, <2>2, Broader
  <2> QED BY <2>1, <2>2
<1> QED BY <1>1, <1>2

LEMMA RulesFound == ReviewType => RuleFindingsAreTrue
<1> SUFFICES ASSUME ReviewType, NEW i \in DOMAIN Seen
    PROVE   LET rule == Actual[i]
                written == reviewed.rules[i]
                found == Findings(Seen[i], RoutedSpace(reviewed.table), reviewed.comments)
                Broad(addresses) == IsEvery(addresses) \/ Cardinality(addresses \cap Net4) > MaxAddresses
                routes == UNION ToSet(reviewed.table.routes)
            IN  /\ found \cap {"any_any_any", "broad_source"} # {} =>
                     Broad(rule.source) \/ ("src" \in written.negate /\ PartlyRead(written.src))
                /\ found \cap {"any_any_any", "broad_destination"} # {} =>
                     Broad(rule.destination) \/ ("dst" \in written.negate /\ PartlyRead(written.dst))
                /\ "unroutable_destination" \in found =>
                     PartlyRead(written.dst) \/ rule.destination \cap routes \cap Net4 = {}
                /\ "no_logging" \in found => ~rule.logs
                /\ "no_profiles" \in found => rule.profiles = "none" \/ "profiles" \in written.lost
                /\ "never_hit" \in found => rule.hits = "none"
                /\ "no_recent_hits" \in found => rule.hits = "old"
                /\ "insecure_service" \in found => rule.services \cap Insecure # {}
                /\ "no_documentation" \in found => ~rule.documented
                /\ "no_application_identity" \in found => "any" \in rule.applications
  BY Zenon DEF RuleFindingsAreTrue
<1> DEFINE F == reviewed.rules[i]
           u == reviewed.unread
           lost == LostOf(F)
           r == Resolved(F, lost, u)
           a == Resolved(F, {}, {})
           routed == RoutedSpace(reviewed.table)
           found == Findings(r, routed, reviewed.comments)
           nosrc == "src" \in F.negate
           nodst == "dst" \in F.negate
<1>b. nosrc \in BOOLEAN /\ nodst \in BOOLEAN
  OBVIOUS
<1>1. i \in DOMAIN reviewed.rules /\ F \in RuleForms /\ Seen[i] = r /\ Actual[i] = a
  BY DEF Seen, Actual, ReviewType
<1>2. F.src \in Listed /\ F.dst \in Listed
  BY <1>1, ReviewAssumption DEF Listed
<1>3. PartlyRead(F.src) <=> LookedUp(F.src, Reading({})) \cap u # {}
  BY DEF PartlyRead
<1>4. PartlyRead(F.dst) <=> LookedUp(F.dst, Reading({})) \cap u # {}
  BY DEF PartlyRead
<1>r. IsResolved(r, F, lost, u) /\ IsResolved(a, F, {}, {})
  BY Zenon, ResolvedIs
<1>l. /\ "profiles" \in lost => "profiles" \in F.lost
      /\ reviewed.comments => "comment" \notin lost
  BY <1>1, ReviewAssumption DEF LostOf
<1> HIDE DEF F, u, r, a, lost
<1>5. /\ r.source = SideOf(F.src, nosrc, u)
      /\ r.destination = SideOf(F.dst, nodst, u)
      /\ r.services = IF "svc" \in lost THEN {} ELSE F.written
      /\ r.logs = IF "logs" \in lost THEN Cut ELSE F.logs
      /\ r.hits = IF "hits" \in lost THEN Cut ELSE F.hits
      /\ r.profiles = IF "profiles" \in lost THEN "none" ELSE F.profiles
      /\ r.documented <=> "comment" \notin lost /\ F.documented
      /\ r.applications = IF "applications" \in lost THEN {} ELSE F.applications
  BY <1>r DEF IsResolved
<1>6. /\ a.source = SideOf(F.src, nosrc, {})
      /\ a.destination = SideOf(F.dst, nodst, {})
      /\ a.services = F.written /\ a.logs = F.logs /\ a.hits = F.hits /\ a.profiles = F.profiles
      /\ (a.documented <=> F.documented) /\ a.applications = F.applications
  BY <1>r DEF IsResolved
<1>7. /\ found \cap {"any_any_any", "broad_source"} # {} =>
           IsEvery(r.source) \/ Many(r.source)
      /\ found \cap {"any_any_any", "broad_destination"} # {} =>
           IsEvery(r.destination) \/ Many(r.destination)
      /\ "unroutable_destination" \in found => routed # Cut /\ (r.destination \cap Net4) \cap routed = {}
      /\ "no_logging" \in found => r.logs = FALSE
      /\ "no_profiles" \in found => r.profiles = "none"
      /\ "never_hit" \in found => r.hits = "none"
      /\ "no_recent_hits" \in found => r.hits = "old"
      /\ "insecure_service" \in found => r.services \cap Insecure # {}
      /\ "no_documentation" \in found => reviewed.comments /\ ~r.documented
      /\ "no_application_identity" \in found => "any" \in r.applications
  BY FindingsSay DEF Many
<1>8. reviewed.table.routes \in Seq(SUBSET All)
  <2>1. PICK b \in Blocks :
           reviewed = [rules |-> reviewed.rules, unread |-> b.unread, table |-> b.table, nat |-> b.nat,
                       outside |-> b.outside, comments |-> b.comments]
    BY DEF ReviewType
  <2>2. reviewed.table = b.table
    BY <2>1
  <2> QED BY <2>2, ReviewAssumption
<1> DEFINE routes == UNION ToSet(reviewed.table.routes)
<1>9. routed # Cut => Net4 \cap routes \subseteq routed
  BY <1>8, RoutesAreWhole
<1> HIDE DEF F, u, r, a, routed, found, routes
<1>10. ASSUME found \cap {"any_any_any", "broad_source"} # {}
       PROVE  IsEvery(a.source) \/ Many(a.source) \/ (nosrc /\ PartlyRead(F.src))
  <2>1. r.source = SideOf(F.src, nosrc, u) /\ a.source = SideOf(F.src, nosrc, {})
        /\ (IsEvery(r.source) \/ Many(r.source))
    BY <1>5, <1>6, <1>7, <1>10
  <2> QED BY <1>2, <1>3, <1>b, <2>1, BroadIs
<1>11. ASSUME found \cap {"any_any_any", "broad_destination"} # {}
       PROVE  IsEvery(a.destination) \/ Many(a.destination) \/ (nodst /\ PartlyRead(F.dst))
  <2>1. r.destination = SideOf(F.dst, nodst, u) /\ a.destination = SideOf(F.dst, nodst, {})
        /\ (IsEvery(r.destination) \/ Many(r.destination))
    BY <1>5, <1>6, <1>7, <1>11
  <2> QED BY <1>2, <1>4, <1>b, <2>1, BroadIs
<1>12. ASSUME "unroutable_destination" \in found
       PROVE  PartlyRead(F.dst) \/ a.destination \cap routes \cap Net4 = {}
  <2>1. ~PartlyRead(F.dst) => Expanded(F.dst, Reading(u)) = Expanded(F.dst, Reading({}))
    BY <1>2, <1>4, SideIs
  <2>2. ~PartlyRead(F.dst) => r.destination = a.destination
    BY <1>5, <1>6, <2>1 DEF SideOf
  <2> QED BY <1>7, <1>9, <1>12, <2>2
<1>13. /\ "no_logging" \in found => ~a.logs
       /\ "no_profiles" \in found => a.profiles = "none" \/ "profiles" \in F.lost
       /\ "never_hit" \in found => a.hits = "none"
       /\ "no_recent_hits" \in found => a.hits = "old"
       /\ "insecure_service" \in found => a.services \cap Insecure # {}
       /\ "no_documentation" \in found => ~a.documented
       /\ "no_application_identity" \in found => "any" \in a.applications
  BY <1>5, <1>6, <1>7, <1>l, ReviewAssumption
<1>14. Findings(Seen[i], RoutedSpace(reviewed.table), reviewed.comments) = found
  BY <1>1 DEF found, routed
<1> HIDE DEF nosrc, nodst
<1> QED BY <1>1, <1>10, <1>11, <1>12, <1>13, <1>14 DEF F, routes, nosrc, nodst, Many

\* An object reported as unused may be deleted.
LEMMA UnusedGoes == ReviewType => UnusedMayGo
<1> SUFFICES ASSUME ReviewType,
                    NEW n \in UnusedObjects(reviewed.rules, reviewed.unread) \cap DOMAIN Holds, NEW i \in DOMAIN Seen
             PROVE  Resolved(reviewed.rules[i], LostOf(reviewed.rules[i]), reviewed.unread \cup {n}) = Seen[i]
  BY Zenon DEF UnusedMayGo
<1> DEFINE F == reviewed.rules[i]
           u == reviewed.unread
           v == u \cup {n}
<1>1. F \in RuleForms /\ i \in DOMAIN reviewed.rules /\ Seen[i] = Resolved(F, LostOf(F), u)
  BY DEF Seen, ReviewType
<1>2. n \notin LookedUp(F.src, Reading(u)) /\ n \notin LookedUp(F.dst, Reading(u))
  BY <1>1 DEF UnusedObjects
<1>3. F.src \in Listed /\ F.dst \in Listed
  BY <1>1, ReviewAssumption DEF Listed
<1> HIDE DEF F, u
<1>4. ASSUME NEW list \in Listed, n \notin LookedUp(list, Reading(u))
      PROVE  Expanded(list, Reading(v)) = Expanded(list, Reading(u))
  <2>1. \A m \in LookedUp(list, Reading(u)) \cap DOMAIN Holds : m \in u <=> m \in v
    BY <1>4
  <2> HIDE DEF v
  <2>2. \A m \in Consulted(list, Reading(u)) \ {"any"} : Reading(u)[m] = Reading(v)[m]
    BY <2>1, SameReading
  <2> QED BY <2>2, SameConsulted
<1>5. Expanded(F.src, Reading(v)) = Expanded(F.src, Reading(u))
      /\ Expanded(F.dst, Reading(v)) = Expanded(F.dst, Reading(u))
  BY <1>2, <1>3, <1>4
<1> HIDE DEF v
<1>6. Resolved(F, LostOf(F), v) = Resolved(F, LostOf(F), u)
  BY <1>5 DEF Resolved
<1> QED BY <1>1, <1>6 DEF F, u, v

\* What the device decides by.
LEMMA DeciderIs ==
    ASSUME NEW R, DOMAIN R \in SUBSET Nat, NEW p, Decides(R, p) # NoRule
    PROVE  \E k \in DOMAIN R : Decides(R, p) = R[k] /\ Matches(R[k], p)
<1> DEFINE S == {i \in DOMAIN R : Terminates(R[i]) /\ Matches(R[i], p)}
<1>1. Decides(R, p) = TheFirst(R, S)
  BY DEF Decides
<1>2. S # {} /\ S \in SUBSET Nat
  BY <1>1 DEF TheFirst
<1>3. Min(S) \in S
  <2> HIDE DEF S
  <2> QED BY <1>2, SmallestOf
<1> QED BY <1>1, <1>2, <1>3 DEF TheFirst

\* A service that covers a packet is insecure where the packet's is.
LEMMA ServiceOfPacket ==
    ASSUME NEW services, NEW p, ServiceCovers(services, p)
    PROVE  /\ AnyService(services) \/ <<p.protocol, p.port>> \in services
           /\ AnyService(services) \/ \E s \in services : s[2] = p.port
<1>1. AnyService(services) \/ <<p.protocol, p.port>> \in services
  BY DEF ServiceCovers, AnyService
<1>2. <<p.protocol, p.port>>[2] = p.port
  OBVIOUS
<1> QED BY <1>1, <1>2

\* What is said of a publication is so when everything was read.
LEMMA NatFound == ReviewType => NatFindingsAreTrue
<1> DEFINE nat == reviewed.nat
           found == NatFindings(Seen, nat, reviewed.unread, reviewed.outside)
           zoned == \A i \in DOMAIN Seen : Seen[i].src_zones # {}
<1> SUFFICES ASSUME ReviewType, nat.direction = "destination", Target(nat, {}) # Cut, reviewed.unread = {},
                    \A i \in DOMAIN Seen : Seen[i].unresolved = {},
                    NEW p \in Arrivals, ToTarget(p, nat), Permitted(p)
             PROVE  /\ <<"unmatched_nat", 0>> \notin found
                    /\ zoned /\ p.src_zone \in reviewed.outside =>
                         \E i \in DOMAIN Seen :
                            /\ Actual[i] = Decides(Actual, p)
                            /\ \/ <<"exposed_insecure_service", i>> \in found
                               \/ <<"exposed_service", i>> \in found /\ <<p.protocol, p.port>> \notin Insecure
                            /\ Seen[i].logs = FALSE => <<"exposed_without_logging", i>> \in found
  BY DEF NatFindingsAreTrue
<1> DEFINE addresses == Target(nat, {})
<1>1. DOMAIN Seen = DOMAIN reviewed.rules /\ DOMAIN Actual = DOMAIN reviewed.rules /\ DOMAIN Actual \in SUBSET Nat
  BY DEF Seen, Actual, ReviewType
<1>2. \A i \in DOMAIN Seen :
        /\ Seen[i].enabled = Actual[i].enabled /\ Seen[i].action = Actual[i].action
        /\ Seen[i].src_zones = Actual[i].src_zones
        /\ Seen[i].destination = Actual[i].destination /\ Seen[i].services = Actual[i].services
  <2> TAKE i \in DOMAIN Seen
  <2> DEFINE F == reviewed.rules[i]
             r == Resolved(F, LostOf(F), {})
             a == Resolved(F, {}, {})
  <2>1. Seen[i] = r /\ Actual[i] = a
    BY <1>1 DEF Seen, Actual
  <2>2. IsResolved(r, F, LostOf(F), {}) /\ IsResolved(a, F, {}, {})
    BY Zenon, ResolvedIs
  <2>3. r.unresolved = {}
    BY <2>1
  <2> HIDE DEF F, r, a
  <2>4. r.services = a.services
    BY <2>2, <2>3 DEF IsResolved
  <2>5. r.enabled = a.enabled /\ r.action = a.action /\ r.src_zones = a.src_zones /\ r.destination = a.destination
    BY <2>2 DEF IsResolved
  <2> QED BY <2>1, <2>4, <2>5
<1>3. Decides(Actual, p) # NoRule /\ Permits(Decides(Actual, p))
  BY DEF Permitted
<1>4. PICK k \in DOMAIN Actual : Decides(Actual, p) = Actual[k] /\ Matches(Actual[k], p)
  BY <1>1, <1>3, DeciderIs
<1> DEFINE r == Seen[k]
<1>5. /\ r.enabled /\ Permits(r) /\ p.dst \in r.destination /\ ServiceCovers(r.services, p)
      /\ p.src_zone # NoZone /\ r.src_zones # {} => p.src_zone \in r.src_zones
  <2>1. k \in DOMAIN Seen
    BY <1>1
  <2>2. /\ Actual[k].enabled /\ InZones(Actual[k], p) /\ p.dst \in Actual[k].destination
        /\ ServiceCovers(Actual[k].services, p)
    BY <1>4 DEF Matches, Sides, SideCovers
  <2>3. Permits(r)
    BY <1>2, <1>3, <1>4, <2>1 DEF Permits
  <2> QED BY <1>2, <2>1, <2>2, <2>3 DEF InZones
<1>6. p.dst \in addresses /\ nat.port \in {NoPort, p.port}
  BY DEF ToTarget
<1> DEFINE matching == {i \in DOMAIN Seen : Seen[i].enabled /\ Permits(Seen[i]) /\ ReachesTarget(Seen[i], addresses, nat)}
           from_outside == {i \in matching : Seen[i].src_zones \cap reviewed.outside # {}}
           Of(i) == {IF ExposedInsecure(Seen[i], nat) # {} THEN "exposed_insecure_service" ELSE "exposed_service"}
                    \cup (IF Seen[i].logs = FALSE THEN {"exposed_without_logging"} ELSE {})
                    \cup (IF Seen[i].profiles = "none" THEN {"exposed_without_inspection"} ELSE {})
<1>7. k \in matching
  <2>1. r.destination \cap addresses # {}
    BY <1>5, <1>6
  <2>2. nat.port = NoPort \/ AnyService(r.services) \/ \E s \in r.services : s[2] = nat.port
    BY <1>5, <1>6, ServiceOfPacket
  <2>3. ReachesTarget(r, addresses, nat)
    BY <2>1, <2>2 DEF ReachesTarget
  <2> QED BY <1>1, <1>5, <2>3
<1>8. /\ from_outside # {} => found = UNION {Of(i) \X {i} : i \in from_outside}
      /\ found = {<<"not_from_outside", 0>>} \/ found = UNION {Of(i) \X {i} : i \in from_outside}
  <2>1. matching # {}
    BY <1>7
  <2>2. found = CASE nat.direction # "destination" -> {}
          [] nat.direction = "destination" /\ addresses = Cut -> {<<"nat_without_translation", 0>>}
          [] nat.direction = "destination" /\ addresses # Cut /\ matching = {} -> {<<"unmatched_nat", 0>>}
          [] nat.direction = "destination" /\ addresses # Cut /\ matching # {} /\ reviewed.outside # {}
             /\ from_outside = {} ->
                {<<"not_from_outside", 0>>}
          [] OTHER -> UNION {Of(i) \X {i} : i \in from_outside}
    BY DEF NatFindings
  <2> DEFINE X == UNION {Of(i) \X {i} : i \in from_outside}
  <2> HIDE DEF matching, from_outside, addresses, nat, found, X
  <2>3. /\ from_outside # {} => found = X
        /\ found = {<<"not_from_outside", 0>>} \/ found = X
    BY <2>1, <2>2 DEF X, nat, addresses
  <2> QED BY <2>3 DEF X
<1>9. <<"unmatched_nat", 0>> \notin found
  <2>1. \A i \in from_outside : "unmatched_nat" \notin Of(i)
    OBVIOUS
  <2> HIDE DEF from_outside, Of, found
  <2> QED BY <1>8, <2>1
<1>10. ASSUME zoned, p.src_zone \in reviewed.outside
       PROVE  /\ \/ <<"exposed_insecure_service", k>> \in found
                 \/ <<"exposed_service", k>> \in found /\ <<p.protocol, p.port>> \notin Insecure
              /\ r.logs = FALSE => <<"exposed_without_logging", k>> \in found
  <2>1. k \in from_outside
    <3>1. r.src_zones # {}
      BY <1>1, <1>10
    <3>2. p.src_zone \in r.src_zones
      <4>1. NoZone \notin reviewed.outside
        BY ReviewAssumption DEF ReviewType
      <4> QED BY <1>5, <1>10, <3>1, <4>1
    <3> QED BY <1>7, <1>10, <3>2
  <2>2. \A x \in Of(k) : <<x, k>> \in found
    <3> HIDE DEF Of, from_outside, found
    <3> QED BY <1>8, <2>1
  <2>3. <<p.protocol, p.port>> \in Insecure => ExposedInsecure(r, nat) # {}
    <3> SUFFICES ASSUME <<p.protocol, p.port>> \in Insecure PROVE <<p.protocol, p.port>> \in ExposedInsecure(r, nat)
      OBVIOUS
    <3>1. AnyService(r.services) \/ <<p.protocol, p.port>> \in r.services
      BY <1>5, ServiceOfPacket
    <3>2. nat.port \in {NoPort, <<p.protocol, p.port>>[2]}
      BY <1>6
    <3> QED BY <3>1, <3>2 DEF ExposedInsecure
  <2>4. r.logs = FALSE => "exposed_without_logging" \in Of(k)
    OBVIOUS
  <2>5. "exposed_insecure_service" \in Of(k) \/ ("exposed_service" \in Of(k) /\ ExposedInsecure(r, nat) = {})
    OBVIOUS
  <2> HIDE DEF Of, found, r
  <2> QED BY <2>2, <2>3, <2>4, <2>5
<1> HIDE DEF found, nat
<1> QED BY <1>1, <1>4, <1>9, <1>10

\* Whatever objects, groups, rules, routes and publications there are, and
\* whatever of them was not collected: a finding on a rule is true of the
\* device, what is said of a publication is so, and an unused object may go.
THEOREM ReviewsAreTrue == ReviewSpec => []ReviewIsTrue
<1>1. ReviewType => ReviewIsTrue
  BY RulesFound, NatFound, UnusedGoes DEF ReviewIsTrue
<1> QED BY <1>1, ReviewTyped, PTL

-----------------------------------------------------------------------------
(* The rows kept of a rulebase *)

Standings == {"none", "new", "open", "reopened", "resolved", "risk_accepted", "false_positive"}

RowType ==
    /\ problems \in Seq(Problem) /\ assessed \in Seq(Problem)
    /\ row \in [Problem \cup Summary -> Standings]

\* What the last analysis derived has a row that is not closed, and a row the
\* system keeps open was derived.
RowInv ==
    /\ RowType
    /\ \A f \in Collect(assessed) : Known(f)
    /\ \A f \in Problem : row[f] \in {"new", "reopened"} => f \in Collect(assessed)

\* What an analysis derives are fingerprints, and of problems only those it met.
LEMMA Derived ==
    ASSUME NEW found \in Seq(Problem)
    PROVE  /\ Collect(found) \subseteq Problem \cup Summary
           /\ \A f \in Problem : f \in Collect(found) => f \in ToSet(found)
<1>1. \A i \in DOMAIN found : found[i] \in Problem /\ found[i] \in ToSet(found)
  BY DEF ToSet
<1>2. \A k \in ProblemKind : <<"truncated", k>> \in Summary
  BY DEF Summary
<1>3. \A k : <<"truncated", k>> \notin Problem
  BY RowAssumption DEF Problem
<1>4. \A f \in Collect(found) : (\E i \in DOMAIN found : f = found[i]) \/ \E k \in ProblemKind : f = <<"truncated", k>>
  BY DEF Collect
<1> QED BY <1>1, <1>2, <1>3, <1>4

\* A problem that was not taken is of a kind that has more than are kept.
LEMMA TakenOrCrowded ==
    ASSUME NEW found \in Seq(Problem), NEW i \in DOMAIN found
    PROVE  \/ found[i] \in Collect(found)
           \/ /\ Cardinality(OfKind(found, found[i][1])) > MaxPerKind
              /\ <<"truncated", found[i][1]>> \in Collect(found)
<1> DEFINE S == OfKind(found, found[i][1])
           E == {j \in S : j < i}
<1>1. IsFiniteSet(S) /\ i \in S /\ i \in Int
  <2>1. S \subseteq 1 .. Len(found) /\ i \in S
    BY DEF OfKind
  <2>2. 1 \in Int /\ Len(found) \in Int
    OBVIOUS
  <2>3. IsFiniteSet(1 .. Len(found))
    BY <2>2, FS_Interval
  <2> QED BY <2>1, <2>3, FS_Subset
<1>2. found[i][1] \in ProblemKind
  BY DEF Problem
<1>3. CASE Cardinality(E) < MaxPerKind
  <2>1. found[i] \in {found[x] : x \in {x \in DOMAIN found : Cardinality({j \in OfKind(found, found[x][1]) : j < x}) < MaxPerKind}}
    BY <1>3
  <2> QED BY <2>1 DEF Collect
<1>4. CASE ~(Cardinality(E) < MaxPerKind)
  <2>1. E \subseteq S /\ i \notin E
    BY <1>1
  <2>2. IsFiniteSet(E) /\ Cardinality(E) \in Nat /\ Cardinality(S) \in Nat
    BY <1>1, <2>1, FS_Subset, FS_CardinalityType
  <2>3. Cardinality(E \cup {i}) = Cardinality(E) + 1 /\ E \cup {i} \subseteq S
    BY <1>1, <2>1, <2>2, FS_AddElement
  <2>4. Cardinality(E \cup {i}) <= Cardinality(S)
    BY <1>1, <2>3, FS_Subset
  <2> HIDE DEF E, S
  <2>5. Cardinality(S) > MaxPerKind
    BY <1>4, <2>2, <2>3, <2>4, RowAssumption
  <2> QED BY <1>2, <2>5 DEF Collect, S
<1> QED BY <1>3, <1>4

LEMMA RowsTyped == RowType /\ [RowNext]_rowVars => RowType'
<1> SUFFICES ASSUME RowType, [RowNext]_rowVars PROVE RowType'
  OBVIOUS
<1>0. problems \in Seq(Problem) /\ assessed \in Seq(Problem) /\ row \in [Problem \cup Summary -> Standings]
  BY DEF RowType
<1>1. CASE Introduce
  <2>1. PICK p \in Problem, i \in 1 .. Len(problems) + 1 : problems' = InsertAt(problems, i, p)
    BY <1>1 DEF Introduce
  <2>2. SubSeq(problems, 1, i - 1) \in Seq(Problem) /\ SubSeq(problems, i, Len(problems)) \in Seq(Problem)
    BY <1>0
  <2>3. InsertAt(problems, i, p) \in Seq(Problem)
    BY <2>2 DEF InsertAt
  <2> QED BY <1>0, <1>1, <2>1, <2>3 DEF RowType, Introduce
<1>2. CASE Mend
  <2>1. PICK i \in DOMAIN problems : problems' = RemoveAt(problems, i)
    BY <1>2 DEF Mend
  <2>2. SubSeq(problems, 1, i - 1) \in Seq(Problem) /\ SubSeq(problems, i + 1, Len(problems)) \in Seq(Problem)
    BY <1>0
  <2>3. RemoveAt(problems, i) \in Seq(Problem)
    BY <2>2 DEF RemoveAt
  <2> QED BY <1>0, <1>2, <2>1, <2>3 DEF RowType, Mend
<1>3. CASE LoseRulebase \/ UNCHANGED rowVars
  BY <1>0, <1>3 DEF RowType, LoseRulebase, rowVars
<1>4. CASE Assess
  <2>1. row' \in [Problem \cup Summary -> Standings]
    BY <1>0, <1>4, Zenon DEF Assess, Standings
  <2> QED BY <1>0, <1>4, <2>1 DEF RowType, Assess
<1>5. CASE TriageRow
  BY <1>0, <1>5 DEF RowType, TriageRow, Standings
<1> QED BY <1>1, <1>2, <1>3, <1>4, <1>5 DEF RowNext

\* An analysis opens the rows of what it derives and closes those of the rest.
LEMMA AssessedRows ==
    ASSUME RowType, Assess, NEW f \in Problem \cup Summary
    PROVE  /\ f \in Collect(problems) => row'[f] \notin {"none", "resolved"}
           /\ f \notin Collect(problems) => row'[f] \notin {"new", "reopened"}
<1> DEFINE seen == Collect(problems)
<1>1. DOMAIN row = Problem \cup Summary
  BY DEF RowType
<1>2. row'[f] = CASE f \in seen -> IF row[f] = "none" THEN "new" ELSE IF row[f] \in Open THEN row[f] ELSE "reopened"
                  [] OTHER -> IF row[f] \in Open THEN "resolved" ELSE row[f]
  BY <1>1 DEF Assess
<1> HIDE DEF seen
<1>3. f \in seen => row'[f] \notin {"none", "resolved"}
  BY <1>2 DEF Open
<1>4. f \notin seen => row'[f] \notin {"new", "reopened"}
  BY <1>2 DEF Open
<1> QED BY <1>3, <1>4 DEF seen

LEMMA RowsStart == RowInit => RowInv
<1> SUFFICES ASSUME RowInit PROVE RowInv
  OBVIOUS
<1>1. RowType
  BY DEF RowInit, RowType, Standings
<1>2. Collect(assessed) = {}
  <2>2. Cardinality({}) = 0 /\ ~(0 > MaxPerKind)
    BY FS_EmptySet, RowAssumption
  <2>4. assessed = <<>> /\ DOMAIN assessed = {}
    BY DEF RowInit
  <2>5. ASSUME NEW k PROVE ~(Cardinality(OfKind(assessed, k)) > MaxPerKind)
    <3>1. OfKind(assessed, k) = {}
      BY <2>4 DEF OfKind
    <3> QED BY <2>2, <3>1
  <2>6. \A f \in Collect(assessed) :
          \/ \E i \in DOMAIN assessed : f = assessed[i]
          \/ \E k \in ProblemKind : Cardinality(OfKind(assessed, k)) > MaxPerKind
    BY DEF Collect
  <2> QED BY <2>4, <2>5, <2>6
<1>3. \A f \in Problem : row[f] = "none"
  BY DEF RowInit
<1> QED BY <1>1, <1>2, <1>3 DEF RowInv

LEMMA RowsKeep == RowInv /\ [RowNext]_rowVars => RowInv'
<1> SUFFICES ASSUME RowInv, [RowNext]_rowVars PROVE RowInv'
  OBVIOUS
<1>1. RowType /\ RowType'
  BY RowsTyped DEF RowInv
<1>2. CASE Assess
  <2>1. assessed' = problems
    BY <1>2 DEF Assess
  <2>2. Collect(problems) \subseteq Problem \cup Summary
    BY <1>1, Derived DEF RowType
  <2>3. \A f \in Collect(problems) : row'[f] \notin {"none", "resolved"}
    BY <1>1, <1>2, <2>2, AssessedRows
  <2>4. \A f \in Problem : row'[f] \in {"new", "reopened"} => f \in Collect(problems)
    BY <1>1, <1>2, AssessedRows
  <2> QED BY <1>1, <2>1, <2>3, <2>4 DEF RowInv, Known
<1>3. CASE TriageRow
  <2>1. PICK f \in DOMAIN row, s \in {"open", "risk_accepted", "false_positive"} : row' = [row EXCEPT ![f] = s]
    BY <1>3 DEF TriageRow
  <2>2. assessed' = assessed
    BY <1>3 DEF TriageRow
  <2>3. \A g : g \in DOMAIN row => row'[g] = IF g = f THEN s ELSE row[g]
    BY <2>1
  <2>4. Collect(assessed) \subseteq DOMAIN row /\ Problem \subseteq DOMAIN row
    BY <1>1, Derived DEF RowType
  <2>5. \A g \in Collect(assessed) : row'[g] \notin {"none", "resolved"}
    BY <2>3, <2>4 DEF RowInv, Known
  <2>6. \A g \in Problem : row'[g] \in {"new", "reopened"} => g \in Collect(assessed)
    BY <2>3, <2>4 DEF RowInv
  <2> QED BY <1>1, <2>2, <2>5, <2>6 DEF RowInv, Known
<1>4. CASE Introduce \/ Mend \/ LoseRulebase \/ UNCHANGED rowVars
  <2>1. UNCHANGED <<assessed, row>>
    BY <1>4 DEF Introduce, Mend, LoseRulebase, rowVars
  <2> QED BY <1>1, <2>1 DEF RowInv, Known
<1> QED BY <1>2, <1>3, <1>4 DEF RowNext

\* The rows kept are those of the last analysis.
THEOREM RowsInductive == RowSpec => []RowInv
BY RowsStart, RowsKeep, PTL DEF RowSpec

\* However a rulebase is edited, lost, analysed again and judged by people, a
\* problem of the last analysis has a row that is not closed, or its kind's
\* summary has, and a row that the system keeps open stands for a problem.
THEOREM RowsAlwaysFollow == RowSpec => []RowsFollowTheRulebase
<1>1. ASSUME RowInv PROVE RowsFollowTheRulebase
  <2>1. assessed \in Seq(Problem)
    BY <1>1 DEF RowInv, RowType
  <2>2. ProblemsAreRecorded
    BY <1>1, <2>1, TakenOrCrowded DEF RowInv, ProblemsAreRecorded, Crowded
  <2>3. OpenRowsHaveProblems
    BY <1>1, <2>1, Derived DEF RowInv, OpenRowsHaveProblems
  <2> QED BY <2>2, <2>3 DEF RowsFollowTheRulebase
<1>2. RowInv => RowsFollowTheRulebase
  BY <1>1
<1> QED BY <1>2, RowsInductive, PTL

\* Whatever rules, objects, publications and problems there are: the rules
\* reported dead are the dead ones, what is found of single rules, publications
\* and objects is true of the device, and the stored rows follow the rulebase.
THEOREM RuleFindingsAreTrueAlways == RulesSpec /\ ReviewSpec /\ RowSpec => []RuleFindingsHold
BY DeadRulesAreReported, ReviewsAreTrue, RowsAlwaysFollow, PTL DEF RuleFindingsHold

-----------------------------------------------------------------------------
(* Paths *)

LEMMA FirstIs == \A S \in SUBSET Nat : S # {} => First(S) \in S /\ (\A y \in S : First(S) <= y)
BY Least DEF First

LEMMA MinIs == \A S \in SUBSET Nat : S # {} => Min(S) \in S /\ (\A y \in S : Min(S) <= y)
BY Least DEF Min
-----------------------------------------------------------------------------
(* One list asked about a range, and about one packet of it *)

\* A question about one list, and a packet it covers.
Asked(q, hop, port) == [srcs |-> q.srcs, dsts |-> q.dsts, protocol |-> q.protocol, port |-> port,
                        src_zone |-> hop.src_zone, dst_zone |-> hop.dst_zone]
OnePacket(p, hop) == [src |-> p.src, dst |-> p.dst, protocol |-> p.protocol, port |-> p.port,
                      src_zone |-> hop.src_zone, dst_zone |-> hop.dst_zone]

LEMMA MayTouch ==
    ASSUME NEW r, NEW q, NEW hop, NEW p \in PacketsOf(q), MayMatch(r, OnePacket(p, hop))
    PROVE  Touches(r, Asked(q, hop, q.port))
<1> DEFINE one == OnePacket(p, hop)
           asked == Asked(q, hop, q.port)
<1>1. p.src \in q.srcs /\ p.dst \in q.dsts /\ p.protocol = q.protocol /\ p.port = q.port
  BY DEF PacketsOf
<1>2. /\ one.src = p.src /\ one.dst = p.dst /\ one.protocol = q.protocol /\ one.port = q.port
      /\ one.src_zone = hop.src_zone /\ one.dst_zone = hop.dst_zone
      /\ asked.srcs = q.srcs /\ asked.dsts = q.dsts /\ asked.protocol = q.protocol /\ asked.port = q.port
      /\ asked.src_zone = hop.src_zone /\ asked.dst_zone = hop.dst_zone
  BY <1>1 DEF OnePacket, Asked
<1> HIDE DEF one, asked
<1>3. InZones(r, asked) /\ r.enabled
  BY <1>2 DEF MayMatch, InZones, one
<1>4. \A side \in Sides \ r.unresolved : SideCovers(r, side, one)
  BY DEF MayMatch, one
<1>5. "src" \in r.unresolved \/ one.src \in r.source
  BY <1>4 DEF Sides, SideCovers
<1>6. "dst" \in r.unresolved \/ one.dst \in r.destination
  BY <1>4 DEF Sides, SideCovers
<1>7. "svc" \in r.unresolved \/ ServiceCovers(r.services, one)
  BY <1>4 DEF Sides, SideCovers
<1>8. ServiceCovers(r.services, one) = ServiceCovers(r.services, asked)
  BY <1>2 DEF ServiceCovers
<1>9. "src" \in r.unresolved \/ r.source \cap asked.srcs # {}
  BY <1>1, <1>2, <1>5
<1>10. "dst" \in r.unresolved \/ r.destination \cap asked.dsts # {}
  BY <1>1, <1>2, <1>6
<1> QED BY <1>3, <1>7, <1>8, <1>9, <1>10 DEF Touches, asked

LEMMA CoveringMatches ==
    ASSUME NEW r, NEW q, NEW hop, NEW p \in PacketsOf(q), Touches(r, Asked(q, hop, q.port)),
           r.unresolved = {}, CoversRange(r, Asked(q, hop, q.port))
    PROVE  MayMatch(r, OnePacket(p, hop))
<1> DEFINE one == OnePacket(p, hop)
           asked == Asked(q, hop, q.port)
<1>1. p.src \in q.srcs /\ p.dst \in q.dsts /\ p.protocol = q.protocol /\ p.port = q.port
  BY DEF PacketsOf
<1>2. /\ one.src = p.src /\ one.dst = p.dst /\ one.protocol = q.protocol /\ one.port = q.port
      /\ one.src_zone = hop.src_zone /\ one.dst_zone = hop.dst_zone
      /\ asked.srcs = q.srcs /\ asked.dsts = q.dsts /\ asked.protocol = q.protocol /\ asked.port = q.port
      /\ asked.src_zone = hop.src_zone /\ asked.dst_zone = hop.dst_zone
  BY <1>1 DEF OnePacket, Asked
<1> HIDE DEF one, asked
<1>3. InZones(r, one) /\ r.enabled
  BY <1>2 DEF Touches, InZones, asked
<1>4. ServiceCovers(r.services, one) = ServiceCovers(r.services, asked)
  BY <1>2 DEF ServiceCovers
<1>5. ServiceCovers(r.services, asked)
  BY DEF Touches, asked
<1>6. one.src \in r.source /\ one.dst \in r.destination
  BY <1>1, <1>2 DEF CoversRange, asked
<1>7. \A side \in Sides : SideCovers(r, side, one)
  BY <1>4, <1>5, <1>6 DEF Sides, SideCovers
<1> QED BY <1>3, <1>7 DEF MayMatch, one

\* What a list says of a packet is always something.
LEMMA AnswersAre ==
    ASSUME NEW listed, DOMAIN listed \subseteq Nat, NEW p
    PROVE  Answers(listed, p) # {} /\ Answers(listed, p) \subseteq BOOLEAN
<1> DEFINE open == {i \in DOMAIN listed : MayMatch(listed[i], p) /\ Terminates(listed[i])}
           certain == {i \in open : listed[i].unresolved = {}}
<1>1. Answers(listed, p) = {Permits(listed[i]) : i \in {i \in open : \A j \in certain : i <= j}}
                            \cup (IF certain = {} THEN {FALSE} ELSE {})
  BY DEF Answers
<1>2. certain \in SUBSET Nat /\ certain \subseteq open
  OBVIOUS
<1> HIDE DEF open, certain
<1>3. Answers(listed, p) # {}
  <2>1. CASE certain = {}
    BY <1>1, <2>1
  <2>2. CASE certain # {}
    <3>1. PICK m \in certain : \A j \in certain : m <= j
      BY <1>2, <2>2, Least
    <3>2. Permits(listed[m]) \in Answers(listed, p)
      BY <1>1, <1>2, <3>1
    <3> QED BY <3>2
  <2> QED BY <2>1, <2>2
<1>4. \A i : Permits(listed[i]) \in BOOLEAN
  BY DEF Permits
<1>5. Answers(listed, p) \subseteq BOOLEAN
  BY <1>1, <1>4
<1> QED BY <1>3, <1>5

\* A list that answers a range with a rule, or with none, answers each packet so.
LEMMA AnswerIsOne ==
    ASSUME NEW listed, DOMAIN listed \subseteq Nat, NEW q, NEW hop, NEW p \in PacketsOf(q),
           Ask(listed, hop, q, q.port).action \in {"allow", "deny"}
    PROVE  Answers(listed, OnePacket(p, hop)) = {Ask(listed, hop, q, q.port).action = "allow"}
<1> DEFINE one == OnePacket(p, hop)
           asked == Asked(q, hop, q.port)
           r == FirstMatchOverRange(listed, asked)
           touching == {i \in DOMAIN listed : Touches(listed[i], asked)}
           readable == {i \in touching : listed[i].unresolved = {}}
           covering == {i \in readable : CoversRange(listed[i], asked)}
           splitters == Ahead(readable, covering)
           open == {i \in DOMAIN listed : MayMatch(listed[i], one) /\ Terminates(listed[i])}
           certain == {i \in open : listed[i].unresolved = {}}
<1>1. Ask(listed, hop, q, q.port) =
        IF r.outcome = "mixed" THEN [action |-> "mixed", undecidable |-> FALSE]
        ELSE IF r.undecidable # {} THEN [action |-> "none", undecidable |-> TRUE]
        ELSE [action |-> IF r.outcome = "no-match" THEN "deny" ELSE r.decided_by.action, undecidable |-> FALSE]
  BY DEF Ask, Asked
<1>2. r.outcome # "mixed" /\ r.undecidable = {}
  <2> HIDE DEF r
  <2> QED BY <1>1
<1>3. Ask(listed, hop, q, q.port).action = IF r.outcome = "no-match" THEN "deny" ELSE r.decided_by.action
  <2> HIDE DEF r
  <2> QED BY <1>1, <1>2
<1>4. /\ r.outcome = (CASE splitters # {} -> "mixed"
                       [] splitters = {} /\ covering # {} ->
                              IF Permits(TheFirst(listed, covering)) THEN "allowed" ELSE "blocked"
                       [] OTHER -> "no-match")
      /\ r.decided_by = (IF splitters = {} THEN TheFirst(listed, covering) ELSE NoRule)
      /\ r.undecidable = Ahead(touching, covering) \ readable
  BY DEF FirstMatchOverRange
<1>5. Answers(listed, one) = {Permits(listed[i]) : i \in {i \in open : \A j \in certain : i <= j}}
                            \cup (IF certain = {} THEN {FALSE} ELSE {})
  BY DEF Answers
<1>6. open \subseteq touching
  BY MayTouch
<1>7. \A i \in covering : MayMatch(listed[i], one)
  BY CoveringMatches
<1>8. /\ touching \subseteq Nat /\ readable \subseteq touching /\ covering \subseteq readable /\ open \subseteq DOMAIN listed
      /\ covering \subseteq DOMAIN listed /\ open \subseteq Nat
      /\ \A i \in readable : listed[i].unresolved = {}
      /\ \A i \in open : Terminates(listed[i])
      /\ \A i \in DOMAIN listed : MayMatch(listed[i], one) /\ Terminates(listed[i]) => i \in open
      /\ certain \subseteq open
      /\ \A i \in open : listed[i].unresolved = {} => i \in certain
  OBVIOUS
<1> HIDE DEF r, touching, readable, covering, open, certain
<1>9. splitters = {}
  BY <1>2, <1>4
<1>10. CASE covering = {}
  <2>1. r.outcome = "no-match"
    BY <1>4, <1>9, <1>10
  <2>2. touching = {}
    <3>1. readable = {}
      BY <1>9, <1>10 DEF Ahead
    <3>2. Ahead(touching, covering) = touching
      BY <1>10 DEF Ahead
    <3> QED BY <1>2, <1>4, <3>1, <3>2
  <2>3. open = {} /\ certain = {}
    BY <1>6, <1>8, <2>2
  <2>4. Answers(listed, one) = {FALSE}
    BY <1>5, <2>3
  <2> QED BY <1>3, <2>1, <2>4
<1>11. CASE covering # {}
  <2> DEFINE m == Min(covering)
  <2>1. m \in covering /\ \A j \in covering : m <= j
    <3>1. covering \in SUBSET Nat
      BY <1>8
    <3> QED BY <3>1, <1>11, MinIs
  <2>2. TheFirst(listed, covering) = listed[m]
    BY <1>11 DEF TheFirst
  <2>3. r.outcome # "no-match" /\ r.decided_by = listed[m]
    BY <1>4, <1>9, <1>11, <2>2
  <2> HIDE DEF m
  <2>4. listed[m].action \in {"allow", "deny"} /\ Ask(listed, hop, q, q.port).action = listed[m].action
    BY <1>3, <2>3
  <2>5. m \in certain /\ m \in open /\ m \in Nat
    <3>1. Terminates(listed[m])
      BY <2>4 DEF Terminates
    <3> QED BY <3>1, <2>1, <1>7, <1>8
  <2>6. \A i \in touching : m <= i
    <3> SUFFICES ASSUME NEW i \in touching, i < m PROVE FALSE
      BY <1>8, <2>5
    <3>1. i \in Ahead(touching, covering)
      BY <2>1, <1>8, <2>5 DEF Ahead
    <3>2. i \in readable
      BY <3>1, <1>2, <1>4
    <3>3. i \in splitters
      BY <2>1, <1>8, <2>5, <3>2 DEF Ahead
    <3> QED BY <3>3, <1>9
  <2>7. {i \in open : \A j \in certain : i <= j} = {m}
    BY <1>6, <1>8, <2>5, <2>6
  <2>8. Answers(listed, one) = {Permits(listed[m])}
    BY <1>5, <2>5, <2>7
  <2>9. Permits(listed[m]) = (listed[m].action = "allow")
    BY <2>4 DEF Permits
  <2> QED BY <2>4, <2>8, <2>9
<1> QED BY <1>10, <1>11

-----------------------------------------------------------------------------
(* The lists of one device together *)

LEMMA Strongest ==
    ASSUME NEW V, V # {}
    PROVE  \E v \in V : /\ Combine(V).action = v.action
                        /\ \A w \in V : Precedence(v.action) >= Precedence(w.action)
                        /\ Combine(V).undecidable = (\E w \in V : w.undecidable)
<1>1. \A v \in V : Precedence(v.action) \in 0 .. 3
  BY DEF Precedence
<1>2. \E v \in V : \A w \in V : Precedence(v.action) >= Precedence(w.action)
  <2> DEFINE S == {3 - Precedence(v.action) : v \in V}
  <2>1. S \in SUBSET Nat /\ S # {}
    BY <1>1
  <2>2. PICK x \in S : \A y \in S : x <= y
    BY <2>1, Least
  <2>3. PICK v \in V : x = 3 - Precedence(v.action)
    BY <2>2
  <2>4. \A w \in V : x <= 3 - Precedence(w.action)
    BY <2>2
  <2> QED BY <1>1, <2>3, <2>4
<1> DEFINE top == CHOOSE v \in V : \A w \in V : Precedence(v.action) >= Precedence(w.action)
<1>3. top \in V /\ \A w \in V : Precedence(top.action) >= Precedence(w.action)
  BY <1>2
<1>4. Combine(V) = [action |-> top.action, undecidable |-> \E v \in V : v.undecidable]
  BY DEF Combine
<1> HIDE DEF top
<1> QED BY <1>3, <1>4

\* A hop whose verdict stops nobody.
Clear(verdict) == verdict.action = "allow" \/ (verdict.action = "none" /\ ~verdict.undecidable)

LEMMA CombinedAre ==
    ASSUME NEW V
    PROVE  /\ Combine(V).action = "deny" => \E v \in V : v.action = "deny"
           /\ (Clear(Combine(V)) /\ \A v \in V : v.action = "none" => v.undecidable)
                => \A v \in V : v.action = "allow"
<1>1. CASE V = {}
  BY <1>1 DEF Combine, NoVerdict, Clear
<1>2. CASE V # {}
  <2>1. PICK v \in V : /\ Combine(V).action = v.action
                       /\ \A w \in V : Precedence(v.action) >= Precedence(w.action)
                       /\ Combine(V).undecidable = (\E w \in V : w.undecidable)
    BY <1>2, Strongest
  <2>2. ASSUME Clear(Combine(V)), \A w \in V : w.action = "none" => w.undecidable, NEW w \in V
        PROVE  w.action = "allow"
    <3>1. Combine(V).action = "allow"
      BY <2>1, <2>2 DEF Clear
    <3>2. Precedence(v.action) = 0
      BY <2>1, <3>1 DEF Precedence
    <3>3. Precedence(w.action) \in 0 .. 3 /\ (Precedence(w.action) = 0 => w.action = "allow")
      BY DEF Precedence
    <3>4. Precedence(v.action) >= Precedence(w.action)
      BY <2>1
    <3> QED BY <3>2, <3>3, <3>4
  <2> QED BY <2>1, <2>2
<1> QED BY <1>1, <1>2

\* In plain words, a list that gives no action could not be decided.
LEMMA AskIs ==
    ASSUME NEW listed, DOMAIN listed \subseteq Nat, NEW hop, NEW q, NEW port,
           \A i \in DOMAIN listed : listed[i].action \in {"allow", "deny"}
    PROVE  LET says == Ask(listed, hop, q, port)
           IN  says.action \in {"allow", "deny", "mixed", "none"} /\ (says.action = "none" => says.undecidable)
<1> DEFINE asked == Asked(q, hop, port)
           r == FirstMatchOverRange(listed, asked)
           touching == {i \in DOMAIN listed : Touches(listed[i], asked)}
           readable == {i \in touching : listed[i].unresolved = {}}
           covering == {i \in readable : CoversRange(listed[i], asked)}
           splitters == Ahead(readable, covering)
<1>1. Ask(listed, hop, q, port) =
        IF r.outcome = "mixed" THEN [action |-> "mixed", undecidable |-> FALSE]
        ELSE IF r.undecidable # {} THEN [action |-> "none", undecidable |-> TRUE]
        ELSE [action |-> IF r.outcome = "no-match" THEN "deny" ELSE r.decided_by.action, undecidable |-> FALSE]
  BY DEF Ask, Asked
<1>2. /\ r.outcome = (CASE splitters # {} -> "mixed"
                       [] splitters = {} /\ covering # {} ->
                              IF Permits(TheFirst(listed, covering)) THEN "allowed" ELSE "blocked"
                       [] OTHER -> "no-match")
      /\ r.decided_by = (IF splitters = {} THEN TheFirst(listed, covering) ELSE NoRule)
  BY DEF FirstMatchOverRange
<1>3. covering \subseteq DOMAIN listed /\ covering \in SUBSET Nat
  OBVIOUS
<1> HIDE DEF r, covering, splitters
<1>4. r.outcome \notin {"mixed", "no-match"} => r.decided_by.action \in {"allow", "deny"}
  <2> SUFFICES ASSUME r.outcome \notin {"mixed", "no-match"} PROVE r.decided_by.action \in {"allow", "deny"}
    OBVIOUS
  <2>1. splitters = {} /\ covering # {}
    BY <1>2
  <2>2. Min(covering) \in covering
    BY <1>3, <2>1, MinIs
  <2>3. r.decided_by = listed[Min(covering)]
    BY <1>2, <2>1 DEF TheFirst
  <2> QED BY <1>3, <2>2, <2>3
<1> QED BY <1>1, <1>4

-----------------------------------------------------------------------------
\* The lists the walk asks are lists of the device, and all that are in force
\* where it is known what each is bound to.
AskedLists(node, hop) ==
    LET listed == InForce(node)
        names == Contexts(listed)
    IN  Filled(IF Several(names) THEN {OfBase(listed, n) : n \in GoverningRulebases(node, hop, names)} ELSE {listed})

LEMMA EvaluateIs ==
    \A node, hop, q, port : Evaluate(node, hop, q, port) = Combine({Ask(list, hop, q, port) : list \in AskedLists(node, hop)})
BY DEF Evaluate, AskedLists

LEMMA InForceIs ==
    ASSUME NEW node
    PROVE  /\ InForce(node) = [i \in DOMAIN InForce(node) |-> node.rules[i]]
           /\ DOMAIN InForce(node) \subseteq DOMAIN node.rules
<1> DEFINE S == {i \in DOMAIN node.rules : node.rules[i].applied}
<1>1. InForce(node) = [i \in S |-> node.rules[i]]
  BY DEF InForce, Restrict
<1> QED BY <1>1

LEMMA OfBaseAll ==
    ASSUME NEW listed, listed = [i \in DOMAIN listed |-> listed[i]], NEW n
    PROVE  /\ (\A i \in DOMAIN listed : listed[i].rulebase = n) => OfBase(listed, n) = listed
           /\ (\A i \in DOMAIN listed : listed[i].rulebase # n) => DOMAIN OfBase(listed, n) = {}
<1> DEFINE S == {i \in DOMAIN listed : listed[i].rulebase = n}
<1>1. OfBase(listed, n) = [i \in S |-> listed[i]]
  BY DEF OfBase, Restrict
<1>2. (\A i \in DOMAIN listed : listed[i].rulebase = n) => S = DOMAIN listed
  OBVIOUS
<1>3. (\A i \in DOMAIN listed : listed[i].rulebase # n) => S = {}
  OBVIOUS
<1> HIDE DEF S
<1>4. DOMAIN OfBase(listed, n) = S
  BY <1>1
<1> QED BY <1>1, <1>2, <1>3, <1>4

LEMMA ListsAreReal ==
    ASSUME NEW e, NEW d \in Device, NEW hop, ListsApart(e)
    PROVE  /\ AskedLists(e[d], hop) \subseteq RealLists(e[d], hop)
           /\ ListsBound(e) => AskedLists(e[d], hop) = RealLists(e[d], hop)
<1> DEFINE node == e[d]
           listed == InForce(node)
           names == Contexts(listed)
           bound == {b.rulebase : b \in node.bindings}
           governing == GoverningRulebases(node, hop, names)
<1>1. RealLists(node, hop) = Filled({OfBase(listed, n) : n \in governing \cup (names \ bound) \cup {NoBase}})
  BY DEF RealLists
<1>2. AskedLists(node, hop) = Filled(IF Several(names) THEN {OfBase(listed, n) : n \in governing} ELSE {listed})
  BY DEF AskedLists
<1>3. governing \subseteq names /\ (node.bindings = {} => governing = {})
  BY DEF GoverningRulebases
<1>4. node.bindings = {} => bound = {}
  OBVIOUS
<1>5. names # {} => /\ Several(names) \/ node.bindings = {}
                    /\ \A i \in DOMAIN listed : listed[i].rulebase # NoBase
  BY DEF ListsApart
<1>6. names = {listed[i].rulebase : i \in DOMAIN listed} \ {NoBase}
  BY DEF Contexts
<1>7. ListsBound(e) => (Several(names) => names \subseteq bound)
  BY DEF ListsBound
<1>8. listed = [i \in DOMAIN listed |-> listed[i]]
  BY InForceIs
<1> HIDE DEF node, listed, names, bound, governing
<1>9. names # {} => DOMAIN OfBase(listed, NoBase) = {}
  BY <1>5, <1>8, OfBaseAll
<1>10. CASE names = {}
  <2>1. \A i \in DOMAIN listed : listed[i].rulebase = NoBase
    BY <1>6, <1>10
  <2>2. OfBase(listed, NoBase) = listed
    BY <1>8, <2>1, OfBaseAll
  <2>3. ~Several(names)
    BY <1>10 DEF Several
  <2>4. {OfBase(listed, n) : n \in governing \cup (names \ bound) \cup {NoBase}} = {listed}
    BY <1>3, <1>10, <2>2
  <2> QED BY <1>1, <1>2, <2>3, <2>4 DEF node
<1>11. CASE names # {} /\ ~Several(names)
  <2>1. PICK n \in names : names = {n}
    BY <1>11 DEF Several
  <2>2. governing = {} /\ bound = {}
    BY <1>3, <1>4, <1>5, <1>11
  <2>3. OfBase(listed, n) = listed
    <3>1. \A i \in DOMAIN listed : listed[i].rulebase = n
      BY <1>5, <1>6, <1>11, <2>1
    <3> QED BY <1>8, <3>1, OfBaseAll
  <2>4. {OfBase(listed, m) : m \in governing \cup (names \ bound) \cup {NoBase}} = {listed, OfBase(listed, NoBase)}
    BY <2>1, <2>2, <2>3
  <2>5. Filled({listed, OfBase(listed, NoBase)}) = Filled({listed})
    BY <1>9, <1>11 DEF Filled
  <2> QED BY <1>1, <1>2, <1>11, <2>4, <2>5 DEF node
<1>12. CASE Several(names)
  <2>1. names # {}
    BY <1>12 DEF Several
  <2>2. AskedLists(node, hop) = Filled({OfBase(listed, n) : n \in governing})
    BY <1>2, <1>12
  <2>3. AskedLists(node, hop) \subseteq RealLists(node, hop)
    BY <1>1, <2>2 DEF Filled
  <2>4. ASSUME ListsBound(e) PROVE RealLists(node, hop) \subseteq AskedLists(node, hop)
    <3>1. names \ bound = {}
      BY <1>7, <1>12, <2>4
    <3>2. RealLists(node, hop) = Filled({OfBase(listed, n) : n \in governing \cup {NoBase}})
      BY <1>1, <3>1
    <3> QED BY <1>9, <2>1, <2>2, <3>2 DEF Filled
  <2> QED BY <2>3, <2>4 DEF node
<1> QED BY <1>10, <1>11, <1>12

\* What the walk asks and what is in force are parts of the device's listed.
LEMMA ListsArePart ==
    ASSUME NEW e \in Estates, NEW d \in Device, NEW hop,
           NEW list \in AskedLists(e[d], hop) \cup RealLists(e[d], hop)
    PROVE  /\ DOMAIN list \subseteq Nat
           /\ \A i \in DOMAIN list : i \in DOMAIN e[d].rules /\ list[i] = e[d].rules[i]
<1> DEFINE listed == InForce(e[d])
<1>1. DOMAIN e[d].rules \subseteq Nat
  BY PathAssumption
<1>2. DOMAIN listed \subseteq DOMAIN e[d].rules /\ \A i \in DOMAIN listed : listed[i] = e[d].rules[i]
  BY InForceIs
<1>3. list = listed \/ \E n : list = OfBase(listed, n)
  BY DEF AskedLists, RealLists, Filled
<1> HIDE DEF listed
<1>4. list = listed => /\ DOMAIN list \subseteq Nat
                      /\ \A i \in DOMAIN list : i \in DOMAIN e[d].rules /\ list[i] = e[d].rules[i]
  BY <1>1, <1>2
<1>5. \A n : /\ DOMAIN OfBase(listed, n) \subseteq DOMAIN listed
             /\ \A i \in DOMAIN OfBase(listed, n) : OfBase(listed, n)[i] = listed[i]
  BY DEF OfBase, Restrict
<1>6. \A n : list = OfBase(listed, n) => /\ DOMAIN list \subseteq DOMAIN listed
                                       /\ \A i \in DOMAIN list : list[i] = listed[i]
  BY <1>5
<1>7. (\E n : list = OfBase(listed, n)) => /\ DOMAIN list \subseteq Nat
                                         /\ \A i \in DOMAIN list : i \in DOMAIN e[d].rules /\ list[i] = e[d].rules[i]
  BY <1>1, <1>2, <1>6
<1> QED BY <1>3, <1>4, <1>7

\* In plain words a device answers in them.
Words == {"allow", "deny", "mixed", "none"}

LEMMA WordsAre ==
    ASSUME NEW e \in Estates, NEW d \in Device, NEW hop, NEW q, NEW port, PlainWords(e)
    PROVE  Evaluate(e[d], hop, q, port).action \in Words
<1> DEFINE V == {Ask(list, hop, q, port) : list \in AskedLists(e[d], hop)}
<1>1. \A list \in AskedLists(e[d], hop) :
          DOMAIN list \subseteq Nat /\ \A i \in DOMAIN list : i \in DOMAIN e[d].rules /\ list[i] = e[d].rules[i]
  BY ListsArePart
<1>2. \A list \in AskedLists(e[d], hop) : \A i \in DOMAIN list : list[i].action \in {"allow", "deny"}
  BY <1>1 DEF PlainWords
<1>3. \A v \in V : v.action \in Words
  BY <1>1, <1>2, AskIs DEF Words
<1>4. Evaluate(e[d], hop, q, port) = Combine(V)
  BY EvaluateIs
<1> HIDE DEF V
<1>5. CASE V = {}
  BY <1>4, <1>5 DEF Combine, NoVerdict, Words
<1>6. CASE V # {}
  BY <1>3, <1>4, <1>6, Strongest
<1> QED BY <1>5, <1>6
-----------------------------------------------------------------------------
\* What becomes of a packet at a device where the walk asked about its range.
LEMMA FilteredIs ==
    ASSUME NEW e \in Estates, NEW d \in Device, NEW hop, NEW q, NEW p \in PacketsOf(q), NEW onward, ListsApart(e)
    PROVE  LET V == Evaluate(e[d], hop, q, q.port)
               F == Filtered(e[d], hop, p, onward)
           IN  /\ F \subseteq onward \cup {"dropped"}
               /\ onward # {} => F # {}
               /\ V.action = "deny" => F = {"dropped"}
               /\ Clear(V) /\ ListsBound(e) /\ PlainWords(e) => F = onward
<1> DEFINE V == Evaluate(e[d], hop, q, q.port)
           F == Filtered(e[d], hop, p, onward)
           one == OnePacket(p, hop)
           lists == AskedLists(e[d], hop)
           real == RealLists(e[d], hop)
           says == {Answers(list, one) : list \in real}
           verdicts == {Ask(list, hop, q, q.port) : list \in lists}
<1>1. F = (IF \E a \in says : FALSE \in a THEN {"dropped"} ELSE {}) \cup (IF \A a \in says : TRUE \in a THEN onward ELSE {})
  BY DEF Filtered, OnePacket
<1>2. V = Combine(verdicts)
  BY EvaluateIs
<1>3. lists \subseteq real /\ (ListsBound(e) => lists = real)
  BY ListsAreReal
<1>4. \A list \in real : DOMAIN list \subseteq Nat /\ \A i \in DOMAIN list : i \in DOMAIN e[d].rules /\ list[i] = e[d].rules[i]
  BY ListsArePart
<1>5. \A a \in says : a # {} /\ a \subseteq BOOLEAN
  BY <1>4, AnswersAre
<1>6. \A list \in lists : Ask(list, hop, q, q.port).action \in {"allow", "deny"} =>
            Answers(list, one) = {Ask(list, hop, q, q.port).action = "allow"}
  BY <1>3, <1>4, AnswerIsOne
<1>7. PlainWords(e) => \A list \in lists : Ask(list, hop, q, q.port).action = "none" => Ask(list, hop, q, q.port).undecidable
  BY <1>3, <1>4, AskIs DEF PlainWords
<1> HIDE DEF F, V, one, lists, real
<1>8. F \subseteq onward \cup {"dropped"}
  BY <1>1
<1>9. onward # {} => F # {}
  BY <1>1, <1>5
<1>10. ASSUME V.action = "deny" PROVE F = {"dropped"}
  <2>1. PICK list \in lists : Ask(list, hop, q, q.port).action = "deny"
    BY <1>2, <1>10, CombinedAre
  <2>2. Answers(list, one) = {FALSE}
    BY <1>6, <2>1
  <2>3. {FALSE} \in says
    BY <1>3, <2>1, <2>2
  <2>4. TRUE \notin {FALSE} /\ FALSE \in {FALSE}
    OBVIOUS
  <2> QED BY <1>1, <2>3, <2>4
<1>11. ASSUME Clear(V), ListsBound(e), PlainWords(e) PROVE F = onward
  <2>1. \A v \in verdicts : v.action = "none" => v.undecidable
    BY <1>7, <1>11
  <2>2. \A v \in verdicts : v.action = "allow"
    BY <1>2, <1>11, <2>1, CombinedAre
  <2>3. \A list \in lists : Answers(list, one) = {TRUE}
    BY <1>6, <2>2
  <2>4. \A a \in says : a = {TRUE}
    BY <1>3, <1>11, <2>3
  <2>5. TRUE \in {TRUE} /\ FALSE \notin {TRUE}
    OBVIOUS
  <2> HIDE DEF says
  <2> QED BY <1>1, <2>4, <2>5
<1> QED BY <1>8, <1>9, <1>10, <1>11 DEF F, V

-----------------------------------------------------------------------------
(* A range that lies in one piece *)

\* Two addresses no subnet of a device tells apart.
SameSubnets(node, a, b) == \A set \in Subnets(node) : a \in set <=> b \in set

LEMMA WholeIsAlike ==
    ASSUME NEW e, NEW q, WholeRanges(e, q), NEW d \in Device
    PROVE  /\ \A a, b \in q.srcs : SameSubnets(e[d], a, b)
           /\ \A a, b \in q.dsts : SameSubnets(e[d], a, b)
BY DEF WholeRanges, Whole, SameSubnets

LEMMA AlikeConnected ==
    ASSUME NEW node, NEW a, NEW b, SameSubnets(node, a, b)
    PROVE  \A c \in Connected(node) : a \in c.set <=> b \in c.set
BY DEF SameSubnets, Subnets

LEMMA AlikeArrivals ==
    ASSUME NEW node, NEW a, NEW b, SameSubnets(node, a, b)
    PROVE  /\ InterfaceContaining(node, a) = InterfaceContaining(node, b)
           /\ ZoneContaining(node, a) = ZoneContaining(node, b)
           /\ \A egress, zone : HopAt(node, a, egress, zone) = HopAt(node, b, egress, zone)
           /\ Serves(node, a) = Serves(node, b)
<1> DEFINE N == {n \in node.networks : Cardinality(n.prefix.set) > 1}
           Z == {n \in node.networks : node.zones[n.interface] # NoZone}
<1>1. \A n \in N \cup Z : a \in n.prefix.set <=> b \in n.prefix.set
  BY DEF SameSubnets, Subnets
<1> HIDE DEF N, Z
<1>2. Nearest(N, a) = Nearest(N, b)
  <2>1. {n \in N : a \in n.prefix.set} = {n \in N : b \in n.prefix.set}
    BY <1>1
  <2> QED BY <2>1 DEF Nearest
<1>3. Nearest(Z, a) = Nearest(Z, b)
  <2>1. {n \in Z : a \in n.prefix.set} = {n \in Z : b \in n.prefix.set}
    BY <1>1
  <2> QED BY <2>1 DEF Nearest
<1>4. InterfaceContaining(node, a) = InterfaceContaining(node, b)
  BY <1>2 DEF InterfaceContaining, N
<1>5. ZoneContaining(node, a) = ZoneContaining(node, b)
  <2>1. \A x : ZoneContaining(node, x) = LET S == Nearest(Z, x)
                                       IN  IF S = {} THEN NoZone ELSE node.zones[(CHOOSE n \in S : TRUE).interface]
    BY DEF ZoneContaining, Z
  <2> QED BY <1>3, <2>1
<1>6. Serves(node, a) = Serves(node, b)
  BY AlikeConnected DEF Serves
<1> QED BY <1>4, <1>5, <1>6 DEF HopAt

LEMMA AlikePairs ==
    ASSUME NEW node, NEW a, NEW b, SameSubnets(node, a, b), NEW x, NEW y, SameSubnets(node, x, y)
    PROVE  SameConnectedSubnet(node, a, x) = SameConnectedSubnet(node, b, y)
BY AlikeConnected DEF SameConnectedSubnet

\* The lengths of the subnets of a device that hold an address.
LengthsAt(node, address) == {c.len : c \in {c \in Connected(node) : address \in c.set}}

LEMMA AlikeServers ==
    ASSUME NEW e, NEW a, NEW b, \A d \in Device : SameSubnets(e[d], a, b)
    PROVE  DeviceServing(e, a) = DeviceServing(e, b)
<1> DEFINE A == [d \in Device |-> LengthsAt(e[d], a)]
           B == [d \in Device |-> LengthsAt(e[d], b)]
           Of(L) == IF {d \in Device : L[d] # {}} = {} THEN NoDevice
                    ELSE First({d \in {d \in Device : L[d] # {}} :
                                   \A f \in {d2 \in Device : L[d2] # {}} : Max(L[d]) >= Max(L[f])})
<1>1. \A d \in Device : {c \in Connected(e[d]) : a \in c.set} = {c \in Connected(e[d]) : b \in c.set}
  BY AlikeConnected
<1>2. A = B
  BY <1>1 DEF LengthsAt
<1>3. DeviceServing(e, a) = Of(A)
  <2>1. \A d \in Device : A[d] = LengthsAt(e[d], a)
    OBVIOUS
  <2> HIDE DEF A
  <2> QED BY <2>1 DEF DeviceServing, LengthsAt
<1>4. DeviceServing(e, b) = Of(B)
  <2>1. \A d \in Device : B[d] = LengthsAt(e[d], b)
    OBVIOUS
  <2> HIDE DEF B
  <2> QED BY <2>1 DEF DeviceServing, LengthsAt
<1> HIDE DEF A, B
<1> QED BY <1>2, <1>3, <1>4

LEMMA MaxIs == \A S \in SUBSET (0 .. 128) : S # {} => Max(S) \in S /\ (\A y \in S : Max(S) >= y)
<1> SUFFICES ASSUME NEW S \in SUBSET (0 .. 128), S # {} PROVE \E x \in S : \A y \in S : x >= y
  BY DEF Max
<1> DEFINE T == {128 - x : x \in S}
<1>1. \A x \in S : x \in 0 .. 128 /\ 128 - x \in Nat /\ 128 - x \in T
  OBVIOUS
<1>2. T \in SUBSET Nat /\ T # {} /\ \A t \in T : \E x \in S : t = 128 - x
  BY <1>1
<1> HIDE DEF T
<1>3. PICK m \in T : \A y \in T : m <= y
  BY <1>2, Least
<1>4. PICK x \in S : m = 128 - x
  BY <1>2
<1>5. \A y \in S : m <= 128 - y
  BY <1>1, <1>3
<1> QED BY <1>1, <1>4, <1>5

LEMMA ServingIsADevice ==
    ASSUME NEW e \in Estates, NEW a
    PROVE  DeviceServing(e, a) \in Device \cup {NoDevice}
<1> DEFINE L == [d \in Device |-> LengthsAt(e[d], a)]
           attached == {d \in Device : L[d] # {}}
           most == {d \in attached : \A f \in attached : Max(L[d]) >= Max(L[f])}
<1>1. \A d \in Device : L[d] \in SUBSET (0 .. 128)
  <2> TAKE d \in Device
  <2>1. \A i \in DOMAIN e[d].routes : e[d].routes[i].prefix.len \in 0 .. 128
    BY PathAssumption
  <2>2. \A c \in Connected(e[d]) : c.len \in 0 .. 128
    BY <2>1 DEF Connected
  <2>3. LengthsAt(e[d], a) \in SUBSET (0 .. 128)
    BY <2>2 DEF LengthsAt
  <2> QED BY <2>3
<1>2. DeviceServing(e, a) = IF attached = {} THEN NoDevice ELSE First(most)
  <2>1. \A d \in Device : L[d] = LengthsAt(e[d], a)
    OBVIOUS
  <2> HIDE DEF L
  <2> QED BY <2>1 DEF DeviceServing, LengthsAt
<1> HIDE DEF L
<1>3. ASSUME attached # {} PROVE most # {}
  <2>1. \A d \in attached : Max(L[d]) \in 0 .. 128
    <3> TAKE d \in attached
    <3>1. L[d] \in SUBSET (0 .. 128) /\ L[d] # {}
      BY <1>1
    <3> QED BY <3>1, MaxIs
  <2>2. {Max(L[d]) : d \in attached} \in SUBSET (0 .. 128) /\ {Max(L[d]) : d \in attached} # {}
    BY <2>1, <1>3
  <2> DEFINE top == Max({Max(L[d]) : d \in attached})
  <2>3. top \in {Max(L[d]) : d \in attached} /\ \A y \in {Max(L[d]) : d \in attached} : top >= y
    BY <2>2, MaxIs
  <2>4. PICK d \in attached : top = Max(L[d])
    BY <2>3
  <2>5. \A f \in attached : top >= Max(L[f])
    BY <2>3
  <2> QED BY <2>4, <2>5
<1>4. most \subseteq Device /\ Device \subseteq Nat
  BY PathAssumption
<1> HIDE DEF attached, most
<1>5. CASE attached = {}
  BY <1>2, <1>5
<1>6. CASE attached # {}
  <2>1. First(most) \in most
    BY <1>3, <1>4, <1>6, FirstIs
  <2> QED BY <1>2, <1>4, <1>6, <2>1
<1> QED BY <1>5, <1>6

LEMMA OwnerIsADevice ==
    ASSUME NEW e \in Estates, NEW a
    PROVE  /\ DeviceAt(e, a) \in Device \cup {NoDevice}
           /\ DeviceAt(e, a) # NoDevice => a \in Address /\ DeviceAt(e, a) \in Device
<1> DEFINE owners == {d \in Device : a \in e[d].addresses}
<1>1. DeviceAt(e, a) = IF owners = {} THEN NoDevice ELSE First(owners)
  BY DEF DeviceAt
<1>2. owners \in SUBSET Nat /\ owners \subseteq Device /\ NoDevice \notin Device
  BY PathAssumption
<1>3. \A d \in owners : a \in Address
  BY PathAssumption
<1> HIDE DEF owners
<1>4. owners # {} => First(owners) \in owners
  BY <1>2, FirstIs
<1> QED BY <1>1, <1>2, <1>3, <1>4

LEMMA FirstOfQuery ==
    ASSUME NEW q \in Queries
    PROVE  /\ First(q.srcs) \in q.srcs /\ First(q.dsts) \in q.dsts
           /\ q.srcs \subseteq Address /\ q.dsts \subseteq Address
<1>1. q.srcs \in (SUBSET Address) \ {{}} /\ q.dsts \in (SUBSET Address) \ {{}} /\ Address \subseteq Nat
  BY PathAssumption
<1>2. q.srcs \in SUBSET Nat /\ q.dsts \in SUBSET Nat /\ q.srcs # {} /\ q.dsts # {}
  BY <1>1
<1> QED BY <1>1, <1>2, FirstIs
-----------------------------------------------------------------------------
(* Translation and routes *)

\* The listed of a device's NAT that the packet may meet.
MetBy(node, src, dst) ==
    {i \in DOMAIN node.nat :
        LET r == node.nat[i] IN r.normalised /\ Meets(r.src, src) # "no" /\ Meets(r.dst, dst) # "no"}

LEMMA TranslateIs ==
    ASSUME NEW node, NEW src, NEW dst, NEW port
    PROVE  (~Translate(node, src, dst, port).applied /\ ~Translate(node, src, dst, port).unreadable)
               <=> MetBy(node, src, dst) = {}
<1> DEFINE r == node.nat[First(MetBy(node, src, dst))]
           Or(new, old) == IF new = NoAddress THEN old ELSE new
<1>1. Translate(node, src, dst, port) =
        IF MetBy(node, src, dst) = {} THEN [applied |-> FALSE, unreadable |-> FALSE]
        ELSE IF \/ "unknown" \in {Meets(r.src, src), Meets(r.dst, dst)}
                \/ r.unreadable \/ Pool \in {r.to_src, r.to_dst}
             THEN [applied |-> FALSE, unreadable |-> TRUE]
        ELSE [applied |-> TRUE, unreadable |-> FALSE, src |-> Or(r.to_src, src),
              dst |-> Or(r.to_dst, dst), port |-> Or(r.to_port, port)]
  BY DEF Translate, MetBy
<1> HIDE DEF r, Or
<1> QED BY <1>1

\* What the walk finds untranslated is translated for no packet of the question.
LEMMA NothingTranslated ==
    ASSUME NEW e, NEW q \in Queries, NEW d \in Device, WholeRanges(e, q), NEW p \in PacketsOf(q),
           ~TranslateAt(e[d], First(q.srcs), First(q.dsts), q.port, q.dsts).applied,
           ~TranslateAt(e[d], First(q.srcs), First(q.dsts), q.port, q.dsts).unreadable
    PROVE  ~Translate(e[d], p.src, p.dst, p.port).applied /\ ~Translate(e[d], p.src, p.dst, p.port).unreadable
<1> DEFINE node == e[d]
           src == First(q.srcs)
           dst == First(q.dsts)
<1>1. p.src \in q.srcs /\ p.dst \in q.dsts /\ src \in q.srcs /\ dst \in q.dsts
  BY FirstOfQuery DEF PacketsOf
<1>2. \A i \in DOMAIN node.nat : Meets(node.nat[i].src, p.src) = Meets(node.nat[i].src, src)
  <2>1. \A i \in DOMAIN node.nat : Whole(q.srcs, node.nat[i].src.known)
    BY DEF WholeRanges
  <2>2. \A i \in DOMAIN node.nat : p.src \in node.nat[i].src.known <=> src \in node.nat[i].src.known
    <3> HIDE DEF src
    <3> QED BY <1>1, <2>1 DEF Whole
  <2> QED BY <2>2 DEF Meets
<1> SUFFICES MetBy(node, p.src, p.dst) = {}
  BY TranslateIs
<1>3. CASE Several(q.dsts)
  <2>1. ~NatTouches(node, q.dsts)
    BY <1>3 DEF TranslateAt
  <2>2. \A i \in DOMAIN node.nat : node.nat[i].normalised => Meets(node.nat[i].dst, p.dst) = "no"
    BY <1>1, <2>1 DEF NatTouches, Meets
  <2> QED BY <2>2 DEF MetBy
<1>4. CASE ~Several(q.dsts)
  <2>1. p.dst = dst
    BY <1>1, <1>4 DEF Several
  <2>2. MetBy(node, src, dst) = {}
    BY <1>4, TranslateIs DEF TranslateAt
  <2> QED BY <1>2, <2>1, <2>2 DEF MetBy
<1> QED BY <1>3, <1>4

\* A range no route subdivides is routed as its first address.
LEMMA RoutedAlike ==
    ASSUME NEW node, NEW q, NEW x \in q.dsts, NEW y \in q.dsts,
           Several(q.dsts) => RoutesSubdividing(node, q.dsts) = {}
    PROVE  Reaching(node, x) = Reaching(node, y)
<1>1. CASE Several(q.dsts)
  <2>1. \A i \in DOMAIN node.routes : node.routes[i].global =>
            (x \in node.routes[i].prefix.set <=> y \in node.routes[i].prefix.set)
    BY <1>1 DEF RoutesSubdividing
  <2> QED BY <2>1 DEF Reaching
<1>2. CASE ~Several(q.dsts)
  <2>1. x = y
    BY <1>2 DEF Several
  <2> QED BY <2>1
<1> QED BY <1>1, <1>2

\* Where no branch is seen, the best routes all go one way.
LEMMA OneWay ==
    ASSUME NEW e, NEW d \in Device, NEW address \in Address, TiesAreSeen(e),
           EqualCostNextHops(e[d], address) = {},
           NEW i \in Best(e[d], Reaching(e[d], address)), NEW j \in Best(e[d], Reaching(e[d], address))
    PROVE  /\ e[d].routes[i].next_hop = e[d].routes[j].next_hop
           /\ e[d].routes[i].interface = e[d].routes[j].interface
<1> DEFINE node == e[d]
           S == {k \in Reaching(node, address) : node.routes[k].next_hop # NoAddress}
           hops == {node.routes[k].next_hop : k \in Best(node, S)}
<1>1. EqualCostNextHops(node, address) = IF Several(hops) THEN hops ELSE {}
  BY DEF EqualCostNextHops
<1>2. \/ node.routes[i].next_hop = node.routes[j].next_hop /\ node.routes[i].interface = node.routes[j].interface
      \/ /\ node.routes[i].next_hop # node.routes[j].next_hop
         /\ node.routes[i].next_hop # NoAddress /\ node.routes[j].next_hop # NoAddress
  BY DEF TiesAreSeen
<1>3. ~Several(hops)
  BY <1>1 DEF Several
<1>4. node.routes[i].next_hop # NoAddress => node.routes[i].next_hop \in hops
  BY DEF Best
<1>5. node.routes[j].next_hop # NoAddress => node.routes[j].next_hop \in hops
  BY DEF Best
<1> HIDE DEF hops
<1> QED BY <1>2, <1>3, <1>4, <1>5 DEF Several

-----------------------------------------------------------------------------
(* The ends of a packet *)

\* What lies beyond a route.
Onward(e, r, beyond) ==
    LET next == DeviceAt(e, r.next_hop) IN IF next = NoDevice THEN Anything ELSE beyond[<<next, r.next_hop>>]

LEMMA FateIs ==
    ASSUME NEW e, NEW p, NEW d, NEW from, NEW beyond,
           ~Translate(e[d], p.src, p.dst, p.port).applied, ~Translate(e[d], p.src, p.dst, p.port).unreadable,
           ~UnnormalisedNat(e[d])
    PROVE  LET node == e[d]
               best == Best(node, Reaching(node, p.dst))
           IN  Fate(e, p, d, from, beyond) =
                 IF Serves(node, p.dst)
                 THEN Filtered(node, HopAt(node, from, InterfaceContaining(node, p.dst), ZoneContaining(node, p.dst)),
                               p, {"delivered"})
                 ELSE IF best = {}
                 THEN IF ~node.routes_known \/ node.truncated \/ OtherVrfsMatching(node, p.dst)
                      THEN Anything ELSE {"dropped"}
                 ELSE UNION {Filtered(node, HopAt(node, from, {node.routes[i].interface}, node.zones[node.routes[i].interface]),
                                      p, Onward(e, node.routes[i], beyond)) : i \in best}
BY DEF Fate, Onward

Ending == [Device \X Address -> SUBSET Anything]

LEMMA OnwardTyped ==
    ASSUME NEW e \in Estates, NEW r, NEW beyond \in Ending
    PROVE  Onward(e, r, beyond) \subseteq Anything
<1>1. CASE DeviceAt(e, r.next_hop) = NoDevice
  BY <1>1 DEF Onward
<1>2. CASE DeviceAt(e, r.next_hop) # NoDevice
  <2>1. <<DeviceAt(e, r.next_hop), r.next_hop>> \in Device \X Address
    BY <1>2, OwnerIsADevice
  <2>2. beyond[<<DeviceAt(e, r.next_hop), r.next_hop>>] \in SUBSET Anything
    BY <2>1 DEF Ending
  <2> QED BY <1>2, <2>2 DEF Onward
<1> QED BY <1>1, <1>2

LEMMA FilteredTyped ==
    ASSUME NEW node, NEW hop, NEW p, NEW onward, onward \subseteq Anything
    PROVE  Filtered(node, hop, p, onward) \subseteq Anything
BY DEF Filtered, Anything

LEMMA FateTyped ==
    ASSUME NEW e \in Estates, NEW p, NEW d, NEW from, NEW beyond \in Ending
    PROVE  Fate(e, p, d, from, beyond) \subseteq Anything
<1>1. CASE Translate(e[d], p.src, p.dst, p.port).applied \/ Translate(e[d], p.src, p.dst, p.port).unreadable \/ UnnormalisedNat(e[d])
  BY <1>1 DEF Fate
<1>2. CASE ~(Translate(e[d], p.src, p.dst, p.port).applied \/ Translate(e[d], p.src, p.dst, p.port).unreadable \/ UnnormalisedNat(e[d]))
  <2> DEFINE node == e[d]
             best == Best(node, Reaching(node, p.dst))
             arrived == Filtered(node, HopAt(node, from, InterfaceContaining(node, p.dst), ZoneContaining(node, p.dst)),
                                 p, {"delivered"})
             sent(i) == Filtered(node, HopAt(node, from, {node.routes[i].interface}, node.zones[node.routes[i].interface]),
                                 p, Onward(e, node.routes[i], beyond))
  <2>1. arrived \subseteq Anything
    <3>1. {"delivered"} \subseteq Anything
      BY DEF Anything
    <3> QED BY <3>1, FilteredTyped
  <2>2. \A i : sent(i) \subseteq Anything
    <3> TAKE i
    <3>1. Onward(e, node.routes[i], beyond) \subseteq Anything
      BY OnwardTyped
    <3> QED BY <3>1, FilteredTyped
  <2>3. Fate(e, p, d, from, beyond) =
          IF Serves(node, p.dst) THEN arrived
          ELSE IF best = {} THEN IF ~node.routes_known \/ node.truncated \/ OtherVrfsMatching(node, p.dst)
                                 THEN Anything ELSE {"dropped"}
          ELSE UNION {sent(i) : i \in best}
    BY <1>2, FateIs
  <2> HIDE DEF arrived, sent, best
  <2>4. UNION {sent(i) : i \in best} \subseteq Anything
    BY <2>2
  <2>5. {"dropped"} \subseteq Anything
    BY DEF Anything
  <2> QED BY <2>1, <2>3, <2>4, <2>5
<1> QED BY <1>1, <1>2

\* Where a packet came from matters by the interface and the zone it came in by.
LEMMA FateFrom ==
    ASSUME NEW e, NEW p, NEW d, NEW a, NEW b, NEW beyond, SameSubnets(e[d], a, b)
    PROVE  Fate(e, p, d, a, beyond) = Fate(e, p, d, b, beyond)
<1>1. \A egress, zone : HopAt(e[d], a, egress, zone) = HopAt(e[d], b, egress, zone)
  BY AlikeArrivals
<1>2. CASE Translate(e[d], p.src, p.dst, p.port).applied \/ Translate(e[d], p.src, p.dst, p.port).unreadable \/ UnnormalisedNat(e[d])
  BY <1>2 DEF Fate
<1>3. CASE ~(Translate(e[d], p.src, p.dst, p.port).applied \/ Translate(e[d], p.src, p.dst, p.port).unreadable \/ UnnormalisedNat(e[d]))
  <2> DEFINE node == e[d]
             best == Best(node, Reaching(node, p.dst))
             Arrived(x) == Filtered(node, HopAt(node, x, InterfaceContaining(node, p.dst), ZoneContaining(node, p.dst)),
                                    p, {"delivered"})
             Sent(x, i) == Filtered(node, HopAt(node, x, {node.routes[i].interface}, node.zones[node.routes[i].interface]),
                                    p, Onward(e, node.routes[i], beyond))
             EndsAt(x) ==
                 IF Serves(node, p.dst) THEN Arrived(x)
                 ELSE IF best = {}
                 THEN IF ~node.routes_known \/ node.truncated \/ OtherVrfsMatching(node, p.dst)
                      THEN Anything ELSE {"dropped"}
                 ELSE UNION {Sent(x, i) : i \in best}
  <2>1. Fate(e, p, d, a, beyond) = EndsAt(a)
    BY <1>3, FateIs
  <2>2. Fate(e, p, d, b, beyond) = EndsAt(b)
    BY <1>3, FateIs
  <2>3. EndsAt(a) = EndsAt(b)
    <3>1. Arrived(a) = Arrived(b)
      BY <1>1
    <3>2. \A i \in best : Sent(a, i) = Sent(b, i)
      BY <1>1
    <3> HIDE DEF node, best, Arrived, Sent
    <3> QED BY <3>1, <3>2
  <2> HIDE DEF EndsAt
  <2> QED BY <2>1, <2>2, <2>3
<1> QED BY <1>2, <1>3

LEMMA WithinIs ==
    ASSUME NEW e \in Estates, NEW p
    PROVE  LET f == FatesWithin(e, p)
               n == Cardinality(Device) + 1
           IN  /\ f \in [0 .. n -> Ending]
               /\ \A at \in Device \X Address : f[0][at] = {"dropped"}
               /\ \A k \in 1 .. n : \A d \in Device, from \in Address : f[k][<<d, from>>] = Fate(e, p, d, from, f[k - 1])
<1> DEFINE n == Cardinality(Device) + 1
           D == Device \X Address
           S == Ending
           base == [at \in D |-> {"dropped"}]
           Beyond(g) == [at \in D |-> Fate(e, p, at[1], at[2], g)]
           Eq(f) == f = [k \in 0 .. n |-> [at \in D |-> IF k = 0 THEN {"dropped"} ELSE Fate(e, p, at[1], at[2], f[k - 1])]]
           step == [x \in (1 .. n) \X S |-> Beyond(x[2])]
<1>1. n \in Nat
  BY PathAssumption, FS_CardinalityType
<1>2. FatesWithin(e, p) = CHOOSE f : Eq(f)
  BY DEF FatesWithin
<1>3. base \in S
  BY DEF Ending, Anything
<1>4. \A g \in S : Beyond(g) \in S
  <2> TAKE g \in S
  <2>1. \A at \in D : Fate(e, p, at[1], at[2], g) \in SUBSET Anything
    BY FateTyped
  <2> HIDE DEF D
  <2> QED BY <2>1 DEF Ending, D
<1> HIDE DEF n, S, D, base, Beyond
<1>5. step \in [(1 .. n) \X S -> S]
  BY <1>4
<1>6. PICK f \in [0 .. n -> S] : f[0] = base /\ \A k \in 1 .. n : f[k] = step[<<k, f[k - 1]>>]
  <2> HIDE DEF step
  <2>1. Loop(n, S, base, step)
    BY <1>1, <1>3, <1>5 DEF Loop
  <2> QED BY <2>1, LoopExists
<1>7. \A k \in 1 .. n : f[k] = Beyond(f[k - 1])
  <2> TAKE k \in 1 .. n
  <2>1. k - 1 \in 0 .. n
    BY <1>1
  <2>2. <<k, f[k - 1]>> \in (1 .. n) \X S
    BY <2>1
  <2> QED BY <1>6, <2>2
<1>8. Eq(f)
  <2>1. \A k \in 0 .. n : f[k] = [at \in D |-> IF k = 0 THEN {"dropped"} ELSE Fate(e, p, at[1], at[2], f[k - 1])]
    <3> TAKE k \in 0 .. n
    <3>1. CASE k = 0
      BY <1>6, <3>1 DEF base
    <3>2. CASE k # 0
      <4>1. k \in 1 .. n
        BY <3>2, <1>1
      <4> QED BY <1>7, <3>2, <4>1 DEF Beyond
    <3> QED BY <3>1, <3>2
  <2> QED BY <2>1
<1>9. Eq(CHOOSE g : Eq(g))
  <2> HIDE DEF Eq
  <2> QED BY <1>8
<1> DEFINE g == FatesWithin(e, p)
<1>10. g = [k \in 0 .. n |-> [at \in D |-> IF k = 0 THEN {"dropped"} ELSE Fate(e, p, at[1], at[2], g[k - 1])]]
  <2>1. Eq(g)
    <3> HIDE DEF Eq
    <3> QED BY <1>2, <1>9
  <2> HIDE DEF g
  <2> QED BY <2>1
<1> HIDE DEF g
<1>11. \A k \in 0 .. n : g[k] = [at \in D |-> IF k = 0 THEN {"dropped"} ELSE Fate(e, p, at[1], at[2], g[k - 1])]
  BY <1>10
<1>12. g[0] = base
  <2>1. 0 \in 0 .. n
    BY <1>1
  <2> QED BY <1>11, <2>1 DEF base
<1>13. \A k \in 1 .. n : g[k] = Beyond(g[k - 1])
  <2> TAKE k \in 1 .. n
  <2>1. k \in 0 .. n /\ k # 0
    BY <1>1
  <2> QED BY <1>11, <2>1 DEF Beyond
<1>14. \A k \in 0 .. n : g[k] \in S
  <2> DEFINE T == {k \in 0 .. n : g[k] \in S}
  <2>1. 0 \in T
    BY <1>1, <1>3, <1>12
  <2>2. \A k \in 1 .. n : k - 1 \in T => k \in T
    BY <1>1, <1>4, <1>13
  <2>3. \A k \in 0 .. n : k \in T
    <3> HIDE DEF T
    <3> QED BY <1>1, <2>1, <2>2, LoopInduction
  <2> QED BY <2>3
<1>15. g \in [0 .. n -> S]
  BY <1>10, <1>14
<1>16. \A at \in D : g[0][at] = {"dropped"}
  BY <1>12 DEF base
<1>17. \A k \in 1 .. n : \A d \in Device, from \in Address : g[k][<<d, from>>] = Fate(e, p, d, from, g[k - 1])
  <2> TAKE k \in 1 .. n
  <2> TAKE d \in Device, from \in Address
  <2>1. <<d, from>> \in D
    BY DEF D
  <2> QED BY <1>13, <2>1 DEF Beyond
<1> QED BY <1>15, <1>16, <1>17 DEF n, S, D, g

-----------------------------------------------------------------------------
(* The steps of the walk *)

Fields == {"pc", "routing", "policy", "at", "src", "dst", "port", "from", "visited", "hops", "branched",
           "translated", "nat_unknown"}

LEMMA FinaliseOf ==
    ASSUME NEW s, NEW t, s.hops = t.hops, s.routing = t.routing, s.branched = t.branched, s.nat_unknown = t.nat_unknown
    PROVE  Finalise(s) = Finalise(t)
BY DEF Finalise

LEMMA EndedIs ==
    ASSUME NEW t, NEW routing, DOMAIN t = Fields
    PROVE  LET s == Ended(t, routing)
           IN  /\ s.pc = "done" /\ s.routing = routing /\ s.policy = Finalise(s)
               /\ s.hops = t.hops /\ s.branched = t.branched /\ s.translated = t.translated
               /\ s.nat_unknown = t.nat_unknown /\ DOMAIN s = Fields
<1> DEFINE u == [t EXCEPT !.routing = routing]
           s == [u EXCEPT !.pc = "done", !.policy = Finalise(u)]
<1>1. /\ u.routing = routing /\ u.hops = t.hops /\ u.branched = t.branched /\ u.translated = t.translated
      /\ u.nat_unknown = t.nat_unknown /\ DOMAIN u = Fields
  BY DEF Fields
<1> HIDE DEF u
<1>2. /\ s.routing = u.routing /\ s.hops = u.hops /\ s.branched = u.branched /\ s.translated = u.translated
      /\ s.nat_unknown = u.nat_unknown /\ s.pc = "done" /\ s.policy = Finalise(u)
      /\ DOMAIN s = Fields
  BY <1>1 DEF Fields
<1>3. Ended(t, routing) = s
  BY DEF Ended, u
<1> HIDE DEF s
<1>4. Finalise(s) = Finalise(u)
  BY <1>2, FinaliseOf
<1> QED BY <1>1, <1>2, <1>3, <1>4

LEMMA TakenIs ==
    ASSUME NEW e, NEW q, NEW t, DOMAIN t = Fields
    PROVE  LET u == Taken(e, q, t)
           IN  /\ DOMAIN u = Fields /\ u.visited = t.visited \cup {t.at} /\ u.dst = DstOf(e, q, t)
               /\ u.src = (IF NatOf(e, q, t).applied THEN NatOf(e, q, t).src ELSE t.src)
               /\ u.port = PortOf(e, q, t) /\ u.routing = t.routing /\ u.pc = t.pc /\ u.branched = t.branched
               /\ u.translated = (t.translated \/ NatOf(e, q, t).applied)
               /\ u.nat_unknown = (t.nat_unknown \/ NatOf(e, q, t).unreadable)
               /\ u.hops = t.hops
BY DEF Taken, Fields

LEMMA ReachedIs ==
    ASSUME NEW e, NEW q, NEW t, NEW verdict, DOMAIN t = Fields
    PROVE  LET u == Reached(e, q, t, verdict)
           IN  /\ DOMAIN u = Fields /\ u.branched = t.branched
               /\ u.translated = (t.translated \/ NatOf(e, q, t).applied)
               /\ u.nat_unknown = (t.nat_unknown \/ NatOf(e, q, t).unreadable)
               /\ u.hops = Passed(t, verdict)
<1> DEFINE u == Taken(e, q, t)
<1>1. /\ DOMAIN u = Fields /\ u.branched = t.branched
      /\ u.translated = (t.translated \/ NatOf(e, q, t).applied)
      /\ u.nat_unknown = (t.nat_unknown \/ NatOf(e, q, t).unreadable)
  BY TakenIs
<1>2. Reached(e, q, t, verdict) = [u EXCEPT !.hops = Passed(t, verdict)]
  BY DEF Reached
<1> HIDE DEF u
<1> QED BY <1>1, <1>2 DEF Fields

LEMMA CrossedIs ==
    ASSUME NEW e, NEW q, NEW t, DOMAIN t = Fields
    PROVE  LET u == Crossed(e, q, t)
           IN  /\ DOMAIN u = Fields /\ u.visited = t.visited \cup {t.at} /\ u.dst = DstOf(e, q, t)
               /\ u.port = PortOf(e, q, t) /\ u.routing = t.routing /\ u.pc = t.pc
               /\ ~NatOf(e, q, t).applied => u.src = t.src
               /\ ~u.branched => ~t.branched /\ EqualCostNextHops(e[t.at], DstOf(e, q, t)) = {}
               /\ ~u.translated => ~t.translated /\ ~NatOf(e, q, t).applied
               /\ ~u.nat_unknown => ~t.nat_unknown /\ ~NatOf(e, q, t).unreadable
               /\ u.hops = Passed(t, VerdictOut(e, q, t))
<1> DEFINE u == Taken(e, q, t)
           c == Crossed(e, q, t)
<1>1. /\ DOMAIN u = Fields /\ u.visited = t.visited \cup {t.at} /\ u.dst = DstOf(e, q, t)
      /\ u.src = (IF NatOf(e, q, t).applied THEN NatOf(e, q, t).src ELSE t.src)
      /\ u.port = PortOf(e, q, t) /\ u.routing = t.routing /\ u.pc = t.pc /\ u.branched = t.branched
      /\ u.translated = (t.translated \/ NatOf(e, q, t).applied)
      /\ u.nat_unknown = (t.nat_unknown \/ NatOf(e, q, t).unreadable)
  BY TakenIs
<1>2. c = [u EXCEPT !.hops = Passed(t, VerdictOut(e, q, t)),
                    !.branched = @ \/ EqualCostNextHops(e[t.at], DstOf(e, q, t)) # {}]
  BY DEF Crossed
<1> HIDE DEF u, c
<1>3. /\ DOMAIN c = Fields /\ c.visited = u.visited /\ c.dst = u.dst /\ c.src = u.src /\ c.port = u.port
      /\ c.routing = u.routing /\ c.pc = u.pc /\ c.translated = u.translated /\ c.nat_unknown = u.nat_unknown
  BY <1>1, <1>2 DEF Fields
<1>4. c.hops = Passed(t, VerdictOut(e, q, t))
  BY <1>1, <1>2 DEF Fields
<1>5. c.branched = (u.branched \/ EqualCostNextHops(e[t.at], DstOf(e, q, t)) # {})
  BY <1>1, <1>2 DEF Fields
<1>6. /\ DOMAIN c = Fields /\ c.visited = t.visited \cup {t.at} /\ c.dst = DstOf(e, q, t)
      /\ c.port = PortOf(e, q, t) /\ c.routing = t.routing /\ c.pc = t.pc
      /\ ~NatOf(e, q, t).applied => c.src = t.src
      /\ ~c.branched => ~t.branched /\ EqualCostNextHops(e[t.at], DstOf(e, q, t)) = {}
      /\ ~c.translated => ~t.translated /\ ~NatOf(e, q, t).applied
      /\ ~c.nat_unknown => ~t.nat_unknown /\ ~NatOf(e, q, t).unreadable
      /\ c.hops = Passed(t, VerdictOut(e, q, t))
  BY <1>1, <1>3, <1>4, <1>5
<1> QED BY <1>6 DEF c

-----------------------------------------------------------------------------
(* One device, as the walk reads it and as a packet meets it *)

\* A device whose NAT is read and has nothing to say of the question.
Untouched(e, q, d) ==
    /\ ~TranslateAt(e[d], First(q.srcs), First(q.dsts), q.port, q.dsts).applied
    /\ ~TranslateAt(e[d], First(q.srcs), First(q.dsts), q.port, q.dsts).unreadable
    /\ ~UnnormalisedNat(e[d])

LEMMA Arrives ==
    ASSUME NEW e \in Estates, NEW q \in Queries, NEW d \in Device, NEW from, NEW beyond, NEW p \in PacketsOf(q),
           Straight(e, q), Untouched(e, q, d), Serves(e[d], First(q.dsts))
    PROVE  LET node == e[d]
               dst == First(q.dsts)
           IN  Fate(e, p, d, from, beyond) =
                 Filtered(node, HopAt(node, from, InterfaceContaining(node, dst), ZoneContaining(node, dst)), p,
                          {"delivered"})
<1> DEFINE node == e[d]
           dst == First(q.dsts)
<1>1. WholeRanges(e, q)
  BY DEF Straight
<1>2. p.dst \in q.dsts /\ dst \in q.dsts
  BY FirstOfQuery DEF PacketsOf
<1>3. SameSubnets(node, dst, p.dst)
  BY <1>1, <1>2, WholeIsAlike
<1>4. ~Translate(node, p.src, p.dst, p.port).applied /\ ~Translate(node, p.src, p.dst, p.port).unreadable
  BY <1>1, NothingTranslated DEF Untouched
<1>5. ~UnnormalisedNat(node)
  BY DEF Untouched
<1>6. /\ InterfaceContaining(node, p.dst) = InterfaceContaining(node, dst)
      /\ ZoneContaining(node, p.dst) = ZoneContaining(node, dst)
      /\ Serves(node, p.dst)
  BY <1>3, AlikeArrivals
<1> HIDE DEF node, dst
<1>7. Fate(e, p, d, from, beyond) =
        Filtered(node, HopAt(node, from, InterfaceContaining(node, p.dst), ZoneContaining(node, p.dst)), p, {"delivered"})
  BY <1>4, <1>5, <1>6, FateIs DEF node
<1> QED BY <1>6, <1>7 DEF node, dst

LEMMA Unrouted ==
    ASSUME NEW e \in Estates, NEW q \in Queries, NEW d \in Device, NEW from, NEW beyond, NEW p \in PacketsOf(q),
           Straight(e, q), Untouched(e, q, d), ~Serves(e[d], First(q.dsts)), Lookup(e[d], First(q.dsts)) = {},
           RoutingWithoutRoute(e[d], First(q.dsts)) = "unreachable",
           \A i \in DOMAIN e[d].routes : Whole(q.dsts, e[d].routes[i].prefix.set)
    PROVE  Fate(e, p, d, from, beyond) = {"dropped"}
<1> DEFINE node == e[d]
           dst == First(q.dsts)
<1>1. WholeRanges(e, q)
  BY DEF Straight
<1>2. p.dst \in q.dsts /\ dst \in q.dsts
  BY FirstOfQuery DEF PacketsOf
<1>3. SameSubnets(node, dst, p.dst)
  BY <1>1, <1>2, WholeIsAlike
<1>4. ~Translate(node, p.src, p.dst, p.port).applied /\ ~Translate(node, p.src, p.dst, p.port).unreadable
  BY <1>1, NothingTranslated DEF Untouched
<1>5. ~UnnormalisedNat(node)
  BY DEF Untouched
<1>6. ~Serves(node, p.dst)
  BY <1>3, AlikeArrivals
<1>7. \A i \in DOMAIN node.routes : dst \in node.routes[i].prefix.set <=> p.dst \in node.routes[i].prefix.set
  BY <1>2 DEF Whole
<1> HIDE DEF node, dst
<1>8. Reaching(node, p.dst) = Reaching(node, dst) /\ OtherVrfsMatching(node, p.dst) = OtherVrfsMatching(node, dst)
  BY <1>7 DEF Reaching, OtherVrfsMatching
<1>9. Best(node, Reaching(node, dst)) = {}
  BY DEF Lookup, node, dst
<1>10. node.routes_known /\ ~node.truncated /\ ~OtherVrfsMatching(node, dst)
  BY DEF RoutingWithoutRoute, node, dst
<1> QED BY <1>4, <1>5, <1>6, <1>8, <1>9, <1>10, FateIs DEF node

\* A device the packets of the question leave by one route.
SentOneWay(e, q, d) ==
    /\ ~Serves(e[d], First(q.dsts)) /\ EqualCostNextHops(e[d], First(q.dsts)) = {}
    /\ Several(q.dsts) => RoutesSubdividing(e[d], q.dsts) = {}

LEMMA SentOn ==
    ASSUME NEW e \in Estates, NEW q \in Queries, NEW d \in Device, NEW from, NEW beyond, NEW p \in PacketsOf(q),
           NEW r \in Lookup(e[d], First(q.dsts)),
           Straight(e, q), Untouched(e, q, d), SentOneWay(e, q, d)
    PROVE  LET node == e[d]
           IN  Fate(e, p, d, from, beyond) =
                 Filtered(node, HopAt(node, from, {r.interface}, node.zones[r.interface]), p, Onward(e, r, beyond))
<1> DEFINE node == e[d]
           dst == First(q.dsts)
           best == Best(node, Reaching(node, dst))
           Sent(i) == Filtered(node, HopAt(node, from, {node.routes[i].interface}, node.zones[node.routes[i].interface]), p,
                               Onward(e, node.routes[i], beyond))
<1>1. WholeRanges(e, q) /\ TiesAreSeen(e)
  BY DEF Straight
<1>2. p.dst \in q.dsts /\ dst \in q.dsts /\ dst \in Address
  BY FirstOfQuery DEF PacketsOf
<1>3. SameSubnets(node, dst, p.dst)
  BY <1>1, <1>2, WholeIsAlike
<1>4. ~Translate(node, p.src, p.dst, p.port).applied /\ ~Translate(node, p.src, p.dst, p.port).unreadable
  BY <1>1, NothingTranslated DEF Untouched
<1>5. ~UnnormalisedNat(node)
  BY DEF Untouched
<1>6. ~Serves(node, p.dst)
  BY <1>3, AlikeArrivals DEF SentOneWay
<1>7. Reaching(node, p.dst) = Reaching(node, dst)
  BY <1>2, RoutedAlike DEF SentOneWay
<1>8. best # {} /\ Lookup(node, dst) = {node.routes[First(best)]}
  <2>1. Lookup(node, dst) = IF best = {} THEN {} ELSE {node.routes[First(best)]}
    BY DEF Lookup
  <2> HIDE DEF best
  <2> QED BY <2>1
<1>9. best \in SUBSET Nat
  <2>1. DOMAIN node.routes \subseteq Nat
    BY PathAssumption
  <2> QED BY <2>1 DEF Best, Reaching
<1>10. First(best) \in best
  BY <1>8, <1>9, FirstIs
<1>11. \A i, j \in best : /\ node.routes[i].next_hop = node.routes[j].next_hop
                          /\ node.routes[i].interface = node.routes[j].interface
  BY <1>1, <1>2, OneWay DEF SentOneWay
<1>12. Fate(e, p, d, from, beyond) = UNION {Sent(i) : i \in best}
  <2> HIDE DEF node, Sent
  <2>1. Best(node, Reaching(node, p.dst)) # {} /\ Best(node, Reaching(node, p.dst)) = best
    BY <1>7, <1>8
  <2> QED BY <1>4, <1>5, <1>6, <2>1, FateIs DEF node, Sent
<1> HIDE DEF best
<1>13. r = node.routes[First(best)]
  BY <1>8
<1>14. \A i \in best : Sent(i) = Filtered(node, HopAt(node, from, {r.interface}, node.zones[r.interface]), p, Onward(e, r, beyond))
  <2> TAKE i \in best
  <2>1. node.routes[i].interface = r.interface /\ node.routes[i].next_hop = r.next_hop
    BY <1>10, <1>11, <1>13
  <2> HIDE DEF node
  <2>2. Onward(e, node.routes[i], beyond) = Onward(e, r, beyond)
    BY <2>1 DEF Onward
  <2> QED BY <2>1, <2>2
<1> HIDE DEF Sent, node, dst
<1> QED BY <1>8, <1>12, <1>14 DEF node, dst

-----------------------------------------------------------------------------
(* What holds of a walk under way, and of one that has ended *)

Hopped(h) == \E S : h \in Seq(S)

Unblocked(t) == \A i \in DOMAIN t.hops : t.hops[i].action # "deny"
AllClear(t) == \A i \in DOMAIN t.hops : Clear(t.hops[i])
InWords(t) == \A i \in DOMAIN t.hops : t.hops[i].action \in Words

\* The ends of a packet are those beyond, but for what may drop it before;
\* where nothing may, they are the same.
Leads(ends, beyond, clear) ==
    /\ ends \subseteq beyond \cup {"dropped"}
    /\ beyond # {} => ends # {}
    /\ clear => ends = beyond

\* The ends of a packet from where the walk stands.
Fuel(t) == Cardinality(Device) + 1 - Len(t.hops)
EndsFrom(e, p, t) == FatesWithin(e, p)[Fuel(t)][<<t.at, t.from>>]

Tracks(e, q, t) ==
    \A p \in PacketsOf(q) :
        Leads(Outcome(e, p), EndsFrom(e, p, t), ListsBound(e) /\ PlainWords(e) /\ AllClear(t))

Walking(e, q, t) ==
    /\ t.routing = "unknown" /\ t.at \in Device /\ t.from \in Address /\ t.visited \subseteq Device
    /\ Hopped(t.hops) /\ Len(t.hops) = Cardinality(t.visited)
    /\ Unblocked(t) /\ (PlainWords(e) => InWords(t))
    /\ ~t.translated => t.src = First(q.srcs) /\ t.dst = First(q.dsts) /\ t.port = q.port
    /\ Single(t) /\ Straight(e, q) => Tracks(e, q, t)

AllEnd(e, q, end) == \A p \in PacketsOf(q) : Outcome(e, p) = {end}

Concluded(e, q, t) ==
    /\ IF t.routing = "same-zone" THEN t.hops = <<>> ELSE t.policy = Finalise(t)
    /\ (t.policy = "allowed" /\ \E i \in DOMAIN t.hops : t.hops[i].action # "none") => ~t.branched /\ ~t.nat_unknown
    /\ (Single(t) /\ Straight(e, q) /\ NatReadAtTheEnd(e, t)) =>
        /\ t.policy = "blocked" => AllEnd(e, q, "dropped")
        /\ t.routing = "unreachable" /\ NoPartRouted(e, q, t) => AllEnd(e, q, "dropped")
        /\ t.policy = "allowed" /\ ListsBound(e) /\ PlainWords(e) => AllEnd(e, q, "delivered")
        /\ t.routing = "same-zone" => AllEnd(e, q, "delivered")

LEMMA FinaliseSays ==
    ASSUME NEW t
    PROVE  /\ Finalise(t) = "blocked" => ~Unblocked(t)
           /\ Finalise(t) = "allowed" =>
                /\ t.routing = "routed" /\ Unblocked(t)
                /\ \A i \in DOMAIN t.hops : ~t.hops[i].undecidable /\ t.hops[i].action # "mixed"
                /\ (\E i \in DOMAIN t.hops : t.hops[i].action # "none") => ~t.branched /\ ~t.nat_unknown
<1> DEFINE acts == {t.hops[i].action : i \in DOMAIN t.hops} \ {"none"}
           undecided == \E i \in DOMAIN t.hops : t.hops[i].undecidable
<1>1. Finalise(t) =
        (CASE "deny" \in acts -> "blocked"
           [] "deny" \notin acts /\ t.routing = "unreachable" -> "not-routed"
           [] "deny" \notin acts /\ t.routing # "unreachable" ->
                  IF \/ undecided \/ t.routing # "routed" \/ "mixed" \in acts
                     \/ acts # {} /\ (t.branched \/ t.nat_unknown)
                  THEN "partially-allowed" ELSE "allowed")
  BY DEF Finalise
<1>2. Unblocked(t) <=> "deny" \notin acts
  BY DEF Unblocked
<1>3. \A i \in DOMAIN t.hops : t.hops[i].action # "none" => t.hops[i].action \in acts
  OBVIOUS
<1>4. ASSUME Finalise(t) = "blocked" PROVE "deny" \in acts
  <2> HIDE DEF acts, undecided
  <2> QED BY <1>1, <1>4
<1>5. ASSUME Finalise(t) = "allowed"
      PROVE  /\ t.routing = "routed" /\ "deny" \notin acts /\ ~undecided /\ "mixed" \notin acts
             /\ acts # {} => ~t.branched /\ ~t.nat_unknown
  <2> HIDE DEF acts, undecided
  <2> QED BY <1>1, <1>5
<1>6. ASSUME ~undecided PROVE \A i \in DOMAIN t.hops : ~t.hops[i].undecidable
  BY <1>6
<1> HIDE DEF acts, undecided
<1> QED BY <1>2, <1>3, <1>4, <1>5, <1>6

\* A hop more.
LEMMA HopAdded ==
    ASSUME NEW t, NEW s, NEW verdict, Hopped(t.hops), s.hops = Passed(t, verdict)
    PROVE  /\ Hopped(s.hops) /\ Len(t.hops) \in Nat /\ Len(s.hops) = Len(t.hops) + 1
           /\ s.hops # <<>> /\ Last(s.hops).device = t.at
           /\ Unblocked(s) <=> (Unblocked(t) /\ verdict.action # "deny")
           /\ AllClear(s) <=> (AllClear(t) /\ Clear(verdict))
           /\ (InWords(t) /\ verdict.action \in Words) => InWords(s)
<1> DEFINE h == [device |-> t.at, action |-> verdict.action, undecidable |-> verdict.undecidable]
<1>1. h.device = t.at /\ h.action = verdict.action /\ h.undecidable = verdict.undecidable
  OBVIOUS
<1> HIDE DEF h
<1>2. PICK S : t.hops \in Seq(S)
  BY DEF Hopped
<1>3. /\ s.hops \in Seq(S \cup {h}) /\ Len(t.hops) \in Nat /\ Len(s.hops) = Len(t.hops) + 1
      /\ DOMAIN t.hops = 1 .. Len(t.hops) /\ DOMAIN s.hops = 1 .. Len(t.hops) + 1
      /\ s.hops[Len(t.hops) + 1] = h /\ \A i \in 1 .. Len(t.hops) : s.hops[i] = t.hops[i]
  <2>1. t.hops \in Seq(S \cup {h}) /\ h \in S \cup {h} /\ s.hops = Append(t.hops, h)
    BY <1>2 DEF h, Passed
  <2> QED BY <2>1
<1>4. Hopped(s.hops) /\ s.hops # <<>> /\ Last(s.hops).device = t.at
  BY <1>1, <1>3 DEF Hopped, Last
<1>5. \A i \in 1 .. Len(t.hops) + 1 : i \in 1 .. Len(t.hops) \/ i = Len(t.hops) + 1
  BY <1>3
<1>6. Len(t.hops) + 1 \in 1 .. Len(t.hops) + 1 /\ \A i \in 1 .. Len(t.hops) : i \in 1 .. Len(t.hops) + 1
  BY <1>3
<1>7. Clear(h) <=> Clear(verdict)
  BY <1>1 DEF Clear
<1>8. Unblocked(s) <=> (Unblocked(t) /\ verdict.action # "deny")
  BY <1>1, <1>3, <1>5, <1>6 DEF Unblocked
<1>9. AllClear(s) <=> (AllClear(t) /\ Clear(verdict))
  BY <1>3, <1>5, <1>6, <1>7 DEF AllClear
<1>10. (InWords(t) /\ verdict.action \in Words) => InWords(s)
  BY <1>1, <1>3, <1>5, <1>6 DEF InWords
<1> QED BY <1>3, <1>4, <1>8, <1>9, <1>10

\* How a walk ends.
LEMMA EndConcludes ==
    ASSUME NEW e, NEW q, NEW t, NEW routing, DOMAIN t = Fields, routing # "same-zone", PlainWords(e) => InWords(t),
           (Single(t) /\ Straight(e, q) /\ NatReadAtTheEnd(e, t)) =>
               /\ ~Unblocked(t) => AllEnd(e, q, "dropped")
               /\ routing = "unreachable" /\ NoPartRouted(e, q, Ended(t, routing)) => AllEnd(e, q, "dropped")
               /\ routing = "routed" /\ AllClear(t) /\ ListsBound(e) /\ PlainWords(e) => AllEnd(e, q, "delivered")
    PROVE  /\ DOMAIN Ended(t, routing) = Fields /\ Ended(t, routing).pc = "done"
           /\ Concluded(e, q, Ended(t, routing))
<1> DEFINE s == Ended(t, routing)
<1>1. /\ s.pc = "done" /\ s.routing = routing /\ s.policy = Finalise(s) /\ s.hops = t.hops
      /\ s.branched = t.branched /\ s.translated = t.translated /\ s.nat_unknown = t.nat_unknown
      /\ DOMAIN s = Fields
  BY EndedIs
<1> HIDE DEF s
<1>3. /\ Single(s) <=> Single(t)
      /\ NatReadAtTheEnd(e, s) <=> NatReadAtTheEnd(e, t)
      /\ Unblocked(s) <=> Unblocked(t)
  BY <1>1 DEF Single, NatReadAtTheEnd, Unblocked
<1>4. ASSUME s.policy = "allowed", PlainWords(e) PROVE routing = "routed" /\ AllClear(t)
  <2>1. /\ s.routing = "routed" /\ Unblocked(s)
        /\ \A i \in DOMAIN s.hops : ~s.hops[i].undecidable /\ s.hops[i].action # "mixed"
    BY <1>1, <1>4, FinaliseSays
  <2>2. InWords(t)
    BY <1>4
  <2> QED BY <1>1, <2>1, <2>2 DEF AllClear, Clear, Unblocked, InWords, Words
<1>5. s.policy = "blocked" => ~Unblocked(t)
  BY <1>1, <1>3, FinaliseSays
<1>6. (s.policy = "allowed" /\ \E i \in DOMAIN s.hops : s.hops[i].action # "none") => ~s.branched /\ ~s.nat_unknown
  BY <1>1, FinaliseSays
<1>7. (Single(t) /\ Straight(e, q) /\ NatReadAtTheEnd(e, t)) =>
               /\ ~Unblocked(t) => AllEnd(e, q, "dropped")
               /\ routing = "unreachable" /\ NoPartRouted(e, q, s) => AllEnd(e, q, "dropped")
               /\ routing = "routed" /\ AllClear(t) /\ ListsBound(e) /\ PlainWords(e) => AllEnd(e, q, "delivered")
  BY DEF s
<1>8. Concluded(e, q, s)
  BY <1>1, <1>3, <1>4, <1>5, <1>6, <1>7 DEF Concluded
<1> QED BY <1>1, <1>8 DEF s

-----------------------------------------------------------------------------
(* The walk keeps it *)

LEMMA LeadsOn ==
    ASSUME NEW ends, NEW mid, NEW next, NEW a, NEW b, NEW c, Leads(ends, mid, a), Leads(mid, next, b), c => a /\ b
    PROVE  Leads(ends, next, c)
BY DEF Leads

\* At a device NAT leaves the question alone at, the walk asks the question itself.
LEMMA Unchanged ==
    ASSUME NEW e, NEW q, NEW t, Walking(e, q, t), ~t.translated, ~NatOf(e, q, t).applied, ~NatOf(e, q, t).unreadable,
           ~UnnormalisedNat(e[t.at])
    PROVE  Untouched(e, q, t.at) /\ DstOf(e, q, t) = First(q.dsts) /\ PortOf(e, q, t) = q.port
<1>1. t.src = First(q.srcs) /\ t.dst = First(q.dsts) /\ t.port = q.port
  BY DEF Walking
<1>2. NatOf(e, q, t) = TranslateAt(e[t.at], First(q.srcs), First(q.dsts), q.port, q.dsts)
  BY <1>1 DEF NatOf
<1>3. Untouched(e, q, t.at)
  BY <1>2 DEF Untouched
<1>4. DstOf(e, q, t) = First(q.dsts) /\ PortOf(e, q, t) = q.port
  BY <1>1 DEF DstOf, PortOf
<1> QED BY <1>3, <1>4

\* The ends from beyond the device the walk stands at.
Beyond(e, p, t) == FatesWithin(e, p)[Fuel(t) - 1]

\* A walk that does not loop has a device left to pass.
LEMMA Underway ==
    ASSUME NEW e \in Estates, NEW q \in Queries, NEW t, Walking(e, q, t), ~Looping(t)
    PROVE  /\ Cardinality(t.visited \cup {t.at}) = Len(t.hops) + 1 /\ t.visited \cup {t.at} \subseteq Device
           /\ \A p : EndsFrom(e, p, t) = Fate(e, p, t.at, t.from, Beyond(e, p, t))
<1> DEFINE n == Fuel(t)
<1>1. t.at \in Device /\ t.at \notin t.visited /\ t.visited \subseteq Device /\ t.from \in Address
      /\ Len(t.hops) = Cardinality(t.visited)
  BY DEF Walking, Looping
<1>2. IsFiniteSet(Device) /\ IsFiniteSet(t.visited) /\ IsFiniteSet(t.visited \cup {t.at})
  BY <1>1, PathAssumption, FS_Subset
<1>3. Cardinality(t.visited \cup {t.at}) = Cardinality(t.visited) + 1
  BY <1>1, <1>2, FS_AddElement
<1>4. Cardinality(t.visited \cup {t.at}) <= Cardinality(Device)
  BY <1>1, <1>2, FS_Subset
<1>5. Cardinality(Device) \in Nat /\ Cardinality(t.visited) \in Nat
  BY <1>2, FS_CardinalityType
<1>6. n \in 1 .. Cardinality(Device) + 1 /\ n - 1 \in 0 .. Cardinality(Device) + 1
  BY <1>1, <1>3, <1>4, <1>5 DEF Fuel
<1>7. \A p : /\ FatesWithin(e, p)[n - 1] \in Ending
             /\ FatesWithin(e, p)[n][<<t.at, t.from>>] = Fate(e, p, t.at, t.from, FatesWithin(e, p)[n - 1])
  <2> TAKE p
  <2> HIDE DEF n
  <2>1. /\ FatesWithin(e, p) \in [0 .. Cardinality(Device) + 1 -> Ending]
        /\ \A k \in 1 .. Cardinality(Device) + 1 : \A d \in Device, from \in Address :
               FatesWithin(e, p)[k][<<d, from>>] = Fate(e, p, d, from, FatesWithin(e, p)[k - 1])
    BY WithinIs
  <2> QED BY <1>1, <1>6, <2>1
<1>8. \A p : Beyond(e, p, t) = FatesWithin(e, p)[n - 1] /\ EndsFrom(e, p, t) = FatesWithin(e, p)[n][<<t.at, t.from>>]
  BY DEF EndsFrom, Beyond
<1> HIDE DEF n
<1> QED BY <1>1, <1>3, <1>7, <1>8

\* The question answered where it starts, or a walk begun.
LEMMA StartHolds ==
    ASSUME NEW e \in Estates, NEW q \in Queries
    PROVE  LET t == Start(e, q)
           IN  /\ DOMAIN t = Fields
               /\ \/ t.pc = "walking" /\ Walking(e, q, t)
                  \/ t.pc = "done" /\ Concluded(e, q, t)
<1> DEFINE src == First(q.srcs)
           dst == First(q.dsts)
           at == DeviceServing(e, src)
           same == at # NoDevice /\ Serves(e[at], dst) /\ SameConnectedSubnet(e[at], src, dst)
           t == Start(e, q)
<1>1. /\ t.pc = (IF at = NoDevice \/ same THEN "done" ELSE "walking")
      /\ t.routing = (IF same THEN "same-zone" ELSE "unknown")
      /\ t.policy = (CASE at = NoDevice -> "partially-allowed" [] OTHER -> "not-routed")
      /\ t.at = at /\ t.src = src /\ t.dst = dst /\ t.port = q.port /\ t.from = src
      /\ t.visited = {} /\ t.hops = <<>> /\ t.branched = FALSE /\ t.translated = FALSE
      /\ t.nat_unknown = FALSE /\ DOMAIN t = Fields
  BY DEF Start, Fields
<1>2. src \in q.srcs /\ dst \in q.dsts /\ src \in Address
  BY FirstOfQuery
<1>3. at \in Device \cup {NoDevice} /\ NoDevice \notin Device
  BY ServingIsADevice, PathAssumption
<1>4. ASSUME Straight(e, q), NEW p \in PacketsOf(q)
      PROVE  /\ DeviceServing(e, p.src) = at
             /\ at # NoDevice => /\ SameSubnets(e[at], p.src, src)
                                 /\ SameConnectedSubnet(e[at], p.src, p.dst) = SameConnectedSubnet(e[at], src, dst)
  <2>1. p.src \in q.srcs /\ p.dst \in q.dsts
    BY DEF PacketsOf
  <2>2. WholeRanges(e, q)
    BY <1>4 DEF Straight
  <2>3. \A d \in Device : SameSubnets(e[d], p.src, src) /\ SameSubnets(e[d], p.dst, dst)
    BY <1>2, <2>1, <2>2, WholeIsAlike
  <2>4. DeviceServing(e, p.src) = at
    BY <2>3, AlikeServers
  <2>5. at # NoDevice => at \in Device
    BY <1>3
  <2> HIDE DEF at, src, dst
  <2>6. at # NoDevice => SameConnectedSubnet(e[at], p.src, p.dst) = SameConnectedSubnet(e[at], src, dst)
    BY <2>3, <2>5, AlikePairs
  <2> QED BY <2>3, <2>4, <2>5, <2>6
<1> HIDE DEF at, src, dst, t
<1>5. CASE at = NoDevice
  <2>1. ~same
    BY <1>5
  <2>2. t.pc = "done" /\ t.routing = "unknown" /\ t.policy = "partially-allowed"
    BY <1>1, <1>5, <2>1
  <2>3. Finalise(t) = "partially-allowed"
    BY <1>1, <2>2 DEF Finalise
  <2>4. Concluded(e, q, t)
    BY <2>2, <2>3 DEF Concluded
  <2> QED BY <1>1, <2>2, <2>4 DEF t
<1>6. CASE same
  <2>1. t.pc = "done" /\ t.routing = "same-zone" /\ t.policy = "not-routed" /\ at # NoDevice
    BY <1>1, <1>6
  <2>2. ASSUME Straight(e, q) PROVE AllEnd(e, q, "delivered")
    <3> SUFFICES ASSUME NEW p \in PacketsOf(q) PROVE Outcome(e, p) = {"delivered"}
      BY DEF AllEnd
    <3>1. DeviceServing(e, p.src) = at /\ SameConnectedSubnet(e[at], p.src, p.dst)
      BY <1>4, <1>6, <2>1, <2>2
    <3> QED BY <2>1, <3>1 DEF Outcome
  <2>3. Concluded(e, q, t)
    BY <1>1, <2>1, <2>2 DEF Concluded
  <2> QED BY <1>1, <2>1, <2>3 DEF t
<1>7. CASE at # NoDevice /\ ~same
  <2>1. t.pc = "walking" /\ t.routing = "unknown"
    BY <1>1, <1>7
  <2>2. /\ at \in Device /\ Hopped(t.hops) /\ Len(t.hops) = Cardinality(t.visited) /\ t.visited \subseteq Device
        /\ Len(t.hops) = 0
    BY <1>1, <1>3, <1>7, FS_EmptySet DEF Hopped
  <2>3. Unblocked(t) /\ InWords(t) /\ AllClear(t)
    BY <1>1 DEF Unblocked, InWords, AllClear
  <2>4. ASSUME Straight(e, q), NEW p \in PacketsOf(q) PROVE Outcome(e, p) = EndsFrom(e, p, t)
    <3>1. /\ DeviceServing(e, p.src) = at /\ SameSubnets(e[at], p.src, src)
          /\ SameConnectedSubnet(e[at], p.src, p.dst) = SameConnectedSubnet(e[at], src, dst)
      BY <1>4, <1>7, <2>4
    <3>2. p.src \in Address
      BY FirstOfQuery DEF PacketsOf
    <3>3. CASE SameConnectedSubnet(e[at], src, dst)
      <4>1. Serves(e[at], dst)
        BY <3>3 DEF SameConnectedSubnet, Serves
      <4> QED BY <1>7, <3>3, <4>1
    <3>4. CASE ~SameConnectedSubnet(e[at], src, dst)
      <4> DEFINE n == Cardinality(Device) + 1
      <4>1. Outcome(e, p) = FatesWithin(e, p)[n][<<at, p.src>>]
        BY <1>7, <3>1, <3>4 DEF Outcome, Fates
      <4>2. EndsFrom(e, p, t) = FatesWithin(e, p)[n][<<at, src>>]
        <5>1. Fuel(t) = n
          BY <2>2, PathAssumption, FS_CardinalityType DEF Fuel
        <5> QED BY <1>1, <5>1 DEF EndsFrom
      <4>3. n \in 1 .. n
        BY PathAssumption, FS_CardinalityType
      <4> HIDE DEF n
      <4>4. \A from \in Address : FatesWithin(e, p)[n][<<at, from>>] = Fate(e, p, at, from, FatesWithin(e, p)[n - 1])
        BY <2>2, <4>3, WithinIs DEF n
      <4>5. Fate(e, p, at, p.src, FatesWithin(e, p)[n - 1]) = Fate(e, p, at, src, FatesWithin(e, p)[n - 1])
        BY <3>1, FateFrom
      <4> QED BY <1>2, <3>2, <4>1, <4>2, <4>4, <4>5
    <3> QED BY <3>3, <3>4
  <2>5. Straight(e, q) => Tracks(e, q, t)
    BY <2>4 DEF Tracks, Leads
  <2>6. Walking(e, q, t)
    BY <1>1, <1>2, <2>1, <2>2, <2>3, <2>5 DEF Walking, src, dst
  <2> QED BY <1>1, <2>1, <2>6 DEF t
<1> QED BY <1>5, <1>6, <1>7

WalkHolds(e, q, t) ==
    /\ DOMAIN t = Fields
    /\ \/ t.pc = "walking" /\ Walking(e, q, t)
       \/ t.pc = "done" /\ Concluded(e, q, t)

\* One packet's ends, where the walk is told what lies beyond the device.
LEMMA TrackedOn ==
    ASSUME NEW e, NEW q, NEW t, NEW s, NEW p \in PacketsOf(q), Tracks(e, q, t), NEW mid, EndsFrom(e, p, t) = mid,
           NEW next, NEW verdict, AllClear(s) => AllClear(t) /\ Clear(verdict),
           mid \subseteq next \cup {"dropped"}, next # {} => mid # {},
           Clear(verdict) /\ ListsBound(e) /\ PlainWords(e) => mid = next
    PROVE  Leads(Outcome(e, p), next, ListsBound(e) /\ PlainWords(e) /\ AllClear(s))
<1>1. Leads(Outcome(e, p), mid, ListsBound(e) /\ PlainWords(e) /\ AllClear(t))
  BY DEF Tracks
<1>2. Leads(mid, next, ListsBound(e) /\ PlainWords(e) /\ Clear(verdict))
  BY DEF Leads
<1> QED BY <1>1, <1>2, LeadsOn

LEMMA LoopEnds ==
    ASSUME NEW e \in Estates, NEW q \in Queries, NEW t, DOMAIN t = Fields, Walking(e, q, t)
    PROVE  WalkHolds(e, q, Ended(t, "unknown"))
<1>1. (PlainWords(e) => InWords(t)) /\ Unblocked(t)
  BY DEF Walking
<1> QED BY <1>1, EndConcludes DEF WalkHolds

\* The packet arrives: the listed of the last device have the last word.
LEMMA ArrivalEnds ==
    ASSUME NEW e \in Estates, NEW q \in Queries, NEW t, DOMAIN t = Fields, Walking(e, q, t), ~Looping(t),
           Serves(e[t.at], DstOf(e, q, t))
    PROVE  WalkHolds(e, q, Ended(Reached(e, q, t, VerdictIn(e, q, t)), "routed"))
<1> DEFINE V == VerdictIn(e, q, t)
           s == Reached(e, q, t, V)
<1>1. /\ DOMAIN s = Fields /\ s.branched = t.branched
      /\ s.translated = (t.translated \/ NatOf(e, q, t).applied)
      /\ s.nat_unknown = (t.nat_unknown \/ NatOf(e, q, t).unreadable)
      /\ s.hops = Passed(t, V)
  BY ReachedIs
<1> HIDE DEF V, s
<1>2. /\ t.at \in Device /\ Hopped(t.hops) /\ Unblocked(t) /\ (PlainWords(e) => InWords(t))
      /\ Single(t) /\ Straight(e, q) => Tracks(e, q, t)
  BY DEF Walking
<1>3. /\ s.hops # <<>> /\ Last(s.hops).device = t.at
      /\ Unblocked(s) <=> (Unblocked(t) /\ V.action # "deny")
      /\ AllClear(s) <=> (AllClear(t) /\ Clear(V))
      /\ (InWords(t) /\ V.action \in Words) => InWords(s)
  BY <1>1, <1>2, HopAdded
<1>4. PlainWords(e) => InWords(s)
  BY <1>2, <1>3, WordsAre DEF V, VerdictIn, VerdictAt
<1>5. ASSUME Single(s), Straight(e, q), NatReadAtTheEnd(e, s)
      PROVE  /\ ~Unblocked(s) => AllEnd(e, q, "dropped")
             /\ AllClear(s) /\ ListsBound(e) /\ PlainWords(e) => AllEnd(e, q, "delivered")
  <2>1. /\ ~t.translated /\ ~NatOf(e, q, t).applied /\ ~NatOf(e, q, t).unreadable /\ Single(t)
        /\ ~UnnormalisedNat(e[t.at])
    BY <1>1, <1>3, <1>5 DEF Single, NatReadAtTheEnd
  <2>2. Untouched(e, q, t.at) /\ DstOf(e, q, t) = First(q.dsts) /\ PortOf(e, q, t) = q.port
    BY <2>1, Unchanged
  <2> DEFINE node == e[t.at]
             dst == First(q.dsts)
             hop == HopAt(node, t.from, InterfaceContaining(node, dst), ZoneContaining(node, dst))
  <2>3. V = Evaluate(node, hop, q, q.port)
    BY <2>2 DEF V, VerdictIn, VerdictAt
  <2>4. Tracks(e, q, t) /\ ListsApart(e)
    BY <1>2, <1>5, <2>1 DEF Straight
  <2>5. ASSUME NEW p \in PacketsOf(q)
        PROVE  /\ V.action = "deny" => Outcome(e, p) = {"dropped"}
               /\ AllClear(s) /\ ListsBound(e) /\ PlainWords(e) => Outcome(e, p) = {"delivered"}
    <3> DEFINE mid == Filtered(node, hop, p, {"delivered"})
    <3>1. EndsFrom(e, p, t) = mid
      <4>1. PICK beyond : EndsFrom(e, p, t) = Fate(e, p, t.at, t.from, beyond)
        BY Underway
      <4>2. Serves(node, dst)
        BY <2>2
      <4>3. Fate(e, p, t.at, t.from, beyond) = mid
        BY <1>2, <1>5, <2>2, <4>2, Arrives
      <4> QED BY <4>1, <4>3
    <3>2. /\ mid \subseteq {"delivered"} \cup {"dropped"} /\ mid # {}
          /\ V.action = "deny" => mid = {"dropped"}
          /\ Clear(V) /\ ListsBound(e) /\ PlainWords(e) => mid = {"delivered"}
      <4> DEFINE onward == {"delivered"}
                 W == Evaluate(e[t.at], hop, q, q.port)
      <4>1. onward # {}
        OBVIOUS
      <4> HIDE DEF hop, onward
      <4>2. LET F == Filtered(e[t.at], hop, p, onward)
            IN  /\ F \subseteq onward \cup {"dropped"}
                /\ onward # {} => F # {}
                /\ W.action = "deny" => F = {"dropped"}
                /\ Clear(W) /\ ListsBound(e) /\ PlainWords(e) => F = onward
        BY <1>2, <2>4, FilteredIs
      <4> QED BY <2>3, <4>1, <4>2 DEF onward
    <3> HIDE DEF mid
    <3>3. Leads(Outcome(e, p), mid, ListsBound(e) /\ PlainWords(e) /\ AllClear(t))
      BY <2>4, <3>1 DEF Tracks
    <3> QED BY <1>3, <3>2, <3>3 DEF Leads
  <2> QED BY <1>2, <1>3, <2>5 DEF AllEnd
<1> QED BY <1>1, <1>4, <1>5, EndConcludes DEF WalkHolds, s, V

\* No route: only a table read to its end stops the packet.
LEMMA StuckEnds ==
    ASSUME NEW e \in Estates, NEW q \in Queries, NEW t, DOMAIN t = Fields, Walking(e, q, t), ~Looping(t),
           ~Serves(e[t.at], DstOf(e, q, t)), Lookup(e[t.at], DstOf(e, q, t)) = {}
    PROVE  WalkHolds(e, q, Ended(Reached(e, q, t, NoVerdict), RoutingWithoutRoute(e[t.at], DstOf(e, q, t))))
<1> DEFINE s == Reached(e, q, t, NoVerdict)
           routing == RoutingWithoutRoute(e[t.at], DstOf(e, q, t))
           z == Ended(s, routing)
<1>1. /\ DOMAIN s = Fields /\ s.branched = t.branched
      /\ s.translated = (t.translated \/ NatOf(e, q, t).applied)
      /\ s.nat_unknown = (t.nat_unknown \/ NatOf(e, q, t).unreadable)
      /\ s.hops = Passed(t, NoVerdict)
  BY ReachedIs
<1> HIDE DEF s
<1>2. /\ t.at \in Device /\ Hopped(t.hops) /\ Unblocked(t) /\ (PlainWords(e) => InWords(t))
      /\ Single(t) /\ Straight(e, q) => Tracks(e, q, t)
  BY DEF Walking
<1>3. /\ s.hops # <<>> /\ Last(s.hops).device = t.at
      /\ Unblocked(s) /\ (PlainWords(e) => InWords(s))
  <2>1. NoVerdict.action # "deny" /\ NoVerdict.action \in Words
    BY DEF NoVerdict, Words
  <2> QED BY <1>1, <1>2, <2>1, HopAdded
<1>4. routing \in {"unreachable", "unknown"}
  BY DEF RoutingWithoutRoute
<1>5. z.routing = routing /\ z.hops = s.hops
  BY <1>1, EndedIs
<1>6. ASSUME Single(s), Straight(e, q), NatReadAtTheEnd(e, s), routing = "unreachable", NoPartRouted(e, q, z)
      PROVE  AllEnd(e, q, "dropped")
  <2>1. /\ ~t.translated /\ ~NatOf(e, q, t).applied /\ ~NatOf(e, q, t).unreadable /\ Single(t)
        /\ ~UnnormalisedNat(e[t.at])
    BY <1>1, <1>3, <1>6 DEF Single, NatReadAtTheEnd
  <2>2. Untouched(e, q, t.at) /\ DstOf(e, q, t) = First(q.dsts)
    BY <2>1, Unchanged
  <2>3. Tracks(e, q, t)
    BY <1>2, <1>6, <2>1
  <2>4. \A i \in DOMAIN e[t.at].routes : Whole(q.dsts, e[t.at].routes[i].prefix.set)
    BY <1>3, <1>5, <1>6 DEF NoPartRouted
  <2>5. ASSUME NEW p \in PacketsOf(q) PROVE Outcome(e, p) = {"dropped"}
    <3>1. EndsFrom(e, p, t) = {"dropped"}
      <4>1. PICK beyond : EndsFrom(e, p, t) = Fate(e, p, t.at, t.from, beyond)
        BY Underway
      <4>2. Fate(e, p, t.at, t.from, beyond) = {"dropped"}
        BY <1>2, <1>6, <2>2, <2>4, Unrouted
      <4> QED BY <4>1, <4>2
    <3>2. Leads(Outcome(e, p), {"dropped"}, ListsBound(e) /\ PlainWords(e) /\ AllClear(t))
      BY <2>3, <3>1 DEF Tracks
    <3> QED BY <3>2 DEF Leads
  <2> QED BY <2>5 DEF AllEnd
<1>7. (Single(s) /\ Straight(e, q) /\ NatReadAtTheEnd(e, s)) =>
               /\ ~Unblocked(s) => AllEnd(e, q, "dropped")
               /\ routing = "unreachable" /\ NoPartRouted(e, q, Ended(s, routing)) => AllEnd(e, q, "dropped")
               /\ routing = "routed" /\ AllClear(s) /\ ListsBound(e) /\ PlainWords(e) => AllEnd(e, q, "delivered")
  BY <1>3, <1>4, <1>6
<1>8. routing # "same-zone"
  BY <1>4
<1> HIDE DEF routing, z
<1>9. WalkHolds(e, q, Ended(s, routing))
  BY <1>1, <1>3, <1>7, <1>8, EndConcludes DEF WalkHolds
<1> QED BY <1>9 DEF s, routing

\* Part of the range goes another way: nothing is claimed.
LEMMA SplitEnds ==
    ASSUME NEW e \in Estates, NEW q \in Queries, NEW t, DOMAIN t = Fields, Walking(e, q, t)
    PROVE  WalkHolds(e, q, Ended(Reached(e, q, t, NoVerdict), "unknown"))
<1> DEFINE s == Reached(e, q, t, NoVerdict)
<1>1. DOMAIN s = Fields /\ s.hops = Passed(t, NoVerdict)
  BY ReachedIs
<1> HIDE DEF s
<1>2. Hopped(t.hops) /\ Unblocked(t) /\ (PlainWords(e) => InWords(t))
  BY DEF Walking
<1>3. Unblocked(s) /\ (PlainWords(e) => InWords(s))
  <2>1. NoVerdict.action # "deny" /\ NoVerdict.action \in Words
    BY DEF NoVerdict, Words
  <2> QED BY <1>1, <1>2, <2>1, HopAdded
<1> QED BY <1>1, <1>3, EndConcludes DEF WalkHolds, s

\* What the listed of a device let through of a packet that is sent on.
LEMMA Crossing ==
    ASSUME NEW e \in Estates, NEW q \in Queries, NEW t, NEW p \in PacketsOf(q), Walking(e, q, t), ~Looping(t),
           ~t.translated, ~NatOf(e, q, t).applied, ~NatOf(e, q, t).unreadable, ~UnnormalisedNat(e[t.at]), Straight(e, q),
           ~Serves(e[t.at], DstOf(e, q, t)), Lookup(e[t.at], DstOf(e, q, t)) # {},
           Several(q.dsts) => RoutesSubdividing(e[t.at], q.dsts) = {},
           EqualCostNextHops(e[t.at], DstOf(e, q, t)) = {}
    PROVE  LET V == VerdictOut(e, q, t)
               next == Onward(e, RouteOf(e, q, t), Beyond(e, p, t))
               mid == EndsFrom(e, p, t)
           IN  /\ mid \subseteq next \cup {"dropped"}
               /\ next # {} => mid # {}
               /\ V.action = "deny" => mid = {"dropped"}
               /\ Clear(V) /\ ListsBound(e) /\ PlainWords(e) => mid = next
<1> DEFINE node == e[t.at]
           dst == First(q.dsts)
           r == RouteOf(e, q, t)
           V == VerdictOut(e, q, t)
           beyond == Beyond(e, p, t)
           next == Onward(e, r, beyond)
           hop == HopAt(node, t.from, {r.interface}, node.zones[r.interface])
<1>1. Untouched(e, q, t.at) /\ DstOf(e, q, t) = dst /\ PortOf(e, q, t) = q.port
  BY Unchanged
<1>2. t.at \in Device /\ ListsApart(e)
  BY DEF Walking, Straight
<1>3. r \in Lookup(node, dst)
  BY <1>1 DEF RouteOf
<1>4. ~Serves(node, dst) /\ EqualCostNextHops(node, dst) = {}
  BY <1>1
<1>5. EndsFrom(e, p, t) = Fate(e, p, t.at, t.from, beyond)
  BY Underway
<1>6. V = Evaluate(e[t.at], hop, q, q.port)
  BY <1>1 DEF VerdictOut, VerdictAt
<1> HIDE DEF beyond, r, V
<1>7. Fate(e, p, t.at, t.from, beyond) = Filtered(e[t.at], hop, p, next)
  <2>1. SentOneWay(e, q, t.at)
    BY <1>4 DEF SentOneWay
  <2> DEFINE d == t.at
             from == t.from
  <2>2. /\ d \in Device /\ Untouched(e, q, d) /\ SentOneWay(e, q, d) /\ r \in Lookup(e[d], First(q.dsts))
        /\ hop = HopAt(e[d], from, {r.interface}, e[d].zones[r.interface])
    BY <1>1, <1>2, <1>3, <2>1
  <2> HIDE DEF d, from, hop, node, dst
  <2>3. Fate(e, p, d, from, beyond) = Filtered(e[d], hop, p, next)
    BY ONLY <2>2, SentOn, e \in Estates, q \in Queries, p \in PacketsOf(q), Straight(e, q) DEF next
  <2> QED BY <2>3 DEF d, from
<1> DEFINE W == Evaluate(e[t.at], hop, q, q.port)
<1> HIDE DEF hop, next
<1>8. LET F == Filtered(e[t.at], hop, p, next)
      IN  /\ F \subseteq next \cup {"dropped"}
          /\ next # {} => F # {}
          /\ W.action = "deny" => F = {"dropped"}
          /\ Clear(W) /\ ListsBound(e) /\ PlainWords(e) => F = next
  BY <1>2, FilteredIs
<1>9. LET F == EndsFrom(e, p, t)
      IN  /\ F \subseteq next \cup {"dropped"}
          /\ next # {} => F # {}
          /\ V.action = "deny" => F = {"dropped"}
          /\ Clear(V) /\ ListsBound(e) /\ PlainWords(e) => F = next
  BY <1>5, <1>6, <1>7, <1>8
<1> QED BY <1>9 DEF next, beyond, r, V

\* What the walk has of a device the packet is sent on from.
LEMMA CrossedHop ==
    ASSUME NEW e \in Estates, NEW q \in Queries, NEW t, DOMAIN t = Fields, Walking(e, q, t)
    PROVE  LET V == VerdictOut(e, q, t)
               s == Crossed(e, q, t)
           IN  /\ s.hops # <<>> /\ Last(s.hops).device = t.at /\ Hopped(s.hops) /\ Len(s.hops) = Len(t.hops) + 1
               /\ Len(t.hops) \in Nat
               /\ Unblocked(s) <=> V.action # "deny"
               /\ AllClear(s) <=> (AllClear(t) /\ Clear(V))
               /\ PlainWords(e) => InWords(s)
<1> DEFINE V == VerdictOut(e, q, t)
           s == Crossed(e, q, t)
<1>1. s.hops = Passed(t, V)
  BY CrossedIs
<1>2. t.at \in Device /\ Hopped(t.hops) /\ Unblocked(t) /\ (PlainWords(e) => InWords(t))
  BY DEF Walking
<1>3. PlainWords(e) => V.action \in Words
  BY <1>2, WordsAre DEF VerdictOut, VerdictAt
<1> HIDE DEF s, V
<1>4. /\ Hopped(s.hops) /\ Len(t.hops) \in Nat /\ Len(s.hops) = Len(t.hops) + 1
      /\ s.hops # <<>> /\ Last(s.hops).device = t.at
      /\ Unblocked(s) <=> (Unblocked(t) /\ V.action # "deny")
      /\ AllClear(s) <=> (AllClear(t) /\ Clear(V))
      /\ (InWords(t) /\ V.action \in Words) => InWords(s)
  BY <1>1, <1>2, HopAdded
<1>5. /\ s.hops # <<>> /\ Last(s.hops).device = t.at /\ Hopped(s.hops) /\ Len(s.hops) = Len(t.hops) + 1
      /\ Len(t.hops) \in Nat
      /\ Unblocked(s) <=> V.action # "deny"
      /\ AllClear(s) <=> (AllClear(t) /\ Clear(V))
      /\ PlainWords(e) => InWords(s)
  BY <1>2, <1>3, <1>4
<1> QED BY <1>5 DEF s, V

\* Some device on the way denies it: no packet gets through.
LEMMA DenialEnds ==
    ASSUME NEW e \in Estates, NEW q \in Queries, NEW t, DOMAIN t = Fields, Walking(e, q, t), ~Looping(t),
           ~Serves(e[t.at], DstOf(e, q, t)), Lookup(e[t.at], DstOf(e, q, t)) # {},
           ~(Several(q.dsts) /\ RoutesSubdividing(e[t.at], q.dsts) # {}),
           VerdictOut(e, q, t).action = "deny"
    PROVE  WalkHolds(e, q, Ended(Crossed(e, q, t), IF RouteOf(e, q, t).next_hop = NoAddress THEN t.routing ELSE "routed"))
<1> DEFINE s == Crossed(e, q, t)
           routing == IF RouteOf(e, q, t).next_hop = NoAddress THEN t.routing ELSE "routed"
<1>1. /\ DOMAIN s = Fields
      /\ ~s.branched => ~t.branched /\ EqualCostNextHops(e[t.at], DstOf(e, q, t)) = {}
      /\ ~s.translated => ~t.translated /\ ~NatOf(e, q, t).applied
      /\ ~s.nat_unknown => ~t.nat_unknown /\ ~NatOf(e, q, t).unreadable
  BY CrossedIs
<1>2. /\ s.hops # <<>> /\ Last(s.hops).device = t.at
      /\ AllClear(s) <=> (AllClear(t) /\ Clear(VerdictOut(e, q, t)))
      /\ PlainWords(e) => InWords(s)
  BY CrossedHop
<1>3. routing \in {"unknown", "routed"}
  BY DEF Walking
<1>4. ~AllClear(s)
  BY <1>2 DEF Clear
<1> HIDE DEF s, routing
<1>5. ASSUME Single(s), Straight(e, q), NatReadAtTheEnd(e, s) PROVE AllEnd(e, q, "dropped")
  <2>1. /\ ~t.translated /\ ~NatOf(e, q, t).applied /\ ~NatOf(e, q, t).unreadable /\ Single(t)
        /\ ~UnnormalisedNat(e[t.at]) /\ EqualCostNextHops(e[t.at], DstOf(e, q, t)) = {}
    BY <1>1, <1>2, <1>5 DEF Single, NatReadAtTheEnd
  <2>2. Tracks(e, q, t)
    BY <1>5, <2>1 DEF Walking
  <2>3. ASSUME NEW p \in PacketsOf(q) PROVE Outcome(e, p) = {"dropped"}
    <3>1. EndsFrom(e, p, t) = {"dropped"}
      BY <1>5, <2>1, Crossing
    <3>2. Leads(Outcome(e, p), {"dropped"}, ListsBound(e) /\ PlainWords(e) /\ AllClear(t))
      BY <2>2, <3>1 DEF Tracks
    <3> QED BY <3>2 DEF Leads
  <2> QED BY <2>3 DEF AllEnd
<1>6. (Single(s) /\ Straight(e, q) /\ NatReadAtTheEnd(e, s)) =>
               /\ ~Unblocked(s) => AllEnd(e, q, "dropped")
               /\ routing = "unreachable" /\ NoPartRouted(e, q, Ended(s, routing)) => AllEnd(e, q, "dropped")
               /\ routing = "routed" /\ AllClear(s) /\ ListsBound(e) /\ PlainWords(e) => AllEnd(e, q, "delivered")
  BY <1>3, <1>4, <1>5
<1>7. routing # "same-zone"
  BY <1>3
<1>8. WalkHolds(e, q, Ended(s, routing))
  BY <1>1, <1>2, <1>6, <1>7, EndConcludes DEF WalkHolds
<1> QED BY <1>8 DEF s, routing

\* The path leaves the estate: nothing is claimed.
LEMMA ExitEnds ==
    ASSUME NEW e \in Estates, NEW q \in Queries, NEW t, DOMAIN t = Fields, Walking(e, q, t),
           VerdictOut(e, q, t).action # "deny"
    PROVE  WalkHolds(e, q, Ended(Crossed(e, q, t), "partially-routed"))
<1> DEFINE s == Crossed(e, q, t)
<1>1. DOMAIN s = Fields
  BY CrossedIs
<1>2. /\ Unblocked(s) <=> VerdictOut(e, q, t).action # "deny"
      /\ PlainWords(e) => InWords(s)
  BY CrossedHop
<1> HIDE DEF s
<1> QED BY <1>1, <1>2, EndConcludes DEF WalkHolds, s

LEMMA OnIs ==
    ASSUME NEW c, NEW at, NEW from, NEW also, DOMAIN c = Fields
    PROVE  LET w == [c EXCEPT !.at = at, !.from = from, !.nat_unknown = @ \/ also]
           IN  /\ DOMAIN w = Fields /\ w.at = at /\ w.from = from /\ w.nat_unknown = (c.nat_unknown \/ also)
               /\ w.visited = c.visited /\ w.dst = c.dst /\ w.src = c.src /\ w.port = c.port /\ w.routing = c.routing
               /\ w.pc = c.pc /\ w.branched = c.branched /\ w.translated = c.translated /\ w.hops = c.hops
BY DEF Fields

\* The packet goes on to the next device.
LEMMA WalkGoesOn ==
    ASSUME NEW e \in Estates, NEW q \in Queries, NEW t, DOMAIN t = Fields, t.pc = "walking", Walking(e, q, t), ~Looping(t),
           ~Serves(e[t.at], DstOf(e, q, t)), Lookup(e[t.at], DstOf(e, q, t)) # {},
           ~(Several(q.dsts) /\ RoutesSubdividing(e[t.at], q.dsts) # {}),
           VerdictOut(e, q, t).action # "deny", DeviceAt(e, RouteOf(e, q, t).next_hop) # NoDevice
    PROVE  LET route == RouteOf(e, q, t)
           IN  WalkHolds(e, q, [Crossed(e, q, t) EXCEPT !.at = DeviceAt(e, route.next_hop), !.from = route.next_hop,
                              !.nat_unknown = @ \/ (UnnormalisedNat(e[t.at]) /\ ~NatOf(e, q, t).applied)])
<1> DEFINE c == Crossed(e, q, t)
           r == RouteOf(e, q, t)
           V == VerdictOut(e, q, t)
           at == DeviceAt(e, r.next_hop)
           also == UnnormalisedNat(e[t.at]) /\ ~NatOf(e, q, t).applied
           w == [c EXCEPT !.at = at, !.from = r.next_hop, !.nat_unknown = @ \/ also]
<1>1. /\ DOMAIN c = Fields /\ c.visited = t.visited \cup {t.at} /\ c.dst = DstOf(e, q, t)
      /\ c.port = PortOf(e, q, t) /\ c.routing = t.routing /\ c.pc = t.pc
      /\ ~NatOf(e, q, t).applied => c.src = t.src
      /\ ~c.branched => ~t.branched /\ EqualCostNextHops(e[t.at], DstOf(e, q, t)) = {}
      /\ ~c.translated => ~t.translated /\ ~NatOf(e, q, t).applied
      /\ ~c.nat_unknown => ~t.nat_unknown /\ ~NatOf(e, q, t).unreadable
  BY CrossedIs
<1>2. /\ Hopped(c.hops) /\ Len(c.hops) = Len(t.hops) + 1 /\ Len(t.hops) \in Nat
      /\ Unblocked(c) <=> V.action # "deny"
      /\ AllClear(c) <=> (AllClear(t) /\ Clear(V))
      /\ PlainWords(e) => InWords(c)
  BY CrossedHop
<1>3. at \in Device /\ r.next_hop \in Address
  BY OwnerIsADevice
<1>4. t.visited \cup {t.at} \subseteq Device /\ Cardinality(t.visited \cup {t.at}) = Len(t.hops) + 1
  BY Underway
<1>5. t.routing = "unknown" /\ (~t.translated => t.src = First(q.srcs) /\ t.dst = First(q.dsts) /\ t.port = q.port)
      /\ (Single(t) /\ Straight(e, q) => Tracks(e, q, t))
  BY DEF Walking
<1> HIDE DEF c
<1>6. /\ DOMAIN w = Fields /\ w.at = at /\ w.from = r.next_hop /\ w.nat_unknown = (c.nat_unknown \/ also)
      /\ w.visited = c.visited /\ w.dst = c.dst /\ w.src = c.src /\ w.port = c.port /\ w.routing = c.routing
      /\ w.pc = c.pc /\ w.branched = c.branched /\ w.translated = c.translated /\ w.hops = c.hops
  <2> HIDE DEF at, also, r
  <2> QED BY <1>1, OnIs
<1> HIDE DEF w
<1>7. Unblocked(w) /\ (PlainWords(e) => InWords(w)) /\ (AllClear(w) => AllClear(t) /\ Clear(V))
  BY <1>2, <1>6 DEF Unblocked, InWords, AllClear
<1>8. ~w.translated => w.src = First(q.srcs) /\ w.dst = First(q.dsts) /\ w.port = q.port
  BY <1>1, <1>5, <1>6 DEF DstOf, PortOf
<1>9. ASSUME Single(w), Straight(e, q) PROVE Tracks(e, q, w)
  <2>1. /\ ~t.translated /\ ~NatOf(e, q, t).applied /\ ~NatOf(e, q, t).unreadable /\ Single(t)
        /\ ~UnnormalisedNat(e[t.at]) /\ EqualCostNextHops(e[t.at], DstOf(e, q, t)) = {}
    BY <1>1, <1>6, <1>9 DEF Single
  <2>2. Tracks(e, q, t)
    BY <1>5, <1>9, <2>1
  <2>3. ASSUME NEW p \in PacketsOf(q)
        PROVE  Leads(Outcome(e, p), EndsFrom(e, p, w), ListsBound(e) /\ PlainWords(e) /\ AllClear(w))
    <3> DEFINE beyond == Beyond(e, p, t)
               next == Onward(e, r, beyond)
               mid == EndsFrom(e, p, t)
    <3>1. /\ mid \subseteq next \cup {"dropped"}
          /\ next # {} => mid # {}
          /\ Clear(V) /\ ListsBound(e) /\ PlainWords(e) => mid = next
      BY <1>9, <2>1, Crossing
    <3>2. EndsFrom(e, p, w) = next
      <4>1. Fuel(w) = Fuel(t) - 1
        BY <1>2, <1>6, PathAssumption, FS_CardinalityType DEF Fuel
      <4>2. next = beyond[<<at, r.next_hop>>]
        BY DEF Onward
      <4>3. beyond = FatesWithin(e, p)[Fuel(w)]
        BY <4>1 DEF Beyond
      <4> QED BY <1>6, <4>2, <4>3 DEF EndsFrom
    <3> HIDE DEF mid, next, V
    <3>3. Leads(Outcome(e, p), next, ListsBound(e) /\ PlainWords(e) /\ AllClear(w))
      BY <1>7, <2>2, <3>1, TrackedOn DEF mid
    <3> QED BY <3>2, <3>3
  <2> QED BY <2>3 DEF Tracks
<1>10. Walking(e, q, w)
  BY <1>1, <1>2, <1>3, <1>4, <1>5, <1>6, <1>7, <1>8, <1>9 DEF Walking
<1>11. WalkHolds(e, q, w)
  BY <1>1, <1>6, <1>10 DEF WalkHolds
<1> QED BY <1>11 DEF w, c

\* One step of the walk.
LEMMA HopHolds ==
    ASSUME NEW e \in Estates, NEW q \in Queries, NEW t, DOMAIN t = Fields, t.pc = "walking", Walking(e, q, t)
    PROVE  WalkHolds(e, q, Step(e, q, t))
<1> DEFINE node == e[t.at]
           dst == DstOf(e, q, t)
           route == RouteOf(e, q, t)
           split == Several(q.dsts) /\ RoutesSubdividing(node, q.dsts) # {}
           arrived == Ended(Reached(e, q, t, VerdictIn(e, q, t)), "routed")
           stuck == Ended(Reached(e, q, t, NoVerdict), RoutingWithoutRoute(node, dst))
           parted == Ended(Reached(e, q, t, NoVerdict), "unknown")
           denied == Ended(Crossed(e, q, t), IF route.next_hop = NoAddress THEN t.routing ELSE "routed")
           gone == Ended(Crossed(e, q, t), "partially-routed")
           on == [Crossed(e, q, t) EXCEPT !.at = DeviceAt(e, route.next_hop), !.from = route.next_hop,
                     !.nat_unknown = @ \/ (UnnormalisedNat(node) /\ ~NatOf(e, q, t).applied)]
<1>1. Step(e, q, t) = IF Looping(t) THEN Ended(t, "unknown")
                      ELSE IF Serves(node, dst) THEN arrived
                      ELSE IF Lookup(node, dst) = {} THEN stuck
                      ELSE IF split THEN parted
                      ELSE IF VerdictOut(e, q, t).action = "deny" THEN denied
                      ELSE IF DeviceAt(e, route.next_hop) = NoDevice THEN gone
                      ELSE on
  BY DEF Step
<1>2. CASE Looping(t)
  BY <1>1, <1>2, LoopEnds
<1>3. CASE ~Looping(t) /\ Serves(node, dst)
  <2>1. WalkHolds(e, q, arrived)
    BY <1>3, ArrivalEnds
  <2> HIDE DEF arrived, stuck, parted, denied, gone, on, split
  <2> QED BY <1>1, <1>3, <2>1
<1>4. CASE ~Looping(t) /\ ~Serves(node, dst) /\ Lookup(node, dst) = {}
  <2>1. WalkHolds(e, q, stuck)
    BY <1>4, StuckEnds
  <2> HIDE DEF arrived, stuck, parted, denied, gone, on, split
  <2> QED BY <1>1, <1>4, <2>1
<1>5. CASE ~Looping(t) /\ ~Serves(node, dst) /\ Lookup(node, dst) # {} /\ split
  <2>1. WalkHolds(e, q, parted)
    BY SplitEnds
  <2> HIDE DEF arrived, stuck, parted, denied, gone, on, split
  <2> QED BY <1>1, <1>5, <2>1
<1>6. CASE ~Looping(t) /\ ~Serves(node, dst) /\ Lookup(node, dst) # {} /\ ~split /\ VerdictOut(e, q, t).action = "deny"
  <2>1. WalkHolds(e, q, denied)
    BY <1>6, DenialEnds
  <2> HIDE DEF arrived, stuck, parted, denied, gone, on, split
  <2> QED BY <1>1, <1>6, <2>1
<1>7. CASE /\ ~Looping(t) /\ ~Serves(node, dst) /\ Lookup(node, dst) # {} /\ ~split /\ VerdictOut(e, q, t).action # "deny"
           /\ DeviceAt(e, route.next_hop) = NoDevice
  <2>1. WalkHolds(e, q, gone)
    BY <1>7, ExitEnds
  <2> HIDE DEF arrived, stuck, parted, denied, gone, on, split
  <2> QED BY <1>1, <1>7, <2>1
<1>8. CASE /\ ~Looping(t) /\ ~Serves(node, dst) /\ Lookup(node, dst) # {} /\ ~split /\ VerdictOut(e, q, t).action # "deny"
           /\ DeviceAt(e, route.next_hop) # NoDevice
  <2>1. WalkHolds(e, q, on)
    BY <1>8, WalkGoesOn
  <2> HIDE DEF arrived, stuck, parted, denied, gone, on, split
  <2> QED BY <1>1, <1>8, <2>1
<1> HIDE DEF split, arrived, stuck, parted, denied, gone, on
<1> QED BY <1>2, <1>3, <1>4, <1>5, <1>6, <1>7, <1>8

PathInv == trace.pc = "ask" \/ (estate \in Estates /\ query \in Queries /\ WalkHolds(estate, query, trace))

LEMMA PathStarts == PathInit => PathInv
BY DEF PathInit, PathInv, NoTrace

LEMMA PathStays == PathInv /\ [PathNext]_pathVars => PathInv'
<1> SUFFICES ASSUME PathInv, [PathNext]_pathVars PROVE PathInv'
  OBVIOUS
<1>1. CASE AskPath
  <2>1. PICK e \in Estates, q \in Queries : estate' = e /\ query' = q /\ trace' = Start(e, q)
    BY <1>1 DEF AskPath
  <2>2. WalkHolds(e, q, Start(e, q))
    BY StartHolds DEF WalkHolds
  <2> QED BY <2>1, <2>2 DEF PathInv
<1>2. CASE TakeHop
  <2>1. trace.pc = "walking" /\ trace' = Step(estate, query, trace) /\ estate' = estate /\ query' = query
    BY <1>2 DEF TakeHop
  <2>2. estate \in Estates /\ query \in Queries /\ DOMAIN trace = Fields /\ Walking(estate, query, trace)
    BY <2>1 DEF PathInv, WalkHolds
  <2>3. WalkHolds(estate, query, Step(estate, query, trace))
    BY <2>1, <2>2, HopHolds
  <2> QED BY <2>1, <2>2, <2>3 DEF PathInv
<1>3. CASE UNCHANGED pathVars
  BY <1>3 DEF pathVars, PathInv
<1> QED BY <1>1, <1>2, <1>3 DEF PathNext

LEMMA AllOfThem ==
    ASSUME NEW e, NEW q \in Queries, NEW end, AllEnd(e, q, end)
    PROVE  Outcomes(e, q) = {end}
<1>1. [src |-> First(q.srcs), dst |-> First(q.dsts), port |-> q.port, protocol |-> q.protocol] \in PacketsOf(q)
  BY FirstOfQuery DEF PacketsOf
<1> QED BY <1>1 DEF Outcomes, AllEnd

LEMMA VerdictsFollow == PathInv => PathVerdictsHold
<1> SUFFICES ASSUME PathInv PROVE PathVerdictsHold
  OBVIOUS
<1>1. trace.pc = "done" => estate \in Estates /\ query \in Queries /\ Concluded(estate, query, trace)
  BY DEF PathInv, WalkHolds
<1>2. \A end : query \in Queries /\ AllEnd(estate, query, end) => Outcomes(estate, query) = {end}
  BY AllOfThem
<1>3. BlockIsDefinitive
  BY <1>1, <1>2 DEF BlockIsDefinitive, Concluded
<1>4. AllowedIsDelivered
  <2> SUFFICES ASSUME /\ trace.pc = "done" /\ trace.policy = "allowed" /\ ~trace.translated
                      /\ PlainWords(estate) /\ ListsBound(estate) /\ Straight(estate, query)
                      /\ NatReadAtTheEnd(estate, trace)
                      /\ Heard(trace) \/ Single(trace)
               PROVE  Outcomes(estate, query) = {"delivered"}
    BY DEF AllowedIsDelivered
  <2>1. Concluded(estate, query, trace) /\ query \in Queries
    BY <1>1
  <2>2. Heard(trace) => ~trace.branched /\ ~trace.nat_unknown
    BY <2>1 DEF Concluded, Heard
  <2>3. Single(trace)
    BY <2>2 DEF Single
  <2>4. AllEnd(estate, query, "delivered")
    BY <2>1, <2>3 DEF Concluded
  <2> QED BY <2>1, <2>4, <1>2
<1>6. DoubtsAreTold
  <2> SUFFICES ASSUME trace.pc = "done"
      PROVE  /\ (Doubtful(trace) /\ Heard(trace) /\ trace.policy # "blocked" /\ trace.routing # "unreachable") =>
                    /\ trace.policy = "partially-allowed"
                    /\ Judge("denied", trace) = "unverified" /\ Judge("allowed", trace) = "unverified"
             /\ (~Heard(trace) /\ trace.routing = "routed" /\ \A i \in DOMAIN trace.hops : ~trace.hops[i].undecidable) =>
                    trace.policy = "allowed"
    BY DEF DoubtsAreTold
  <2> DEFINE acts == {trace.hops[i].action : i \in DOMAIN trace.hops} \ {"none"}
             undecided == \E i \in DOMAIN trace.hops : trace.hops[i].undecidable
  <2>1. trace.routing = "same-zone" => trace.hops = <<>>
    BY <1>1 DEF Concluded
  <2>2. trace.routing # "same-zone" =>
          trace.policy = CASE "deny" \in acts -> "blocked"
                           [] "deny" \notin acts /\ trace.routing = "unreachable" -> "not-routed"
                           [] "deny" \notin acts /\ trace.routing # "unreachable" ->
                                 IF \/ undecided \/ trace.routing # "routed" \/ "mixed" \in acts
                                    \/ acts # {} /\ (trace.branched \/ trace.nat_unknown)
                                 THEN "partially-allowed" ELSE "allowed"
    BY <1>1 DEF Concluded, Finalise
  <2>3. Heard(trace) <=> acts # {}
    BY DEF Heard
  <2>4. Heard(trace) => trace.hops # <<>>
    BY DEF Heard
  <2> HIDE DEF acts
  <2>5. ASSUME Doubtful(trace), Heard(trace), trace.policy # "blocked", trace.routing # "unreachable"
        PROVE  trace.policy = "partially-allowed" /\ trace.routing # "same-zone"
    <3>1. trace.routing # "same-zone"
      BY <2>1, <2>4, <2>5
    <3> HIDE DEF undecided
    <3> QED BY <2>2, <2>3, <2>5, <3>1 DEF Doubtful
  <2>6. ASSUME ~Heard(trace), trace.routing = "routed", ~undecided
        PROVE  trace.policy = "allowed"
    <3>1. acts = {}
      BY <2>3, <2>6
    <3> HIDE DEF undecided
    <3> QED BY <2>2, <2>6, <3>1
  <2> QED BY <2>5, <2>6 DEF Judge
<1>5. JudgementsHold
  <2> SUFFICES ASSUME /\ trace.pc = "done" /\ Single(trace)
                      /\ PlainWords(estate) /\ ListsBound(estate) /\ Straight(estate, query)
                      /\ NatReadAtTheEnd(estate, trace) /\ NoPartRouted(estate, query, trace)
               PROVE  LET denied == Judge("denied", trace)
                          allowed == Judge("allowed", trace)
                          ends == Outcomes(estate, query)
                      IN  /\ denied = "upheld" \/ allowed = "violated" => ends = {"dropped"}
                          /\ denied = "violated" \/ allowed = "upheld" => ends = {"delivered"}
    BY DEF JudgementsHold
  <2> DEFINE through == trace.policy = "allowed" /\ trace.routing = "routed"
             stopped == trace.policy = "blocked" \/ trace.routing = "unreachable"
  <2>1. Judge("denied", trace) = IF stopped THEN "upheld"
                                 ELSE IF through \/ trace.routing = "same-zone" THEN "violated" ELSE "unverified"
    BY DEF Judge
  <2>2. Judge("allowed", trace) = IF through THEN "upheld" ELSE IF stopped THEN "violated" ELSE "unverified"
    BY DEF Judge
  <2>3. stopped => Outcomes(estate, query) = {"dropped"}
    BY <1>1, <1>2 DEF Concluded
  <2>4. through \/ trace.routing = "same-zone" => Outcomes(estate, query) = {"delivered"}
    BY <1>1, <1>2 DEF Concluded
  <2> HIDE DEF through, stopped
  <2> QED BY <2>1, <2>2, <2>3, <2>4
<1> QED BY <1>3, <1>4, <1>5, <1>6 DEF PathVerdictsHold

THEOREM PathVerdictsAlwaysHold == PathSpec => []PathVerdictsHold
<1>1. PathSpec => []PathInv
  BY PathStarts, PathStays, PTL DEF PathSpec
<1> QED BY <1>1, VerdictsFollow, PTL
=============================================================================
